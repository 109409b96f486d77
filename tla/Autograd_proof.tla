---------------------------- MODULE Autograd_proof ----------------------------
(***************************************************************************)
(* On any recorded graph the engine's order is a topological order of      *)
(* everything under the root: nothing is missing, nothing comes twice or   *)
(* too early.                                                              *)
(*                                                                         *)
(* The inductive invariant says what the counters mean: depCount[c] is the *)
(* number of edges into c from nodes that are visited and not yet placed,  *)
(* and ready are the unplaced nodes without such edges.  While counting,   *)
(* what is known is visited or queued, so that the visited nodes are       *)
(* closed under edges once the queue is empty.  The order is complete      *)
(* because edges lead to older nodes: of the nodes not placed, the newest  *)
(* has no edge left into it.                                               *)
(*                                                                         *)
(* A second invariant gives every tensor, buffer and gradient its type: a  *)
(* node has a copy and a shape for each of its edges, or for none, so what *)
(* it reads and passes on is there.                                        *)
(*                                                                         *)
(* A third one says what the gradients are worth.  Those that wait, each   *)
(* times the derivative of its node, add up to the derivative of the root; *)
(* applying a node keeps the sum by the chain rule.  When the engine comes *)
(* to a leaf, the leaf's own gradient is all that is left of the sum, so   *)
(* the accumulator delivers what Backprop says the leaf is owed.           *)
(***************************************************************************)
EXTENDS AutogradProps, SumLemmas

Placed == Before(Len(order) + 1)
Elements(s) == { s[i] : i \in 1..Len(s) }
Queued == Elements(queue)

\* The edges into c from the nodes S.
Into(c, S) == { p \in S \X {1, 2} : p[2] \in DOMAIN edges[p[1]] /\ edges[p[1]][p[2]] = c }

\* Every edge leads to an older node.
Wired ==
    /\ made \in Nat /\ made <= MaxNodes
    /\ edges = [n \in Node |-> edges[n]]
    /\ \A n \in Node : \E k \in 0..2 : edges[n] \in [1..k -> 0..n - 1]

EngineTypeOK ==
    /\ phase \in {"idle", "count", "order", "apply"}
    /\ queue \in Seq(Node) /\ order \in Seq(Node)
    /\ visited \subseteq Node /\ ready \subseteq Node
    /\ depCount \in [Node -> Nat]

Resting == phase = "idle" => visited = {} /\ order = << >>

Counting ==
    phase = "count" =>
        /\ order = << >>
        /\ known = visited \cup Queued /\ root \in known
        /\ \A n \in visited : Children(n) \subseteq known

Counts ==
    phase \in {"count", "order"} =>
        \A c \in Node : depCount[c] = Cardinality(Into(c, visited \ Placed))

Ordering == phase = "order" => ready = { c \in visited \ Placed : depCount[c] = 0 }

OrderInv ==
    /\ Wired /\ EngineTypeOK /\ Resting /\ Counting /\ Counts /\ Ordering
    /\ Placed \subseteq visited /\ InOrder
-----------------------------------------------------------------------------
(* Numbers and sets.                                                       *)

\* A set of nodes has a newest one: of the sets of elements from x on, for x
\* in the set, one is minimal.
LEMMA NewestNode ==
    ASSUME NEW T, T \subseteq Node, T # {}
    PROVE  \E x \in T : \A y \in T : y <= x
<1> DEFINE From(x) == T \cap (x..MaxNodes)
           F == { From(x) : x \in T }
<1>0. MaxNodes \in Nat /\ T \subseteq Nat
  BY AutogradAssumption DEF Node
<1>1. F \subseteq FiniteSubsetsOf(Nat)
  <2>1. ASSUME NEW x \in T PROVE IsFiniteSet(From(x)) /\ From(x) \subseteq Nat
    <3>1. IsFiniteSet(x..MaxNodes)
      BY <1>0, FS_Interval
    <3> QED
      BY <1>0, <3>1, FS_Subset
  <2> QED
    BY <2>1 DEF FiniteSubsetsOf
<1>2. PICK U \in F : \A V \in F : ~(<< V, U >> \in StrictSubsetOrdering(Nat))
  <2>1. F # {}
    OBVIOUS
  <2> HIDE DEF F
  <2> QED
    BY <1>1, <2>1, FS_StrictSubsetOrderingWellFounded, WFMin
<1>3. PICK x \in T : U = From(x)
  OBVIOUS
<1>4. ASSUME NEW y \in T, ~(y <= x) PROVE FALSE
  <2>1. From(y) \subseteq From(x) /\ x \in From(x) /\ x \notin From(y)
    BY <1>0, <1>4 DEF Node
  <2>2. From(y) \in SUBSET Nat /\ From(x) \in SUBSET Nat /\ From(y) # From(x)
    BY <1>0, <2>1
  <2>3. From(y) \in F
    OBVIOUS
  <2> HIDE DEF From
  <2> QED
    BY <1>2, <1>3, <2>1, <2>2, <2>3 DEF StrictSubsetOrdering
<1> QED
  BY <1>4

LEMMA FiniteNodes == ASSUME NEW S \in SUBSET Node PROVE IsFiniteSet(S)
<1>1. IsFiniteSet(Node)
  BY AutogradAssumption, FS_Interval DEF Node
<1> QED
  BY <1>1, FS_Subset

\* What Wired says of one node.
LEMMA WiredNode ==
    ASSUME Wired, NEW n \in Node
    PROVE  /\ DOMAIN edges[n] \subseteq {1, 2} /\ IsFiniteSet(DOMAIN edges[n])
           /\ \A i \in DOMAIN edges[n] : edges[n][i] \in Nat /\ edges[n][i] < n
           /\ Children(n) \subseteq Node /\ \A c \in Children(n) : c < n
<1>1. PICK k \in 0..2 : edges[n] \in [1..k -> 0..n - 1]
  BY DEF Wired
<1>2. n \in Nat /\ n <= MaxNodes /\ MaxNodes \in Nat
  BY AutogradAssumption DEF Node
<1>3. DOMAIN edges[n] = 1..k /\ IsFiniteSet(1..k)
  BY <1>1, FS_Interval
<1>4. \A i \in DOMAIN edges[n] : edges[n][i] \in Nat /\ edges[n][i] < n
  BY <1>1, <1>2
<1>5. DOMAIN edges[n] \subseteq {1, 2}
  BY <1>3
<1> QED
  BY <1>2, <1>3, <1>4, <1>5 DEF Children, Node

LEMMA IntoFinite ==
    ASSUME NEW S \in SUBSET Node, NEW c
    PROVE  IsFiniteSet(Into(c, S)) /\ Cardinality(Into(c, S)) \in Nat
<1>1. IsFiniteSet(S) /\ IsFiniteSet({1, 2})
  <2>1. IsFiniteSet({1, 2})
    <3>1. IsFiniteSet(1..2)
      <4>1. 1 \in Int /\ 2 \in Int
        OBVIOUS
      <4> QED
        BY <4>1, FS_Interval, Zenon
    <3>2. {1, 2} \in SUBSET (1..2)
      OBVIOUS
    <3> QED
      BY <3>1, <3>2, FS_Subset
  <2> QED
    BY <2>1, FiniteNodes
<1>2. IsFiniteSet(S \X {1, 2})
  BY <1>1, FS_Product
<1>3. Into(c, S) \in SUBSET (S \X {1, 2})
  BY DEF Into
<1> QED
  BY <1>2, <1>3, FS_Subset, FS_CardinalityType

\* No edge into c from S: nobody in S has c for a child.
LEMMA IntoNone ==
    ASSUME Wired, NEW S \in SUBSET Node, NEW c \in Node
    PROVE  Cardinality(Into(c, S)) = 0 <=> \A n \in S : c \notin Children(n)
<1>1. Cardinality(Into(c, S)) = 0 <=> Into(c, S) = {}
  BY IntoFinite, FS_EmptySet
<1>2. ASSUME NEW n \in S, c \in Children(n) PROVE Into(c, S) # {}
  <2>1. PICK i \in DOMAIN edges[n] : edges[n][i] = c
    BY <1>2 DEF Children
  <2>2. << n, i >> \in Into(c, S)
    BY <2>1, WiredNode DEF Into
  <2> QED
    BY <2>2
<1>3. ASSUME NEW p \in Into(c, S) PROVE p[1] \in S /\ c \in Children(p[1])
  <2>1. c # 0
    BY AutogradAssumption DEF Node
  <2> QED
    BY <1>3, <2>1 DEF Into, Children
<1> QED
  BY <1>1, <1>2, <1>3

\* One node more: its edges are added.
LEMMA IntoOneMore ==
    ASSUME Wired, NEW S \in SUBSET Node, NEW n \in Node \ S, NEW c
    PROVE  /\ EdgeCount(n, c) \in Nat
           /\ Cardinality(Into(c, S \cup {n})) = Cardinality(Into(c, S)) + EdgeCount(n, c)
<1> DEFINE I == { i \in DOMAIN edges[n] : edges[n][i] = c }
           B == { << n, i >> : i \in I }
           f == [i \in I |-> << n, i >>]
<1>1. I \subseteq {1, 2} /\ IsFiniteSet(I)
  <2>1. I \in SUBSET DOMAIN edges[n]
    OBVIOUS
  <2> QED
    BY <2>1, WiredNode, FS_Subset
<1>2. IsFiniteSet(B) /\ Cardinality(B) = Cardinality(I)
  <2>1. f \in Bijection(I, B)
    BY DEF Bijection, Injection, Surjection, IsInjective
  <2>2. ExistsBijection(I, B)
    BY <2>1 DEF ExistsBijection
  <2> QED
    BY <1>1, <2>2, FS_Bijection
<1>3. Into(c, S \cup {n}) = Into(c, S) \cup B
  <2>1. ASSUME NEW p \in Into(c, S \cup {n}) PROVE p \in Into(c, S) \cup B
    BY <2>1 DEF Into
  <2>2. B \subseteq Into(c, S \cup {n})
    BY <1>1 DEF Into
  <2>3. Into(c, S) \subseteq Into(c, S \cup {n})
    BY DEF Into
  <2> QED
    BY <2>1, <2>2, <2>3
<1>4. Into(c, S) \cap B = {} /\ Cardinality({}) = 0
  BY FS_EmptySet DEF Into
<1>5. IsFiniteSet(Into(c, S)) /\ Cardinality(Into(c, S)) \in Nat
  BY IntoFinite
<1>6. Cardinality(I) \in Nat /\ Cardinality(I) = EdgeCount(n, c)
  BY <1>1, FS_CardinalityType DEF EdgeCount
<1> HIDE DEF B, I
<1>7. Cardinality(Into(c, S) \cup B) = Cardinality(Into(c, S)) + Cardinality(B)
  <2>1. Cardinality(Into(c, S) \cup B)
          = Cardinality(Into(c, S)) + Cardinality(B) - Cardinality(Into(c, S) \cap B)
    BY <1>2, <1>5, FS_Union
  <2>2. Cardinality(Into(c, S) \cap B) = 0
    BY <1>4
  <2> QED
    BY <1>2, <1>5, <1>6, <2>1, <2>2
<1> QED
  BY <1>2, <1>3, <1>6, <1>7

-----------------------------------------------------------------------------
(* The program's actions, and the steps of the engine that leave the order *)
(* alone.                                                                  *)

LEMMA SameOrder ==
    ASSUME OrderInv, visited' = visited, order' = order, Wired',
           UNCHANGED << edges, root, queue, known, depCount >>,
           EngineTypeOK', Resting', Counting', Ordering',
           phase' \in {"count", "order"} => phase \in {"count", "order"},
           phase' = "order" => phase = "order",
           phase' = "apply" => phase = "apply"
    PROVE  OrderInv'
<1>1. Placed' = Placed /\ \A i \in DOMAIN order : Before(i)' = Before(i)
  BY DEF Placed, Before
<1>2. \A n \in visited : Children(n)' = Children(n)
  BY DEF Children
<1>3. Counts'
  <2>1. \A c : Into(c, visited \ Placed)' = Into(c, visited \ Placed)
    BY <1>1 DEF Into
  <2> QED
    BY <1>1, <2>1 DEF OrderInv, Counts
<1>4. InOrder'
  BY <1>1, <1>2 DEF OrderInv, InOrder, Placed
<1> QED
  BY <1>1, <1>3, <1>4 DEF OrderInv

\* Between calls nothing is placed and nothing visited: the rest is vacuous.
LEMMA AtRest ==
    ASSUME Wired', EngineTypeOK', visited' = {}, order' = << >>, phase' = "idle"
    PROVE  OrderInv'
<1>1. Placed' = {} /\ DOMAIN order' = {}
  BY DEF Placed, Before
<1> QED
  BY <1>1 DEF OrderInv, Resting, Counting, Counts, Ordering, InOrder

LEMMA InitOrder == AInit => OrderInv
<1> SUFFICES ASSUME AInit PROVE OrderInv
  OBVIOUS
<1>2. Wired
  <2>1. \A n \in Node : << >> \in [1..0 -> 0..n - 1]
    OBVIOUS
  <2> QED
    BY <2>1, AutogradAssumption DEF AInit, Wired
<1>3. EngineTypeOK
  BY DEF AInit, EngineTypeOK
<1>4. Placed = {} /\ DOMAIN order = {}
  BY DEF AInit, Placed, Before
<1> QED
  BY <1>2, <1>3, <1>4 DEF AInit, OrderInv, Resting, Counting, Counts, Ordering, InOrder

LEMMA ForwardWired ==
    ASSUME Wired, NEW kind \in Kinds, NEW args \in ArgLists(kind), Forward(kind, args)
    PROVE  Wired'
<1> DEFINE n == made + 1
           new == IF Recorded(kind, args)
                  THEN [i \in DOMAIN args |-> IF tensor[args[i]].rg THEN args[i] ELSE 0] ELSE << >>
<1>1. made \in Nat /\ n \in Node /\ n <= MaxNodes /\ made' = n
  BY AutogradAssumption DEF Forward, Wired, Node
<1>2. PICK k \in 1..2 : args \in [1..k -> 0..made]
  BY <1>1, AutogradAssumption DEF ArgLists
<1>3. \E j \in 0..2 : new \in [1..j -> 0..n - 1]
  <2>1. CASE Recorded(kind, args)
    <3>1. new \in [1..k -> 0..n - 1]
      BY <1>1, <1>2, <2>1
    <3>2. k \in 0..2
      BY <1>2
    <3> QED
      BY <3>1, <3>2
  <2>2. CASE ~Recorded(kind, args)
    <3> WITNESS 0 \in 0..2
    <3> QED
      BY <2>2
  <2> QED
    BY <2>1, <2>2
<1>4. edges' = [edges EXCEPT ![n] = new]
  BY DEF Forward
<1> HIDE DEF new, n
<1>5. ASSUME NEW m \in Node PROVE \E j \in 0..2 : edges'[m] \in [1..j -> 0..m - 1]
  BY <1>1, <1>3, <1>4 DEF Wired
<1>6. edges' = [m \in Node |-> edges'[m]]
  BY <1>4 DEF Wired
<1>7. made' \in Nat /\ made' <= MaxNodes
  BY <1>1 DEF n
<1> QED
  BY <1>5, <1>6, <1>7 DEF Wired

LEMMA ProgramKeeps ==
    ASSUME OrderInv, Program
    PROVE  OrderInv'
<1> USE DEF OrderInv
<1>1. ASSUME NEW kind \in Kinds, NEW args \in ArgLists(kind), Forward(kind, args) PROVE OrderInv'
  <2>1. Wired'
    BY <1>1, ForwardWired
  <2>2. EngineTypeOK' /\ visited' = {} /\ order' = << >> /\ phase' = "idle"
    BY <1>1 DEF Forward, Idle, engineVars, EngineTypeOK, Resting
  <2> QED
    BY <2>1, <2>2, AtRest
<1>2. CASE OptimizerStep \/ ZeroGrad
  <2>1. Wired'
    BY <1>2 DEF OptimizerStep, ZeroGrad, Wired
  <2>2. EngineTypeOK' /\ visited' = {} /\ order' = << >> /\ phase' = "idle"
    BY <1>2 DEF OptimizerStep, ZeroGrad, Idle, engineVars, EngineTypeOK, Resting
  <2> QED
    BY <2>1, <2>2, AtRest
<1>3. ASSUME NEW r \in Node, Backward(r) PROVE OrderInv'
  <2>1. Wired'
    BY <1>3 DEF Backward, Wired
  <2>2. EngineTypeOK'
    BY <1>3 DEF Backward, EngineTypeOK
  <2>3. visited' = {} /\ order' = << >> /\ phase' = "count" /\ root' = r
        /\ known' = {r} /\ queue' = << r >> /\ depCount' = [n \in Node |-> 0]
    BY <1>3 DEF Backward
  <2>4. Placed' = {} /\ DOMAIN order' = {} /\ Queued' = {r}
    BY <2>3 DEF Placed, Before, Queued, Elements
  <2>5. \A c : Into(c, visited \ Placed)' = {}
    BY <2>3 DEF Into
  <2>6. Counts'
    BY <2>3, <2>5, FS_EmptySet DEF Counts
  <2> QED
    BY <2>1, <2>2, <2>3, <2>4, <2>6 DEF Resting, Counting, Ordering, InOrder
<1> QED
  BY <1>1, <1>2, <1>3 DEF Program

-----------------------------------------------------------------------------
(* _countDeps.                                                             *)

\* Taking the head of the queue, and pushing the children of a node.
LEMMA QueueTail ==
    ASSUME queue \in Seq(Node), queue # << >>
    PROVE  /\ Head(queue) \in Node /\ Tail(queue) \in Seq(Node)
           /\ Queued = {Head(queue)} \cup Elements(Tail(queue))
<1>1. Len(queue) \in Nat \ {0} /\ Len(Tail(queue)) = Len(queue) - 1
  OBVIOUS
<1>2. \A i \in 1..Len(queue) - 1 : Tail(queue)[i] = queue[i + 1]
  OBVIOUS
<1>3. Head(queue) = queue[1]
  OBVIOUS
<1>4. ASSUME NEW i \in 1..Len(queue), i # 1 PROVE queue[i] \in Elements(Tail(queue))
  <2>1. i - 1 \in 1..Len(Tail(queue)) /\ Tail(queue)[i - 1] = queue[i]
    BY <1>1, <1>2, <1>4
  <2> QED
    BY <2>1 DEF Elements
<1>5. ASSUME NEW j \in 1..Len(Tail(queue)) PROVE Tail(queue)[j] \in Queued
  <2>1. j + 1 \in 1..Len(queue) /\ Tail(queue)[j] = queue[j + 1]
    BY <1>1, <1>2
  <2> QED
    BY <2>1 DEF Queued, Elements
<1>6. queue[1] \in Queued
  BY <1>1 DEF Queued, Elements
<1> QED
  BY <1>3, <1>4, <1>5, <1>6 DEF Queued, Elements

LEMMA ConcatElements ==
    ASSUME NEW S, NEW s \in Seq(S), NEW t \in Seq(S)
    PROVE  /\ s \o t \in Seq(S)
           /\ Elements(s \o t) = Elements(s) \cup Elements(t)
<1>1. s \o t \in Seq(S) /\ Len(s \o t) = Len(s) + Len(t) /\ Len(s) \in Nat /\ Len(t) \in Nat
  OBVIOUS
<1>2. \A i \in 1..Len(s) + Len(t) : (s \o t)[i] = IF i <= Len(s) THEN s[i] ELSE t[i - Len(s)]
  OBVIOUS
<1>3. ASSUME NEW i \in 1..Len(s) PROVE i \in 1..Len(s \o t) /\ (s \o t)[i] = s[i]
  BY <1>1, <1>2
<1>4. ASSUME NEW i \in 1..Len(t) PROVE Len(s) + i \in 1..Len(s \o t) /\ (s \o t)[Len(s) + i] = t[i]
  BY <1>1, <1>2
<1>5. ASSUME NEW i \in 1..Len(s \o t)
      PROVE \/ i \in 1..Len(s) /\ (s \o t)[i] = s[i]
            \/ i - Len(s) \in 1..Len(t) /\ (s \o t)[i] = t[i - Len(s)]
  BY <1>1, <1>2
<1>6. Elements(s) \subseteq Elements(s \o t)
  BY <1>3 DEF Elements
<1>7. Elements(t) \subseteq Elements(s \o t)
  BY <1>4 DEF Elements
<1>8. Elements(s \o t) \subseteq Elements(s) \cup Elements(t)
  <2> SUFFICES ASSUME NEW i \in 1..Len(s \o t) PROVE (s \o t)[i] \in Elements(s) \cup Elements(t)
    BY DEF Elements
  <2>1. CASE i \in 1..Len(s) /\ (s \o t)[i] = s[i]
    BY <2>1 DEF Elements
  <2>2. CASE i - Len(s) \in 1..Len(t) /\ (s \o t)[i] = t[i - Len(s)]
    BY <2>2 DEF Elements
  <2> QED
    BY <1>5, <2>1, <2>2
<1> QED
  BY <1>1, <1>6, <1>7, <1>8

LEMMA PushedElements ==
    ASSUME Wired, NEW n \in Node, NEW seen
    PROVE  /\ Pushed(n, seen) \in Seq(Node)
           /\ Elements(Pushed(n, seen)) = Children(n) \ seen
<1> DEFINE one(i) == IF i \in DOMAIN edges[n] /\ edges[n][i] \notin seen \cup {0}
                     THEN << edges[n][i] >> ELSE << >>
           el(i) == IF i \in DOMAIN edges[n] /\ edges[n][i] \notin seen \cup {0}
                    THEN {edges[n][i]} ELSE {}
<1>1. DOMAIN edges[n] \subseteq {1, 2} /\ Children(n) \subseteq Node
  BY WiredNode
<1>2. ASSUME NEW i \in {1, 2}
      PROVE one(i) \in Seq(Node) /\ Elements(one(i)) = el(i)
  <2>1. CASE i \in DOMAIN edges[n] /\ edges[n][i] \notin seen \cup {0}
    <3>1. edges[n][i] \in Node
      BY <1>1, <2>1 DEF Children
    <3>2. one(i) = << edges[n][i] >> /\ el(i) = {edges[n][i]}
      BY <2>1
    <3> HIDE DEF one, el
    <3> QED
      BY <3>1, <3>2 DEF Elements
  <2>2. CASE ~(i \in DOMAIN edges[n] /\ edges[n][i] \notin seen \cup {0})
    <3>1. one(i) = << >> /\ el(i) = {}
      BY <2>2
    <3> HIDE DEF one, el
    <3> QED
      BY <3>1 DEF Elements
  <2> QED
    BY <2>1, <2>2
<1>3. el(1) \cup el(2) = Children(n) \ seen
  BY <1>1 DEF Children
<1>4. Pushed(n, seen) = one(1) \o one(2)
  BY DEF Pushed
<1> HIDE DEF one, el
<1>5. /\ one(1) \o one(2) \in Seq(Node)
      /\ Elements(one(1) \o one(2)) = el(1) \cup el(2)
  <2>1. /\ one(1) \in Seq(Node) /\ Elements(one(1)) = el(1)
        /\ one(2) \in Seq(Node) /\ Elements(one(2)) = el(2)
    BY <1>2
  <2>2. /\ one(1) \o one(2) \in Seq(Node)
        /\ Elements(one(1) \o one(2)) = Elements(one(1)) \cup Elements(one(2))
    <3>1. \A s, t \in Seq(Node) : s \o t \in Seq(Node) /\ Elements(s \o t) = Elements(s) \cup Elements(t)
      BY ConcatElements
    <3> QED
      BY <2>1, <3>1
  <2> QED
    BY <2>1, <2>2, Zenon
<1> QED
  BY <1>3, <1>4, <1>5

\* While counting nothing is placed.
LEMMA NothingPlaced ==
    ASSUME order = << >>
    PROVE  Placed = {} /\ DOMAIN order = {}
  BY DEF Placed, Before

LEMMA CountKeeps ==
    ASSUME OrderInv, Count
    PROVE  OrderInv'
<1> USE DEF OrderInv
<1>1. CASE CountSkip
  <2>1. /\ UNCHANGED << made, edges, phase, root, visited, depCount, known, ready, order >>
        /\ queue' = Tail(queue) /\ phase = "count" /\ Head(queue) \in visited /\ queue # << >>
    BY <1>1 DEF CountSkip, graphVars
  <2>2. Queued = {Head(queue)} \cup Queued' /\ queue' \in Seq(Node)
    BY <2>1, QueueTail DEF EngineTypeOK, Queued
  <2>3. Placed' = Placed /\ Before(Len(order) + 1)' = Before(Len(order) + 1)
    BY <2>1 DEF Placed, Before
  <2>4. \A c : Into(c, visited \ Placed)' = Into(c, visited \ Placed)
    BY <2>1, <2>3 DEF Into
  <2>5. EngineTypeOK' /\ Wired'
    BY <2>1, <2>2 DEF EngineTypeOK, Wired
  <2>6. Counting'
    BY <2>1, <2>2 DEF Counting, Children
  <2>7. Counts'
    BY <2>1, <2>3, <2>4 DEF Counts
  <2>8. DOMAIN order' = {} /\ Placed' = {}
    BY <2>1, <2>3, NothingPlaced DEF Counting
  <2> QED
    BY <2>1, <2>5, <2>6, <2>7, <2>8 DEF Resting, Ordering, InOrder
<1>2. CASE CountNode
  <2> DEFINE n == Head(queue)
  <2>1. /\ UNCHANGED << made, edges, phase, root, ready, order >>
        /\ phase = "count" /\ queue # << >> /\ n \notin visited
        /\ visited' = visited \cup {n} /\ known' = known \cup Children(n)
        /\ depCount' = [c \in Node |-> depCount[c] + EdgeCount(n, c)]
        /\ queue' = Tail(queue) \o Pushed(n, visited')
    BY <1>2 DEF CountNode, graphVars, Counted
  <2>2. n \in Node /\ Tail(queue) \in Seq(Node) /\ Queued = {n} \cup Elements(Tail(queue))
    BY <2>1, QueueTail DEF EngineTypeOK
  <2> HIDE DEF n
  <2>3. Children(n) \subseteq Node /\ Pushed(n, visited') \in Seq(Node)
        /\ Elements(Pushed(n, visited')) = Children(n) \ visited'
    BY <2>2, WiredNode, PushedElements
  <2>4. queue' \in Seq(Node) /\ Queued' = Elements(Tail(queue)) \cup (Children(n) \ visited')
    <3>1. \A s, t \in Seq(Node) : s \o t \in Seq(Node) /\ Elements(s \o t) = Elements(s) \cup Elements(t)
      BY ConcatElements
    <3> QED
      BY <2>1, <2>2, <2>3, <3>1 DEF Queued
  <2>5. order = << >> /\ Placed = {} /\ DOMAIN order = {} /\ Placed' = {}
    BY <2>1, NothingPlaced DEF Counting, Placed, Before
  <2>6. \A c \in Node : EdgeCount(n, c) \in Nat
                        /\ Cardinality(Into(c, visited \cup {n})) = depCount[c] + EdgeCount(n, c)
    <3>1. visited \in SUBSET Node /\ n \in Node \ visited /\ visited \ Placed = visited
      BY <2>1, <2>2, <2>5 DEF EngineTypeOK
    <3>2. \A c \in Node : depCount[c] = Cardinality(Into(c, visited))
      BY <2>1, <3>1 DEF Counts
    <3>3. ASSUME NEW c \in Node
          PROVE  /\ EdgeCount(n, c) \in Nat
                 /\ Cardinality(Into(c, visited \cup {n})) = Cardinality(Into(c, visited)) + EdgeCount(n, c)
      BY <3>1, IntoOneMore
    <3> QED
      BY <3>2, <3>3
  <2>7. Wired' /\ EngineTypeOK'
    <3>1. depCount' \in [Node -> Nat]
      BY <2>1, <2>6 DEF EngineTypeOK
    <3> QED
      BY <2>1, <2>2, <2>4, <3>1 DEF EngineTypeOK, Wired
  <2>8. Counting'
    <3>1. \A m : Children(m)' = Children(m)
      BY <2>1 DEF Children
    <3>2. known' = visited' \cup Queued'
      BY <2>1, <2>2, <2>4 DEF Counting
    <3>3. \A m \in visited' : Children(m) \subseteq known'
      BY <2>1 DEF Counting
    <3> QED
      BY <2>1, <3>1, <3>2, <3>3 DEF Counting
  <2>9. Counts'
    <3>1. \A c : Into(c, visited \ Placed)' = Into(c, visited \cup {n})
      BY <2>1, <2>5 DEF Into
    <3>2. \A c \in Node : depCount'[c] = depCount[c] + EdgeCount(n, c)
      BY <2>1
    <3> QED
      BY <2>6, <3>1, <3>2 DEF Counts
  <2> QED
    BY <2>1, <2>5, <2>7, <2>8, <2>9 DEF Resting, Ordering, InOrder
<1>3. CASE CountDone
  <2>1. /\ UNCHANGED << made, edges, root, queue, visited, depCount, known, order >>
        /\ phase = "count" /\ phase' = "order" /\ queue = << >>
        /\ ready' = { n \in known : depCount[n] = 0 }
    BY <1>3 DEF CountDone, graphVars
  <2>2. order = << >> /\ Placed = {} /\ DOMAIN order = {} /\ Placed' = {}
    BY <2>1, NothingPlaced DEF Counting, Placed, Before
  <2>3. known = visited /\ root \in visited /\ \A n \in visited : Children(n) \subseteq visited
    <3>1. Queued = {}
      BY <2>1 DEF Queued, Elements
    <3> QED
      BY <2>1, <3>1 DEF Counting
  <2>4. Wired' /\ EngineTypeOK'
    BY <2>1, <2>3 DEF EngineTypeOK, Wired
  <2>5. Counts'
    <3>1. \A c : Into(c, visited \ Placed)' = Into(c, visited \ Placed)
      BY <2>1, <2>2 DEF Into
    <3> QED
      BY <2>1, <3>1 DEF Counts
  <2>6. Ordering'
    BY <2>1, <2>2, <2>3 DEF Ordering
  <2>7. \A n : Children(n)' = Children(n)
    BY <2>1 DEF Children
  <2> QED
    BY <2>1, <2>2, <2>3, <2>4, <2>5, <2>6, <2>7 DEF Resting, Counting, InOrder
<1> QED
  BY <1>1, <1>2, <1>3 DEF Count

-----------------------------------------------------------------------------
(* The order and its end.                                                  *)

\* What is placed keeps all that leads to it placed.
LEMMA PlacedClosed ==
    ASSUME OrderInv, NEW c \in Placed, NEW n \in visited, c \in Children(n)
    PROVE  n \in Placed
<1>1. PICK i \in 1..Len(order) : c = order[i]
  BY DEF OrderInv, EngineTypeOK, Placed, Before
<1>2. n \in Before(i)
  BY <1>1 DEF OrderInv, EngineTypeOK, InOrder
<1> QED
  BY <1>1, <1>2 DEF OrderInv, EngineTypeOK, Placed, Before

\* A node no unplaced node leads to has a count of zero, and conversely.
LEMMA CountZero ==
    ASSUME OrderInv, phase = "order", NEW c \in Node
    PROVE  depCount[c] = 0 <=> \A n \in visited \ Placed : c \notin Children(n)
<1>1. visited \ Placed \in SUBSET Node
  BY DEF OrderInv, EngineTypeOK
<1>2. depCount[c] = Cardinality(Into(c, visited \ Placed))
  BY DEF OrderInv, Counts
<1> QED
  BY <1>1, <1>2, IntoNone DEF OrderInv

\* When nothing is ready everything is placed.
LEMMA Complete ==
    ASSUME OrderInv, phase = "order", ready = {}
    PROVE  visited \subseteq Placed
<1> SUFFICES ASSUME visited \ Placed # {} PROVE FALSE
  OBVIOUS
<1>1. visited \ Placed \subseteq Node
  BY DEF OrderInv, EngineTypeOK
<1>2. PICK c \in visited \ Placed : \A n \in visited \ Placed : n <= c
  BY <1>1, NewestNode
<1>3. ASSUME NEW n \in visited \ Placed, c \in Children(n) PROVE FALSE
  <2>1. c < n /\ c \in Nat /\ n \in Nat
    BY <1>1, <1>2, <1>3, WiredNode, AutogradAssumption DEF OrderInv, Node
  <2> QED
    BY <1>2, <1>3, <2>1
<1>4. depCount[c] = 0
  BY <1>1, <1>2, <1>3, CountZero
<1> QED
  BY <1>2, <1>4 DEF OrderInv, Ordering

LEMMA PlacedMore ==
    ASSUME order \in Seq(Node), NEW n \in Node, order' = Append(order, n)
    PROVE  /\ order' \in Seq(Node) /\ Placed' = Placed \cup {n}
           /\ DOMAIN order' = DOMAIN order \cup {Len(order) + 1}
           /\ \A i \in DOMAIN order : order'[i] = order[i] /\ Before(i)' = Before(i)
           /\ \A i : i = Len(order) + 1 => order'[i] = n /\ Before(i)' = Placed
<1>1. /\ Len(order) \in Nat /\ order' \in Seq(Node) /\ Len(order') = Len(order) + 1
      /\ \A i \in 1..Len(order) : order'[i] = order[i]
      /\ order'[Len(order) + 1] = n
  OBVIOUS
<1>2. DOMAIN order = 1..Len(order) /\ DOMAIN order' = 1..Len(order) + 1
  BY <1>1
<1>3. ASSUME NEW i \in 1..Len(order) + 1 PROVE Before(i)' = Before(i)
  <2>1. \A j \in 1..i - 1 : order'[j] = order[j]
    BY <1>1
  <2> QED
    BY <2>1 DEF Before
<1>4. Placed' = Placed \cup {n}
  BY <1>1 DEF Placed, Before
<1>5. ASSUME NEW i, i = Len(order) + 1 PROVE order'[i] = n /\ Before(i)' = Placed
  <2>1. Before(i)' = Before(i)
    BY <1>1, <1>3, <1>5
  <2> QED
    BY <1>1, <1>5, <2>1 DEF Placed
<1> QED
  BY <1>1, <1>2, <1>3, <1>4, <1>5

LEMMA OrderNodeKeeps ==
    ASSUME OrderInv, NEW n \in Node, OrderNode(n)
    PROVE  OrderInv'
<1> USE DEF OrderInv
<1>1. /\ UNCHANGED << made, edges, phase, root, queue, visited, known >>
      /\ phase = "order" /\ n \in ready
      /\ order' = Append(order, n)
      /\ depCount' = [c \in Node |-> depCount[c] - EdgeCount(n, c)]
      /\ ready' = (ready \ {n}) \cup { c \in Children(n) : depCount'[c] = 0 }
  BY DEF OrderNode, graphVars, FallsReady
<1>2. n \in visited \ Placed /\ depCount[n] = 0 /\ visited \subseteq Node
  BY <1>1 DEF Ordering, EngineTypeOK
<1>3. /\ order' \in Seq(Node) /\ Placed' = Placed \cup {n}
      /\ DOMAIN order' = DOMAIN order \cup {Len(order) + 1}
      /\ \A i \in DOMAIN order : order'[i] = order[i] /\ Before(i)' = Before(i)
      /\ \A i : i = Len(order) + 1 => order'[i] = n /\ Before(i)' = Placed
  BY <1>1, PlacedMore DEF EngineTypeOK
<1>4. \A m \in visited : Children(m) \subseteq visited
  BY <1>1 DEF InOrder
<1>5. \A m \in visited \ Placed : n \notin Children(m)
  BY <1>1, <1>2, CountZero
<1>6. Children(n) \cap Placed = {}
  BY <1>2, PlacedClosed
<1>7. \A m : Children(m)' = Children(m)
  BY <1>1 DEF Children
<1>8. \A c \in Node : /\ EdgeCount(n, c) \in Nat
                      /\ depCount'[c] = depCount[c] - EdgeCount(n, c)
                      /\ depCount'[c] = Cardinality(Into(c, (visited \ Placed) \ {n}))
                      /\ depCount'[c] \in Nat
  <2> DEFINE S == (visited \ Placed) \ {n}
  <2>1. S \in SUBSET Node /\ n \in Node \ S /\ S \cup {n} = visited \ Placed
    BY <1>2
  <2> HIDE DEF S
  <2>2. ASSUME NEW c \in Node
        PROVE  /\ EdgeCount(n, c) \in Nat /\ Cardinality(Into(c, S)) \in Nat
               /\ Cardinality(Into(c, S \cup {n})) = Cardinality(Into(c, S)) + EdgeCount(n, c)
    BY <2>1, IntoOneMore, IntoFinite
  <2>3. \A c \in Node : depCount[c] = Cardinality(Into(c, S \cup {n}))
    BY <1>1, <2>1 DEF Counts
  <2>4. \A c \in Node : depCount'[c] = depCount[c] - EdgeCount(n, c)
    BY <1>1
  <2>5. \A c \in Node : depCount'[c] = Cardinality(Into(c, S))
    <3>1. ASSUME NEW c \in Node PROVE depCount'[c] = Cardinality(Into(c, S))
      <4>1. /\ EdgeCount(n, c) \in Nat /\ Cardinality(Into(c, S)) \in Nat
            /\ depCount[c] = Cardinality(Into(c, S)) + EdgeCount(n, c)
        BY <2>2, <2>3
      <4> QED
        BY <2>4, <4>1
    <3> QED
      BY <3>1
  <2> QED
    BY <2>2, <2>4, <2>5 DEF S
<1>9. Counts'
  <2>1. \A c : Into(c, visited \ Placed)' = Into(c, (visited \ Placed) \ {n})
    BY <1>1, <1>3 DEF Into
  <2> QED
    BY <1>8, <2>1 DEF Counts
<1>10. Ordering'
  <2>1. ASSUME NEW c \in visited \ Placed', depCount'[c] = 0 PROVE c \in ready'
    <3>1. CASE c \in Children(n)
      BY <1>1, <2>1, <3>1
    <3>2. CASE c \notin Children(n)
      <4>1. \A m \in (visited \ Placed) \ {n} : c \notin Children(m)
        BY <1>2, <1>8, <2>1, IntoNone
      <4>2. depCount[c] = 0
        BY <1>1, <1>2, <2>1, <3>2, <4>1, CountZero
      <4> QED
        BY <1>1, <1>3, <2>1, <4>2 DEF Ordering
    <3> QED
      BY <3>1, <3>2
  <2>2. ASSUME NEW c \in ready' PROVE c \in visited \ Placed' /\ depCount'[c] = 0
    <3>1. CASE c \in Children(n) /\ depCount'[c] = 0
      <4>1. c # n
        BY <1>2, <1>5, <3>1
      <4> QED
        BY <1>2, <1>3, <1>4, <1>6, <3>1, <4>1
    <3>2. CASE c \in ready \ {n}
      <4>1. c \in visited \ Placed /\ depCount[c] = 0 /\ c # n
        BY <1>1, <3>2 DEF Ordering
      <4>2. \A m \in (visited \ Placed) \ {n} : c \notin Children(m)
        BY <1>1, <1>2, <4>1, CountZero
      <4>3. depCount'[c] = 0
        BY <1>2, <1>8, <4>1, <4>2, IntoNone
      <4> QED
        BY <1>3, <4>1, <4>3
    <3> QED
      BY <1>1, <2>2, <3>1, <3>2
  <2> QED
    BY <1>1, <2>1, <2>2 DEF Ordering
<1>11. Wired' /\ EngineTypeOK'
  <2>1. depCount' \in [Node -> Nat] /\ ready' \subseteq Node
    BY <1>1, <1>2, <1>4, <1>8 DEF EngineTypeOK
  <2> QED
    BY <1>1, <1>3, <2>1 DEF Wired, EngineTypeOK
<1>12. InOrder'
  <2>1. ASSUME NEW i \in DOMAIN order'
        PROVE  /\ order'[i] \notin Before(i)'
               /\ \A m \in visited : order'[i] \in Children(m) => m \in Before(i)'
    BY <1>2, <1>3, <1>5, <2>1 DEF InOrder
  <2> QED
    BY <1>1, <1>4, <1>7, <2>1 DEF InOrder
<1> QED
  BY <1>1, <1>2, <1>3, <1>9, <1>10, <1>11, <1>12 DEF Resting, Counting

LEMMA RestKeeps ==
    ASSUME OrderInv, OrderDone \/ Apply
    PROVE  OrderInv'
<1> USE DEF OrderInv
<1>1. CASE OrderDone
  <2>1. /\ UNCHANGED << made, edges, root, queue, visited, depCount, known, ready, order >>
        /\ phase = "order" /\ phase' = "apply" /\ ready = {}
    BY <1>1 DEF OrderDone, graphVars, countVars
  <2>2. visited \subseteq Placed
    BY <2>1, Complete
  <2>3. Placed' = Placed /\ \A i \in DOMAIN order : Before(i)' = Before(i)
    BY <2>1 DEF Placed, Before
  <2>4. \A n : Children(n)' = Children(n)
    BY <2>1 DEF Children
  <2>5. InOrder'
    BY <2>1, <2>2, <2>3, <2>4 DEF InOrder, Placed
  <2>6. Wired' /\ EngineTypeOK'
    BY <2>1 DEF Wired, EngineTypeOK
  <2> QED
    BY <2>1, <2>3, <2>5, <2>6 DEF Resting, Counting, Counts, Ordering
<1>2. ASSUME NEW n \in Node, SkipNode(n) \/ Accumulate(n) \/ ApplyNode(n) PROVE OrderInv'
  <2>1. /\ UNCHANGED << made, edges, root, queue, visited, depCount, known, ready, order, phase >>
        /\ phase = "apply"
    BY <1>2 DEF SkipNode, Accumulate, ApplyNode, Applying, graphVars, countVars
  <2>2. Wired' /\ EngineTypeOK' /\ Resting' /\ Counting' /\ Ordering'
    BY <2>1 DEF Wired, EngineTypeOK, Resting, Counting, Ordering
  <2> QED
    BY <2>1, <2>2, SameOrder
<1>3. CASE (\E n \in Node : ApplyThrows(n)) \/ BackwardDone
  <2>1. /\ UNCHANGED << made, edges >> /\ phase' = "idle" /\ visited' = {} /\ order' = << >>
        /\ queue' = << >> /\ ready' = {} /\ depCount' = [n \in Node |-> 0]
    BY <1>3 DEF ApplyThrows, BackwardDone, Returned, graphVars
  <2>2. Wired' /\ EngineTypeOK'
    BY <2>1 DEF Wired, EngineTypeOK
  <2> QED
    BY <2>1, <2>2, AtRest
<1> QED
  BY <1>1, <1>2, <1>3 DEF Apply

LEMMA NextOrder == OrderInv /\ [ANext]_avars => OrderInv'
<1> SUFFICES ASSUME OrderInv, [ANext]_avars PROVE OrderInv'
  OBVIOUS
<1>1. CASE ANext
  BY <1>1, ProgramKeeps, CountKeeps, OrderNodeKeeps, RestKeeps DEF ANext, Engine, Order
<1>2. CASE UNCHANGED avars
  <2>1. UNCHANGED << made, edges, root, queue, visited, depCount, known, ready, order, phase >>
    BY <1>2 DEF avars, engineVars
  <2>2. Wired' /\ EngineTypeOK' /\ Resting' /\ Counting' /\ Ordering'
    <3>1. Queued' = Queued /\ Placed' = Placed /\ \A n : Children(n)' = Children(n)
      BY <2>1 DEF Queued, Elements, Placed, Before, Children
    <3> QED
      BY <2>1, <3>1 DEF OrderInv, Wired, EngineTypeOK, Resting, Counting, Ordering
  <2> QED
    BY <2>1, <2>2, SameOrder DEF OrderInv
<1> QED
  BY <1>1, <1>2

-----------------------------------------------------------------------------
\* The engine applies every node under the root, once, after all that add to
\* its gradient: for any recorded program, any sharing of results and any
\* order of taking ready nodes (backward, engine.ts 23-51).
THEOREM BackwardIsTopological == ASpec => []InOrder
<1>1. OrderInv => InOrder
  BY DEF OrderInv
<1> QED
  BY <1>1, InitOrder, NextOrder, PTL DEF ASpec

\* A dependency count is never negative and always says how many edges from
\* visited, unplaced nodes lead to the node (_countDeps, engine.ts 116-138).
THEOREM CountsAreEdges == ASpec => [](EngineTypeOK /\ Counts)
<1>1. OrderInv => EngineTypeOK /\ Counts
  BY DEF OrderInv
<1> QED
  BY <1>1, InitOrder, NextOrder, PTL DEF ASpec

-----------------------------------------------------------------------------
(* Types.                                                                  *)

Tensors ==
    [kind : {"none", "leaf", "add", "mul", "sum", "clamp", "detach"}, args : Seq(Nat), val : Int,
     wide : BOOLEAN, rg : BOOLEAN, seen : Seq(Int), shapes : Seq(BOOLEAN)]

\* What a function's apply finds: an edge for each argument it was given, and
\* for each edge a copy and a shape, or nothing once they are released.
Arity(kind) == IF kind \in {"add", "mul", "clamp"} THEN 1..2 ELSE IF kind = "sum" THEN 1..1 ELSE {}
Buffers(n) ==
    /\ DOMAIN edges[n] = {} \/ DOMAIN edges[n] = Arity(tensor[n].kind)
    /\ \/ saved[n] = << >> /\ meta[n] = << >>
       \/ saved[n] \in [DOMAIN edges[n] -> Grad] /\ meta[n] \in [DOMAIN edges[n] -> BOOLEAN]

TapeOK ==
    /\ made \in NumLeaves..MaxNodes
    /\ tensor \in [Node -> Tensors]
    /\ saved = [n \in Node |-> saved[n]] /\ meta = [n \in Node |-> meta[n]]
    /\ \A n \in Node : Buffers(n)

GradsOK ==
    /\ grad \in [Leaf -> Grad \cup {None}] /\ gradMap \in [Node -> Grad \cup {None}]
    /\ root \in 0..made /\ known \subseteq Node /\ at \in 1..Len(order) + 1

TypeInv == TapeOK /\ GradsOK

LEMMA ForwardTyped ==
    ASSUME Wired, TapeOK, NEW kind \in Kinds, NEW args \in ArgLists(kind), Forward(kind, args)
    PROVE  TapeOK'
<1> DEFINE n == made + 1
           v == [i \in DOMAIN args |-> tensor[args[i]].val]
           w == [i \in DOMAIN args |-> tensor[args[i]].wide]
           rec == Recorded(kind, args)
           next == [i \in DOMAIN args |-> IF tensor[args[i]].rg THEN args[i] ELSE 0]
           copies == [i \in DOMAIN args |-> Snapshot(args[i])]
           new == [kind |-> kind, args |-> args, val |-> ResultValue(kind, v, w),
                   wide |-> ResultWide(kind, w), rg |-> rec, seen |-> v, shapes |-> w]
<1>1. /\ made \in Nat /\ n \in Node /\ n \in NumLeaves..MaxNodes /\ made' = n
      /\ tensor' = [tensor EXCEPT ![n] = new]
      /\ edges' = [edges EXCEPT ![n] = IF rec THEN next ELSE << >>]
      /\ saved' = [saved EXCEPT ![n] = IF rec THEN copies ELSE << >>]
      /\ meta' = [meta EXCEPT ![n] = IF rec THEN w ELSE << >>]
  BY AutogradAssumption DEF Forward, TapeOK, Node
<1>2. kind \in {"add", "mul", "sum", "clamp", "detach"}
  BY AutogradAssumption
<1>3. PICK k \in 1..2 :
         /\ args \in [1..k -> 1..made]
         /\ k = IF kind \in {"sum", "detach"} THEN 1 ELSE 2
  BY <1>1, <1>2, AutogradAssumption DEF ArgLists, TapeOK
<1>4. /\ DOMAIN args = 1..k /\ args \in Seq(Nat)
      /\ \A i \in 1..k : args[i] \in Node
  <2>1. \A i \in 1..k : args[i] \in 1..made
    BY <1>3
  <2>2. 1..made \subseteq Node /\ 1..made \subseteq Nat
    BY <1>1, AutogradAssumption DEF Node
  <2>3. args \in [1..k -> Nat] /\ k \in Nat
    BY <1>3, <2>2
  <2>4. args \in Seq(Nat)
    BY <2>3
  <2> QED BY <1>3, <2>1, <2>2, <2>4
<1>5. \A i \in 1..k : tensor[args[i]].val \in Int /\ tensor[args[i]].wide \in BOOLEAN
  BY <1>4 DEF TapeOK, Tensors
<1>6. v \in [1..k -> Int] /\ w \in [1..k -> BOOLEAN]
  BY <1>4, <1>5
<1>7. copies \in [1..k -> Grad]
  BY <1>4, <1>5 DEF Snapshot, Grad
<1>8. DOMAIN next = 1..k
  BY <1>4
<1> HIDE DEF v, w, copies, next
<1>9. ResultValue(kind, v, w) \in Int
  <2>1. Width \in Int /\ \A x : Numel(x) \in Int
    BY AutogradAssumption DEF Numel
  <2>2. v[1] \in Int /\ Numel(w[1]) \in Int
    BY <1>3, <1>6, <2>1
  <2>3. k = 2 => v[2] \in Int
    BY <1>6
  <2>4. CASE kind = "sum"
    <3>1. ResultValue(kind, v, w) = v[1] * Numel(w[1])
      BY <2>4 DEF ResultValue
    <3> QED BY <2>2, <3>1
  <2>5. CASE kind = "detach"
    BY <2>2, <2>5 DEF ResultValue
  <2>6. CASE kind \in {"add", "mul", "clamp"}
    <3>1. v[2] \in Int
      BY <1>3, <2>3, <2>6
    <3> QED BY <2>2, <2>6, <3>1 DEF ResultValue
  <2> QED BY <1>2, <2>4, <2>5, <2>6
<1>10. ResultWide(kind, w) \in BOOLEAN /\ rec \in BOOLEAN
  BY DEF ResultWide, Any, Recorded
<1>11. v \in Seq(Int) /\ w \in Seq(BOOLEAN)
  BY <1>3, <1>6
<1> HIDE DEF rec
<1>12. new \in Tensors
  BY <1>2, <1>4, <1>9, <1>10, <1>11 DEF Tensors
<1> HIDE DEF new
<1>13. tensor' \in [Node -> Tensors]
  BY <1>1, <1>12 DEF TapeOK
<1>14. saved' = [m \in Node |-> saved'[m]] /\ meta' = [m \in Node |-> meta'[m]]
  BY <1>1 DEF TapeOK
<1>15. ASSUME NEW m \in Node PROVE Buffers(m)'
  <2>1. CASE m # n
    BY <1>1, <2>1 DEF TapeOK, Buffers, Wired
  <2>2. CASE m = n
    <3>1. /\ tensor'[m] = new /\ edges'[m] = IF rec THEN next ELSE << >>
          /\ saved'[m] = IF rec THEN copies ELSE << >>
          /\ meta'[m] = IF rec THEN w ELSE << >>
      BY <1>1, <2>2 DEF TapeOK, Wired
    <3>2. new.kind = kind
      BY DEF new
    <3>3. CASE rec
      <4>1. kind # "detach"
        BY <3>3 DEF rec, Recorded
      <4>2. 1..k = Arity(kind)
        BY <1>2, <1>3, <4>1 DEF Arity
      <4>3. saved'[m] \in [1..k -> Grad] /\ meta'[m] \in [1..k -> BOOLEAN]
            /\ DOMAIN edges'[m] = 1..k
        BY <1>6, <1>7, <1>8, <3>1, <3>3
      <4> QED BY <3>1, <3>2, <4>2, <4>3 DEF Buffers
    <3>4. CASE ~rec
      <4>1. DOMAIN edges'[m] = {} /\ saved'[m] = << >> /\ meta'[m] = << >>
        BY <3>1, <3>4
      <4> QED BY <4>1 DEF Buffers
    <3> QED BY <3>3, <3>4
  <2> QED BY <2>1, <2>2
<1> QED BY <1>1, <1>13, <1>14, <1>15 DEF TapeOK

\* What a node passes on is a gradient with a shape.
LEMMA PassedTyped ==
    ASSUME TypeInv, Wired, NEW n \in Node, ~Throws(n), gradMap[n] # None,
           NEW c \in Children(n)
    PROVE  Passed(n, gradMap[n], c) \in Grad \cup {None}
<1> DEFINE g == gradMap[n]
           k == tensor[n].kind
           out(i) == IF edges[n][i] = c THEN Reduce(n, Local(n, g, i), i) ELSE None
<1>1. g \in Grad /\ gradMap[c] \in Grad \cup {None}
  BY WiredNode DEF TypeInv, GradsOK
<1>2. DOMAIN edges[n] = Arity(k) /\ k \in {"add", "mul", "sum", "clamp"}
  <2>1. DOMAIN edges[n] # {}
    BY DEF Children
  <2> QED BY <2>1 DEF TypeInv, TapeOK, Buffers, Arity
<1>3. /\ \A x \in Grad : x.v \in Int /\ x.wide \in BOOLEAN
      /\ \A a \in Int, b \in BOOLEAN : [v |-> a, wide |-> b] \in Grad
      /\ \A x \in Grad : [x EXCEPT !.v = 0] \in Grad
  BY DEF Grad
<1>4. Width \in Int
  BY AutogradAssumption
<1>5. ASSUME NEW i \in DOMAIN edges[n] PROVE Local(n, g, i) \in Grad \cup {None}
  <2>1. CASE k = "add"
    BY <1>1, <2>1 DEF Local, AddBackward
  <2>2. CASE k # "add"
    <3>1. saved[n] # << >>
      BY <1>2, <2>2 DEF Throws
    <3>2. saved[n] \in [Arity(k) -> Grad] /\ meta[n] \in [Arity(k) -> BOOLEAN]
      BY <1>2, <3>1 DEF TypeInv, TapeOK, Buffers
    <3>3. CASE k = "mul"
      <4>1. 3 - i \in Arity(k)
        BY <1>2, <1>5, <3>3 DEF Arity
      <4>2. saved[n][3 - i] \in Grad
        BY <3>2, <4>1
      <4>3. g.v * saved[n][3 - i].v \in Int /\ (g.wide \/ saved[n][3 - i].wide) \in BOOLEAN
        BY <1>1, <1>3, <4>2
      <4>4. Local(n, g, i) = Times(g, saved[n][3 - i])
        BY <3>3 DEF Local, MulBackward
      <4> QED BY <1>3, <4>3, <4>4 DEF Times
    <3>4. CASE k = "sum"
      <4>1. Local(n, g, i) = [v |-> g.v, wide |-> g.wide \/ meta[n][1]]
        BY <3>4 DEF Local, SumBackward
      <4>2. g.v \in Int /\ (g.wide \/ meta[n][1]) \in BOOLEAN
        BY <1>1, <1>3
      <4> QED BY <1>3, <4>1, <4>2
    <3>5. CASE k = "clamp"
      <4>1. Local(n, g, i) = ClampBackward(n, g, i)
        BY <3>5 DEF Local
      <4> QED BY <1>1, <1>3, <4>1 DEF ClampBackward
    <3> QED BY <1>2, <2>2, <3>3, <3>4, <3>5
  <2> QED BY <2>1, <2>2
<1>6. ASSUME NEW x \in Grad \cup {None}, NEW i PROVE Reduce(n, x, i) \in Grad \cup {None}
  <2>1. x # None => x.v * Width \in Int
    BY <1>3, <1>4, <1>6
  <2> QED BY <1>3, <1>6, <2>1 DEF Reduce
<1>7. \A i \in DOMAIN edges[n] : out(i) \in Grad \cup {None}
  BY <1>5, <1>6
<1>8. ASSUME NEW a \in Grad \cup {None}, NEW b \in Grad PROVE Plus(a, b) \in Grad \cup {None}
  <2>1. CASE a = None
    BY <1>8, <2>1 DEF Plus
  <2>2. CASE a # None
    <3>1. a.v + b.v \in Int /\ (a.wide \/ b.wide) \in BOOLEAN
      BY <1>3, <1>8, <2>2
    <3> QED BY <1>3, <2>2, <3>1 DEF Plus
  <2> QED BY <2>1, <2>2
<1> HIDE DEF out
<1> DEFINE into(a, i) == IF i \in DOMAIN edges[n] /\ out(i) # None THEN Plus(a, out(i)) ELSE a
<1>9. ASSUME NEW a \in Grad \cup {None}, NEW i PROVE into(a, i) \in Grad \cup {None}
  BY <1>7, <1>8, <1>9
<1>10. into(into(gradMap[c], 1), 2) \in Grad \cup {None}
  BY <1>1, <1>9
<1> QED BY <1>10 DEF Passed, out

LEMMA TypeKept ==
    UNCHANGED << made, tensor, edges, saved, meta, grad, gradMap, root, known, at, order >> /\ TypeInv
        => TypeInv'
  BY DEF TypeInv, TapeOK, Buffers, GradsOK

LEMMA TypeInit == AInit => TypeInv
<1> SUFFICES ASSUME AInit PROVE TypeInv
  OBVIOUS
<1>1. /\ made = NumLeaves
      /\ tensor = [n \in Node |-> IF n \in Leaf THEN Parameter(n) ELSE NoTensor]
      /\ edges = [n \in Node |-> << >>]
      /\ saved = [n \in Node |-> << >>] /\ meta = [n \in Node |-> << >>]
  BY DEF AInit
<1>2. NoTensor \in Tensors
  BY DEF NoTensor, Tensors
<1>3. ASSUME NEW n \in Leaf PROVE Parameter(n) \in Tensors
  <2>1. n + 1 \in Int /\ (n \in WideLeaf) \in BOOLEAN
    BY DEF Leaf
  <2>2. \A t \in Tensors, v \in Int, w \in BOOLEAN :
           [t EXCEPT !.kind = "leaf", !.val = v, !.wide = w, !.rg = TRUE] \in Tensors
    BY DEF Tensors
  <2>3. [NoTensor EXCEPT !.kind = "leaf", !.val = n + 1, !.wide = n \in WideLeaf, !.rg = TRUE]
           \in Tensors
    BY <1>2, <2>1, <2>2
  <2> QED BY <2>3 DEF Parameter
<1>4. tensor \in [Node -> Tensors]
  BY <1>1, <1>2, <1>3
<1>5. \A n \in Node : Buffers(n)
  BY <1>1 DEF Buffers
<1>6. made \in NumLeaves..MaxNodes
  BY <1>1, AutogradAssumption
<1>7. TapeOK
  BY <1>1, <1>4, <1>5, <1>6 DEF TapeOK
<1>8. GradsOK
  BY <1>6, AutogradAssumption DEF AInit, GradsOK
<1> QED BY <1>7, <1>8 DEF TypeInv

LEMMA TypeStep == OrderInv /\ TypeInv /\ [ANext]_avars => TypeInv'
<1> SUFFICES ASSUME OrderInv, TypeInv, [ANext]_avars PROVE TypeInv'
  OBVIOUS
<1>0. /\ Wired /\ TapeOK /\ GradsOK /\ order \in Seq(Node) /\ Len(order) \in Nat
      /\ DOMAIN order = 1..Len(order) /\ made \in Nat /\ 1..made \subseteq Node
  BY AutogradAssumption DEF OrderInv, EngineTypeOK, TypeInv, TapeOK, Node
<1>1. ASSUME NEW kind \in Kinds, NEW args \in ArgLists(kind), Forward(kind, args) PROVE TypeInv'
  <2>1. TapeOK'
    BY <1>0, <1>1, ForwardTyped
  <2>2. UNCHANGED << grad, gradMap, root, known, at, order >> /\ made' = made + 1
    BY <1>1 DEF Forward, engineVars
  <2>3. GradsOK'
    BY <1>0, <2>2 DEF GradsOK
  <2> QED BY <2>1, <2>3 DEF TypeInv
<1>2. CASE OptimizerStep
  <2>1. /\ UNCHANGED << made, edges, saved, meta, grad, gradMap, root, known, at, order >>
        /\ tensor' = [n \in Node |-> IF n \in Leaf /\ grad[n] # None
                                     THEN [tensor[n] EXCEPT !.val = @ + 1] ELSE tensor[n]]
    BY <1>2 DEF OptimizerStep, engineVars
  <2>2. \A t \in Tensors : [t EXCEPT !.val = @ + 1] \in Tensors /\ [t EXCEPT !.val = @ + 1].kind = t.kind
    <3>1. ASSUME NEW t \in Tensors
          PROVE  /\ [t EXCEPT !.val = @ + 1] \in Tensors
                 /\ [t EXCEPT !.val = @ + 1].kind = t.kind
      <4>1. t.val + 1 \in Int
        BY DEF Tensors
      <4>2. /\ [t EXCEPT !.val = t.val + 1] \in Tensors
            /\ [t EXCEPT !.val = t.val + 1].kind = t.kind
        BY <4>1 DEF Tensors
      <4> QED BY <4>2
    <3> QED BY <3>1
  <2>3. tensor' \in [Node -> Tensors] /\ \A n \in Node : tensor'[n].kind = tensor[n].kind
    BY <1>0, <2>1, <2>2 DEF TapeOK
  <2>4. TapeOK'
    BY <1>0, <2>1, <2>3 DEF TapeOK, Buffers
  <2>5. GradsOK'
    BY <1>0, <2>1 DEF GradsOK
  <2> QED BY <2>4, <2>5 DEF TypeInv
<1>3. CASE ZeroGrad
  <2>1. /\ UNCHANGED << made, tensor, edges, saved, meta, gradMap, root, known, at, order >>
        /\ grad' = [l \in Leaf |-> None]
    BY <1>3 DEF ZeroGrad, engineVars
  <2>2. TapeOK'
    BY <1>0, <2>1 DEF TapeOK, Buffers
  <2> QED BY <1>0, <2>1, <2>2 DEF TypeInv, GradsOK
<1>4. ASSUME NEW r \in Node, Backward(r) PROVE TypeInv'
  <2>1. /\ UNCHANGED << made, tensor, edges, saved, meta, grad >>
        /\ r \in 1..made /\ root' = r /\ known' = {r} /\ order' = << >> /\ at' = 1
        /\ gradMap' = [n \in Node |-> IF n = r THEN [v |-> 1, wide |-> tensor[r].wide] ELSE None]
    BY <1>4 DEF Backward
  <2>2. TapeOK'
    BY <1>0, <2>1 DEF TapeOK, Buffers
  <2>3. [v |-> 1, wide |-> tensor[r].wide] \in Grad
    BY <1>0 DEF TapeOK, Tensors, Grad
  <2>4. gradMap' \in [Node -> Grad \cup {None}]
    BY <2>1, <2>3
  <2>5. root' \in 0..made' /\ known' \subseteq Node /\ at' \in 1..Len(order') + 1
    BY <1>0, <2>1
  <2> QED BY <1>0, <2>1, <2>2, <2>4, <2>5 DEF TypeInv, GradsOK
<1>5. CASE Count
  <2>1. UNCHANGED << made, tensor, edges, saved, meta, grad, gradMap, root, at, order >>
    BY <1>5 DEF Count, CountSkip, CountNode, CountDone, graphVars, bufferVars
  <2>2. known' \subseteq Node
    <3>1. CASE CountNode
      <4>1. phase = "count" /\ queue # << >> /\ known' = known \cup Children(Head(queue))
        BY <3>1 DEF CountNode
      <4>2. Head(queue) \in Node
        BY <4>1, QueueTail DEF OrderInv, EngineTypeOK
      <4>3. Children(Head(queue)) \subseteq Node
        BY <1>0, <4>2, WiredNode
      <4> QED BY <1>0, <4>1, <4>3 DEF GradsOK
    <3>2. CASE CountSkip \/ CountDone
      BY <1>0, <3>2 DEF CountSkip, CountDone, GradsOK
    <3> QED BY <1>5, <3>1, <3>2 DEF Count
  <2>3. TapeOK'
    BY <1>0, <2>1 DEF TapeOK, Buffers
  <2> QED BY <1>0, <2>1, <2>2, <2>3 DEF TypeInv, GradsOK
<1>6. ASSUME NEW n \in Node, OrderNode(n) PROVE TypeInv'
  <2>1. /\ UNCHANGED << made, tensor, edges, saved, meta, grad, gradMap, root, known, at >>
        /\ order' = Append(order, n)
    BY <1>6 DEF OrderNode, graphVars, bufferVars
  <2>2. Len(order') = Len(order) + 1
    BY <1>0, <2>1
  <2>3. at' \in 1..Len(order') + 1
    BY <1>0, <2>1, <2>2 DEF GradsOK
  <2>4. TapeOK'
    BY <1>0, <2>1 DEF TapeOK, Buffers
  <2> QED BY <1>0, <2>1, <2>3, <2>4 DEF TypeInv, GradsOK
<1>7. CASE OrderDone
  BY <1>7, TypeKept DEF OrderDone, graphVars, bufferVars, countVars
<1>8. ASSUME NEW n \in Node, SkipNode(n) \/ Accumulate(n) \/ ApplyNode(n) PROVE TypeInv'
  <2>1. /\ UNCHANGED << made, tensor, edges, root, known, order >>
        /\ at \in DOMAIN order /\ at' = at + 1
    BY <1>8 DEF SkipNode, Accumulate, ApplyNode, Applying, graphVars, countVars
  <2>2. at' \in 1..Len(order') + 1
    BY <1>0, <2>1
  <2>3. CASE SkipNode(n)
    <3>1. UNCHANGED << saved, meta, grad, gradMap >>
      BY <2>3 DEF SkipNode, bufferVars
    <3>2. TapeOK'
      BY <1>0, <2>1, <3>1 DEF TapeOK, Buffers
    <3> QED BY <1>0, <2>1, <2>2, <3>1, <3>2 DEF TypeInv, GradsOK
  <2>4. CASE Accumulate(n)
    <3>1. /\ UNCHANGED << saved, meta, gradMap >> /\ n \in Leaf /\ gradMap[n] # None
          /\ grad' = [grad EXCEPT ![n] = Plus(@, gradMap[n])]
      BY <2>4 DEF Accumulate, bufferVars
    <3>2. gradMap[n] \in Grad /\ grad[n] \in Grad \cup {None}
      BY <1>0, <3>1 DEF GradsOK
    <3>3. Plus(grad[n], gradMap[n]) \in Grad
      <4>1. \A a, b \in Grad : a.v + b.v \in Int /\ (a.wide \/ b.wide) \in BOOLEAN
        BY DEF Grad
      <4>2. \A a, b \in Grad : [v |-> a.v + b.v, wide |-> a.wide \/ b.wide] \in Grad
        BY <4>1 DEF Grad
      <4> QED BY <3>2, <4>2 DEF Plus
    <3>4. grad' \in [Leaf -> Grad \cup {None}]
      BY <1>0, <3>1, <3>3 DEF GradsOK
    <3>5. TapeOK'
      BY <1>0, <2>1, <3>1 DEF TapeOK, Buffers
    <3> QED BY <1>0, <2>1, <2>2, <3>1, <3>4, <3>5 DEF TypeInv, GradsOK
  <2>5. CASE ApplyNode(n)
    <3>1. /\ UNCHANGED grad /\ gradMap[n] # None /\ ~Throws(n)
          /\ saved' = [saved EXCEPT ![n] = << >>] /\ meta' = [meta EXCEPT ![n] = << >>]
          /\ gradMap' = [c \in Node |-> IF c \in Children(n) THEN Passed(n, gradMap[n], c)
                                        ELSE gradMap[c]]
      BY <2>5 DEF ApplyNode
    <3>2. \A c \in Children(n) : Passed(n, gradMap[n], c) \in Grad \cup {None}
      BY <1>0, <3>1, PassedTyped
    <3>3. gradMap' \in [Node -> Grad \cup {None}]
      BY <1>0, <3>1, <3>2 DEF GradsOK
    <3>4. saved' = [m \in Node |-> saved'[m]] /\ meta' = [m \in Node |-> meta'[m]]
      BY <1>0, <3>1 DEF TapeOK
    <3>5. \A m \in Node : Buffers(m)'
      BY <1>0, <2>1, <3>1 DEF TapeOK, Buffers
    <3>6. TapeOK'
      BY <1>0, <2>1, <3>4, <3>5 DEF TapeOK
    <3> QED BY <1>0, <2>1, <2>2, <3>1, <3>3, <3>6 DEF TypeInv, GradsOK
  <2> QED BY <1>8, <2>3, <2>4, <2>5
<1>9. CASE (\E n \in Node : ApplyThrows(n)) \/ BackwardDone
  <2>1. /\ UNCHANGED << made, tensor, edges, saved, meta, grad >>
        /\ root' = 0 /\ known' = {} /\ order' = << >> /\ at' = 1
        /\ gradMap' = [n \in Node |-> None]
    BY <1>9 DEF ApplyThrows, BackwardDone, Returned, graphVars, bufferVars
  <2>2. TapeOK'
    BY <1>0, <2>1 DEF TapeOK, Buffers
  <2>3. at' \in 1..Len(order') + 1 /\ root' \in 0..made' /\ known' \subseteq Node
    BY <1>0, <2>1
  <2>4. gradMap' \in [Node -> Grad \cup {None}]
    BY <2>1
  <2> QED BY <1>0, <2>1, <2>2, <2>3, <2>4 DEF TypeInv, GradsOK
<1>10. CASE UNCHANGED avars
  BY <1>10, TypeKept DEF avars, engineVars
<1> QED
  BY <1>1, <1>2, <1>3, <1>4, <1>5, <1>6, <1>7, <1>8, <1>9, <1>10
  DEF ANext, Program, Engine, Order, Apply

\* Every tensor and gradient is a number with a shape, a node has a copy and a
\* shape for each of its edges or for none, and the loops stay within their
\* arrays, for every recorded program.
THEOREM TapeTypeOK == ASpec => []ATypeOK
<1>1. OrderInv /\ TypeInv => ATypeOK
  <2> SUFFICES ASSUME OrderInv, TypeInv PROVE ATypeOK
    OBVIOUS
  <2>1. made \in NumLeaves..MaxNodes /\ made \in Nat /\ 1..made \subseteq Node
    BY AutogradAssumption DEF TypeInv, TapeOK, Node
  <2>2. ASSUME NEW n \in 1..made
        PROVE  /\ tensor[n].val \in Int /\ tensor[n].wide \in BOOLEAN /\ tensor[n].rg \in BOOLEAN
               /\ \A i \in DOMAIN edges[n] : edges[n][i] \in 0..n - 1
               /\ DOMAIN saved[n] = DOMAIN meta[n] /\ DOMAIN saved[n] \in {{}, DOMAIN edges[n]}
    <3>1. n \in Node
      BY <2>1
    <3>2. tensor[n] \in Tensors /\ Buffers(n)
      BY <3>1 DEF TypeInv, TapeOK
    <3>3. tensor[n].val \in Int /\ tensor[n].wide \in BOOLEAN /\ tensor[n].rg \in BOOLEAN
      BY <3>2 DEF Tensors
    <3>4. \A i \in DOMAIN edges[n] : edges[n][i] \in 0..n - 1
      BY <3>1, WiredNode DEF OrderInv, Node
    <3>5. DOMAIN saved[n] = DOMAIN meta[n] /\ DOMAIN saved[n] \in {{}, DOMAIN edges[n]}
      BY <3>2 DEF Buffers
    <3> QED BY <3>3, <3>4, <3>5
  <2> QED
    BY <2>1, <2>2 DEF ATypeOK, OrderInv, EngineTypeOK, TypeInv, GradsOK
<1> QED
  BY <1>1, InitOrder, NextOrder, TypeInit, TypeStep, PTL DEF ASpec
-----------------------------------------------------------------------------
(* The derivative.  Its definitions recur over the tape, and a recursive    *)
(* function exists where each value depends on earlier ones only.           *)

\* A set of nodes has an oldest one.
LEMMA OldestNode ==
    ASSUME NEW T, T \subseteq Nat, T # {}
    PROVE  \E x \in T : \A y \in T : x <= y
<1>1. PICK x \in T : \A y \in T : ~(<< y, x >> \in OpToRel(<, Nat))
  BY NatLessThanWellFounded, WFMin
<1>2. \A y \in T : ~(y < x)
  BY <1>1 DEF OpToRel
<1> QED
  BY <1>2

\* A step from functions and places to values, which reads earlier places only.
LooksBack(Step, m, V) ==
    /\ m \in Nat /\ V # {} /\ Step \in [[1..m -> V] \X (1..m) -> V]
    /\ \A f, g \in [1..m -> V], n \in 1..m :
           (\A k \in 1..(n - 1) : f[k] = g[k]) => Step[<< f, n >>] = Step[<< g, n >>]

Fixed(f, Step, m) == \A n \in 1..m : f[n] = Step[<< f, n >>]

\* Such a step has a fixed point.
LEMMA RecursionExists ==
    ASSUME NEW m, NEW V, NEW Step, LooksBack(Step, m, V)
    PROVE  \E f \in [1..m -> V] : Fixed(f, Step, m)
<1>a. m \in Nat
  BY DEF LooksBack
<1>0. /\ m \in Nat /\ V # {} /\ Step \in [[1..m -> V] \X (1..m) -> V]
      /\ \A f, g \in [1..m -> V], n \in 1..m :
             (\A k \in 1..(n - 1) : f[k] = g[k]) => Step[<< f, n >>] = Step[<< g, n >>]
  BY DEF LooksBack
<1> DEFINE UpTo(f, k) == \A n \in 1..m : n <= k => f[n] = Step[<< f, n >>]
           T == { k \in Nat : \E f \in [1..m -> V] : UpTo(f, k) }
<1>1. 0 \in T
  <2>1. PICK v \in V : TRUE
    BY <1>0
  <2>2. [n \in 1..m |-> v] \in [1..m -> V] /\ UpTo([n \in 1..m |-> v], 0)
    BY <1>0
  <2> HIDE DEF UpTo
  <2> QED
    BY <2>2
<1>2. ASSUME NEW k \in Nat, k \in T PROVE k + 1 \in T
  <2>1. PICK f \in [1..m -> V] : UpTo(f, k)
    BY <1>2
  <2> DEFINE h == [n \in 1..m |-> Step[<< f, n >>]]
  <2>2. h \in [1..m -> V]
    <3>1. \A n \in 1..m : << f, n >> \in [1..m -> V] \X (1..m)
      OBVIOUS
    <3> QED
      BY <1>0, <3>1
  <2>3. ASSUME NEW n \in 1..m, n <= k + 1 PROVE h[n] = Step[<< h, n >>]
    <3>1. \A j \in 1..(n - 1) : j \in 1..m /\ j <= k
      BY <1>a, <2>3
    <3>2. \A j \in 1..(n - 1) : h[j] = f[j]
      BY <2>1, <3>1
    <3>3. h[n] = Step[<< f, n >>]
      OBVIOUS
    <3> HIDE DEF h
    <3>4. Step[<< h, n >>] = Step[<< f, n >>]
      BY <1>0, <2>2, <3>2
    <3> QED
      BY <3>3, <3>4
  <2>4. UpTo(h, k + 1)
    BY <2>3
  <2> HIDE DEF h, UpTo
  <2> QED
    BY <2>2, <2>4
<1>3. m \in T
  <2> HIDE DEF T
  <2> QED
    BY <1>0, <1>1, <1>2, NatSet
<1>4. PICK f \in [1..m -> V] : UpTo(f, m)
  BY <1>3
<1>5. \A n \in 1..m : n <= m
  BY <1>0
<1> QED
  BY <1>4, <1>5 DEF Fixed

\* What an operation of the program recorded: older arguments, a snapshot of
\* their values and shapes, and edges to those that require grad.
Args(kind) == IF kind \in {"sum", "detach"} THEN 1..1 ELSE 1..2

Copies(n) == [i \in Args(tensor[n].kind) |-> [v |-> tensor[n].seen[i], wide |-> tensor[n].shapes[i]]]

Operation(n) ==
    LET t == tensor[n] IN
    /\ t.kind \in {"add", "mul", "sum", "clamp", "detach"}
    /\ t.args \in [Args(t.kind) -> 1..(n - 1)]
    /\ t.seen \in [Args(t.kind) -> Int] /\ t.shapes \in [Args(t.kind) -> BOOLEAN]
    /\ \A i \in Args(t.kind) : t.shapes[i] = tensor[t.args[i]].wide
    /\ ~t.rg => edges[n] = << >>
    /\ t.rg => /\ t.kind # "detach"
               /\ t.wide = ResultWide(t.kind, t.shapes)
               /\ edges[n] = [i \in Args(t.kind) |-> IF tensor[t.args[i]].rg THEN t.args[i] ELSE 0]
               /\ Released(n) \/ (saved[n] = Copies(n) /\ meta[n] = t.shapes)

TapeInv ==
    /\ \A l \in Leaf : tensor[l].rg /\ edges[l] = << >>
    /\ \A n \in 1..made \ Leaf : Operation(n)

LEMMA NodeFacts ==
    ASSUME TypeInv
    PROVE  /\ made \in Nat /\ NumLeaves \in Nat /\ NumLeaves <= made /\ made <= MaxNodes /\ MaxNodes \in Nat
           /\ Leaf \subseteq 1..made /\ 1..made \subseteq Node /\ Node \subseteq Nat
           /\ tensor \in [Node -> Tensors] /\ Width \in Nat \ {0}
  BY AutogradAssumption DEF TypeInv, TapeOK, Leaf, Node

\* What the gradients that wait outside B are worth per unit of leaf l: each
\* times the derivative of its node.
Weights(l, G, B) ==
    [n \in Node |-> IF n \in B \/ G[n] = None THEN 0
                    ELSE (G[n].v * Tangent(l)[n]) * Numel(tensor[n].wide)]

\* Together they are worth what the root is.
Balance(r, l, G, B) == SumFunction(Weights(l, G, B)) = Tangent(l)[r] * Numel(tensor[r].wide)

\* Leaf l feeds the root exactly when it feeds a node where a gradient waits.
Reaching(r, l, G, B) == l \in Feeds(r) <=> \E n \in Node \ B : G[n] # None /\ l \in Feeds(n)

\* A gradient waits at a node under the root, in the shape of its tensor.
Waiting(r, G) ==
    /\ G \in [Node -> Grad \cup {None}]
    /\ \A n \in Node : G[n] # None => n \in Under[r] /\ G[n].wide = tensor[n].wide

\* The gradient the engine starts from.
Seed(r) == [n \in Node |-> IF n = r THEN [v |-> 1, wide |-> tensor[r].wide] ELSE None]

\* What holds of a call when the nodes B have been applied.
Kept(r, G, B) ==
    /\ \A n \in Under[r] \ (B \cup Leaf) : ~Released(n)
    /\ Waiting(r, G)
    /\ \A l \in Leaf \ B : Balance(r, l, G, B) /\ Reaching(r, l, G, B)

CallInv ==
    phase # "idle" =>
        /\ root \in 1..made \ Leaf /\ tensor[root].rg
        /\ visited \subseteq Under[root] /\ Queued \subseteq Under[root]
        /\ phase \in {"count", "order"} => at = 1 /\ gradMap = Seed(root)
        /\ phase = "apply" => \A n \in Node : gradMap[n] # None => n \in visited
        /\ sound => Kept(root, gradMap, Before(at))

DerivInv == TapeInv /\ CallInv /\ sound \in BOOLEAN /\ (phase = "idle" => sound)
-----------------------------------------------------------------------------
\* The equations of the recursive definitions.
TangentStep(d, l, n) ==
    LET t == tensor[n] IN
    IF n \in Leaf THEN (IF n = l THEN 1 ELSE 0)
    ELSE IF ~t.rg THEN 0
    ELSE CASE t.kind = "add" -> d[t.args[1]] + d[t.args[2]]
           [] t.kind = "mul" -> d[t.args[1]] * t.seen[2] + d[t.args[2]] * t.seen[1]
           [] t.kind = "sum" -> d[t.args[1]] * Numel(t.shapes[1])
           [] OTHER -> IF t.seen[1] >= t.seen[2] THEN d[t.args[1]] ELSE 0

FeedsStep(f, n) ==
    IF n \in Leaf THEN {n}
    ELSE LET t == tensor[n]
             used == IF ~t.rg THEN {} ELSE IF t.kind = "clamp" THEN {1} ELSE DOMAIN t.args
         IN  UNION { f[t.args[i]] : i \in used }

UnderStep(f, n) == {n} \cup UNION { IF c < n THEN f[c] ELSE {} : c \in Children(n) }

IsTangent(d, l) == d = [n \in 1..made |-> TangentStep(d, l, n)]
IsFeeds(f) == f = [n \in 1..made |-> FeedsStep(f, n)]
IsUnder(f) == f = [n \in Node |-> UnderStep(f, n)]

FeedsAll == CHOOSE f : IsFeeds(f)

LEMMA Recurrences ==
    /\ \A l : Tangent(l) = CHOOSE d : IsTangent(d, l)
    /\ \A r : Feeds(r) = FeedsAll[r]
    /\ Under = CHOOSE f : IsUnder(f)
<1>1. ASSUME NEW l PROVE Tangent(l) = CHOOSE d : IsTangent(d, l)
  BY DEF Tangent, IsTangent, TangentStep
<1>2. ASSUME NEW r PROVE Feeds(r) = FeedsAll[r]
  BY DEF Feeds, FeedsAll, IsFeeds, FeedsStep
<1>3. Under = CHOOSE f : IsUnder(f)
  BY DEF Under, IsUnder, UnderStep
<1> QED
  BY <1>1, <1>2, <1>3

\* An argument of an operation is an older node, the first one at least.
LEMMA ArgFacts ==
    ASSUME TypeInv, TapeInv, NEW n \in 1..made \ Leaf
    PROVE  LET t == tensor[n] IN
           /\ Operation(n) /\ n \in Nat /\ 1 \in Args(t.kind) /\ DOMAIN t.args = Args(t.kind)
           /\ t.kind \notin {"sum", "detach"} => 2 \in Args(t.kind)
           /\ Args(t.kind) \subseteq {1, 2}
           /\ \A i \in Args(t.kind) : /\ t.args[i] \in 1..(n - 1) /\ t.args[i] \in 1..made
                                      /\ t.seen[i] \in Int /\ t.shapes[i] \in BOOLEAN
<1> DEFINE t == tensor[n]
<1>1. Operation(n) /\ n \in Nat /\ made \in Nat /\ n <= made
  BY NodeFacts DEF TapeInv
<1>2. /\ 1 \in Args(t.kind) /\ (t.kind \notin {"sum", "detach"} => 2 \in Args(t.kind))
      /\ Args(t.kind) \subseteq {1, 2}
  BY DEF Args
<1>3. /\ t.args \in [Args(t.kind) -> 1..(n - 1)]
      /\ t.seen \in [Args(t.kind) -> Int] /\ t.shapes \in [Args(t.kind) -> BOOLEAN]
  BY <1>1 DEF Operation
<1>4. 1..(n - 1) \subseteq 1..made
  BY <1>1
<1> HIDE DEF t
<1>5. \A i \in Args(t.kind) : /\ t.args[i] \in 1..(n - 1) /\ t.args[i] \in 1..made
                              /\ t.seen[i] \in Int /\ t.shapes[i] \in BOOLEAN
  BY <1>3, <1>4
<1> QED
  BY <1>1, <1>2, <1>3, <1>5 DEF t

LEMMA TangentStepTyped ==
    ASSUME TypeInv, TapeInv, NEW l \in Leaf, NEW n \in 1..made, NEW d,
           \A k \in 1..(n - 1) : d[k] \in Int
    PROVE  TangentStep(d, l, n) \in Int
<1>1. CASE n \in Leaf \/ ~tensor[n].rg
  BY <1>1 DEF TangentStep
<1>2. CASE n \notin Leaf /\ tensor[n].rg
  <2> DEFINE t == tensor[n]
             a == d[t.args[1]]
             b == d[t.args[2]]
  <2>1. n \in 1..made \ Leaf /\ Width \in Int
    BY <1>2, NodeFacts
  <2>2. /\ t.args[1] \in 1..(n - 1) /\ t.seen[1] \in Int /\ t.shapes[1] \in BOOLEAN
        /\ t.kind \notin {"sum", "detach"} => t.args[2] \in 1..(n - 1) /\ t.seen[2] \in Int
    BY <2>1, ArgFacts
  <2>3. t.kind \in {"add", "mul", "sum", "clamp"}
    BY <1>2, <2>1, ArgFacts DEF Operation
  <2>4. a \in Int /\ (t.kind \notin {"sum", "detach"} => b \in Int)
    BY <2>2
  <2>5. TangentStep(d, l, n) = CASE t.kind = "add" -> a + b
                                 [] t.kind = "mul" -> a * t.seen[2] + b * t.seen[1]
                                 [] t.kind = "sum" -> a * Numel(t.shapes[1])
                                 [] OTHER -> IF t.seen[1] >= t.seen[2] THEN a ELSE 0
    BY <1>2 DEF TangentStep
  <2> HIDE DEF t, a, b
  <2>6. Numel(t.shapes[1]) \in Int
    BY <2>1 DEF Numel
  <2>7. \A x, y, z, w \in Int : x * y + z * w \in Int /\ x * y \in Int
    OBVIOUS
  <2>8. CASE t.kind = "add"
    BY <2>4, <2>5, <2>8
  <2>9. CASE t.kind = "mul"
    <3>1. t.seen[1] \in Int /\ t.seen[2] \in Int /\ a \in Int /\ b \in Int
      BY <2>2, <2>4, <2>9
    <3>2. TangentStep(d, l, n) = a * t.seen[2] + b * t.seen[1]
      BY <2>5, <2>9
    <3>3. a * t.seen[2] + b * t.seen[1] \in Int
      BY <2>7, <3>1, Zenon
    <3> QED
      BY <3>2, <3>3
  <2>10. CASE t.kind = "sum"
    <3>1. TangentStep(d, l, n) = a * Numel(t.shapes[1])
      BY <2>5, <2>10
    <3>2. a * Numel(t.shapes[1]) \in Int
      BY <2>4, <2>6, <2>7, Zenon
    <3> QED
      BY <3>1, <3>2
  <2>11. CASE t.kind = "clamp"
    BY <2>4, <2>5, <2>11
  <2> QED
    BY <2>3, <2>8, <2>9, <2>10, <2>11
<1> QED
  BY <1>1, <1>2

LEMMA TangentEquation ==
    ASSUME TypeInv, TapeInv, NEW l \in Leaf
    PROVE  \A n \in 1..made : /\ Tangent(l)[n] = TangentStep(Tangent(l), l, n)
                             /\ Tangent(l)[n] \in Int
<1> DEFINE F == [1..made -> Int]
           Step == [p \in F \X (1..made) |-> TangentStep(p[1], l, p[2])]
<1>1. made \in Nat /\ Width \in Int
  BY NodeFacts
<1>2. ASSUME NEW d \in F, NEW n \in 1..made PROVE TangentStep(d, l, n) \in Int
  <2>1. \A k \in 1..(n - 1) : d[k] \in Int
    BY <1>1
  <2> QED
    BY <2>1, TangentStepTyped
<1>3. ASSUME NEW d \in F, NEW e \in F, NEW n \in 1..made, \A k \in 1..(n - 1) : d[k] = e[k]
      PROVE  TangentStep(d, l, n) = TangentStep(e, l, n)
  <2>1. CASE n \in Leaf \/ ~tensor[n].rg
    BY <2>1 DEF TangentStep
  <2>2. CASE n \notin Leaf /\ tensor[n].rg
    <3>1. /\ d[tensor[n].args[1]] = e[tensor[n].args[1]]
          /\ tensor[n].kind \notin {"sum", "detach"} => d[tensor[n].args[2]] = e[tensor[n].args[2]]
      BY <1>3, <2>2, ArgFacts
    <3> QED
      BY <2>2, <3>1 DEF TangentStep
  <2> QED
    BY <2>1, <2>2
<1>4. Step \in [F \X (1..made) -> Int]
  BY <1>2
<1>5. \A d, e \in F, n \in 1..made : (\A k \in 1..(n - 1) : d[k] = e[k]) => Step[<< d, n >>] = Step[<< e, n >>]
  BY <1>3
<1>6. \A d \in F, n \in 1..made : Step[<< d, n >>] = TangentStep(d, l, n)
  OBVIOUS
<1> HIDE DEF Step
<1>7. LooksBack(Step, made, Int)
  BY <1>1, <1>4, <1>5 DEF LooksBack
<1>8. PICK d \in F : IsTangent(d, l)
  <2>1. PICK d \in [1..made -> Int] : Fixed(d, Step, made)
    BY <1>7, RecursionExists, Zenon
  <2> QED
    BY <1>6, <2>1 DEF IsTangent, Fixed
<1>9. IsTangent(Tangent(l), l)
  BY <1>8, Recurrences
<1>10. \A n \in 1..made : Tangent(l)[n] = TangentStep(Tangent(l), l, n)
  BY <1>9 DEF IsTangent
<1> DEFINE T == { n \in 1..made : Tangent(l)[n] \notin Int }
<1>11. T = {}
  <2> SUFFICES ASSUME T # {} PROVE FALSE
    OBVIOUS
  <2>0. T \subseteq Nat
    BY <1>1
  <2>1. PICK x \in T : \A y \in T : x <= y
    <3> HIDE DEF T
    <3> QED
      BY <2>0, OldestNode
  <2>2. \A k \in 1..(x - 1) : Tangent(l)[k] \in Int
    BY <1>1, <2>1
  <2> QED
    BY <1>10, <2>2, TangentStepTyped
<1> QED
  BY <1>10, <1>11

\* The derivative of an operation that is recorded.
LEMMA TangentOf ==
    ASSUME TypeInv, TapeInv, NEW l \in Leaf, NEW n \in 1..made \ Leaf, tensor[n].rg
    PROVE  LET t == tensor[n]
               D == Tangent(l)
           IN  /\ t.kind = "add" => D[n] = D[t.args[1]] + D[t.args[2]]
               /\ t.kind = "mul" => D[n] = D[t.args[1]] * t.seen[2] + D[t.args[2]] * t.seen[1]
               /\ t.kind = "sum" => D[n] = D[t.args[1]] * Numel(t.shapes[1])
               /\ t.kind = "clamp" => D[n] = IF t.seen[1] >= t.seen[2] THEN D[t.args[1]] ELSE 0
<1>1. Tangent(l)[n] = TangentStep(Tangent(l), l, n)
  BY TangentEquation
<1> DEFINE t == tensor[n]
           D == Tangent(l)
<1>2. D[n] = CASE t.kind = "add" -> D[t.args[1]] + D[t.args[2]]
               [] t.kind = "mul" -> D[t.args[1]] * t.seen[2] + D[t.args[2]] * t.seen[1]
               [] t.kind = "sum" -> D[t.args[1]] * Numel(t.shapes[1])
               [] OTHER -> IF t.seen[1] >= t.seen[2] THEN D[t.args[1]] ELSE 0
  BY <1>1 DEF TangentStep
<1> HIDE DEF t, D
<1> QED
  BY <1>2 DEF t, D

\* That of a parameter, and of a constant.
LEMMA TangentBase ==
    ASSUME TypeInv, TapeInv, NEW l \in Leaf, NEW n \in 1..made
    PROVE  /\ n \in Leaf => Tangent(l)[n] = IF n = l THEN 1 ELSE 0
           /\ n \notin Leaf /\ ~tensor[n].rg => Tangent(l)[n] = 0
<1>1. Tangent(l)[n] = TangentStep(Tangent(l), l, n)
  BY TangentEquation
<1> QED
  BY <1>1 DEF TangentStep

LEMMA FeedsEquation ==
    ASSUME TypeInv, TapeInv
    PROVE  \A n \in 1..made : Feeds(n) = FeedsStep(FeedsAll, n) /\ Feeds(n) \subseteq Leaf
<1> DEFINE F == [1..made -> SUBSET Leaf]
           Step == [p \in F \X (1..made) |-> FeedsStep(p[1], p[2])]
<1>1. made \in Nat
  BY NodeFacts
<1>2. ASSUME NEW f, NEW n \in 1..made, \A k \in 1..(n - 1) : f[k] \subseteq Leaf
      PROVE  FeedsStep(f, n) \subseteq Leaf
  <2>1. CASE n \in Leaf
    BY <2>1 DEF FeedsStep
  <2>2. CASE n \notin Leaf
    <3>1. \A i \in DOMAIN tensor[n].args : f[tensor[n].args[i]] \subseteq Leaf
      BY <1>2, <2>2, ArgFacts
    <3>2. 1 \in DOMAIN tensor[n].args
      BY <2>2, ArgFacts
    <3> QED
      BY <2>2, <3>1, <3>2 DEF FeedsStep
  <2> QED
    BY <2>1, <2>2
<1>3. ASSUME NEW f, NEW g, NEW n \in 1..made, \A k \in 1..(n - 1) : f[k] = g[k]
      PROVE  FeedsStep(f, n) = FeedsStep(g, n)
  <2>1. CASE n \in Leaf
    BY <2>1 DEF FeedsStep
  <2>2. CASE n \notin Leaf
    <3>1. \A i \in DOMAIN tensor[n].args : f[tensor[n].args[i]] = g[tensor[n].args[i]]
      BY <1>3, <2>2, ArgFacts
    <3>2. 1 \in DOMAIN tensor[n].args
      BY <2>2, ArgFacts
    <3> DEFINE used == IF ~tensor[n].rg THEN {} ELSE IF tensor[n].kind = "clamp" THEN {1} ELSE DOMAIN tensor[n].args
    <3>3. used \subseteq DOMAIN tensor[n].args
      BY <3>2
    <3>4. UNION { f[tensor[n].args[i]] : i \in used } = UNION { g[tensor[n].args[i]] : i \in used }
      <4> HIDE DEF used
      <4> QED
        BY <3>1, <3>3
    <3> QED
      BY <2>2, <3>4 DEF FeedsStep
  <2> QED
    BY <2>1, <2>2
<1>4. Step \in [F \X (1..made) -> SUBSET Leaf]
  <2>1. \A f \in F, n \in 1..made : FeedsStep(f, n) \in SUBSET Leaf
    <3> TAKE f \in F, n \in 1..made
    <3>1. \A k \in 1..(n - 1) : f[k] \subseteq Leaf
      BY <1>1
    <3> QED
      BY <1>2, <3>1
  <2> QED
    BY <2>1
<1>6. \A f \in F, n \in 1..made : Step[<< f, n >>] = FeedsStep(f, n)
  OBVIOUS
<1> HIDE DEF Step
<1>5. ASSUME NEW f \in F, NEW g \in F, NEW n \in 1..made, \A k \in 1..(n - 1) : f[k] = g[k]
      PROVE  Step[<< f, n >>] = Step[<< g, n >>]
  <2>1. FeedsStep(f, n) = FeedsStep(g, n)
    BY <1>3, <1>5
  <2> QED
    BY <1>6, <2>1
<1>7. LooksBack(Step, made, SUBSET Leaf)
  BY <1>1, <1>4, <1>5 DEF LooksBack
<1>8. PICK f \in F : IsFeeds(f)
  <2>1. PICK f \in [1..made -> SUBSET Leaf] : Fixed(f, Step, made)
    BY <1>7, RecursionExists, Zenon
  <2> QED
    BY <1>6, <2>1 DEF IsFeeds, Fixed
<1>9. IsFeeds(FeedsAll)
  BY <1>8 DEF FeedsAll
<1>10. \A n \in 1..made : Feeds(n) = FeedsAll[n] /\ FeedsAll[n] = FeedsStep(FeedsAll, n)
  BY <1>9, Recurrences DEF IsFeeds
<1> DEFINE T == { n \in 1..made : ~(FeedsAll[n] \subseteq Leaf) }
<1>11. T = {}
  <2> SUFFICES ASSUME T # {} PROVE FALSE
    OBVIOUS
  <2>0. T \subseteq Nat
    BY <1>1
  <2>1. PICK x \in T : \A y \in T : x <= y
    <3> HIDE DEF T
    <3> QED
      BY <2>0, OldestNode
  <2>2. \A k \in 1..(x - 1) : FeedsAll[k] \subseteq Leaf
    BY <1>1, <2>1
  <2> QED
    BY <1>2, <1>10, <2>2
<1> QED
  BY <1>10, <1>11

\* The parameters that feed an operation: those that feed the arguments it
\* passes a gradient to.
LEMMA FeedsOf ==
    ASSUME TypeInv, TapeInv, NEW n \in 1..made
    PROVE  LET t == tensor[n] IN
           /\ n \in Leaf => Feeds(n) = {n}
           /\ n \notin Leaf /\ ~t.rg => Feeds(n) = {}
           /\ n \notin Leaf /\ t.rg /\ t.kind \in {"sum", "clamp"} => Feeds(n) = Feeds(t.args[1])
           /\ n \notin Leaf /\ t.rg /\ t.kind \in {"add", "mul"} => Feeds(n) = Feeds(t.args[1]) \cup Feeds(t.args[2])
<1> DEFINE t == tensor[n]
           used == IF ~t.rg THEN {} ELSE IF t.kind = "clamp" THEN {1} ELSE DOMAIN t.args
<1>1. Feeds(n) = FeedsStep(FeedsAll, n)
  BY FeedsEquation
<1>2. CASE n \in Leaf
  BY <1>1, <1>2 DEF FeedsStep
<1>3. CASE n \notin Leaf
  <2>1. Feeds(n) = UNION { Feeds(t.args[i]) : i \in used }
    BY <1>1, <1>3, Recurrences DEF FeedsStep
  <2>2. DOMAIN t.args = Args(t.kind)
    BY <1>3, ArgFacts
  <2>3. ~t.rg => used = {}
    OBVIOUS
  <2>4. t.rg /\ t.kind \in {"sum", "clamp"} => used = {1}
    BY <2>2 DEF Args
  <2>5. t.rg /\ t.kind \in {"add", "mul"} => used = {1, 2}
    BY <2>2 DEF Args
  <2> HIDE DEF used, t
  <2> QED
    BY <1>3, <2>1, <2>3, <2>4, <2>5 DEF t
<1> QED
  BY <1>2, <1>3

\* The nodes under a node: itself, and those under its children.
LEMMA UnderEquation ==
    ASSUME Wired, NEW n \in Node
    PROVE  Under[n] = {n} \cup UNION { Under[c] : c \in Children(n) } /\ Under[n] \subseteq Node
<1> DEFINE F == [1..MaxNodes -> SUBSET Node]
           Step == [p \in F \X (1..MaxNodes) |-> UnderStep(p[1], p[2])]
<1>1. MaxNodes \in Nat /\ Node = 1..MaxNodes
  BY AutogradAssumption DEF Node
<1>2. ASSUME NEW f, NEW m \in Node, \A k \in 1..(m - 1) : f[k] \subseteq Node
      PROVE  UnderStep(f, m) \subseteq Node
  <2>1. \A c \in Children(m) : c \in 1..(m - 1)
    BY <1>1, WiredNode
  <2> QED
    BY <1>2, <2>1 DEF UnderStep
<1>3. ASSUME NEW f, NEW g, NEW m \in Node, \A k \in 1..(m - 1) : f[k] = g[k]
      PROVE  UnderStep(f, m) = UnderStep(g, m)
  <2>1. \A c \in Children(m) : c \in 1..(m - 1)
    BY <1>1, WiredNode
  <2>2. \A c \in Children(m) : f[c] = g[c]
    BY <1>3, <2>1
  <2> QED
    BY <2>2 DEF UnderStep
<1>4. Step \in [F \X (1..MaxNodes) -> SUBSET Node]
  <2>1. \A f \in F, m \in 1..MaxNodes : UnderStep(f, m) \in SUBSET Node
    <3> TAKE f \in F, m \in 1..MaxNodes
    <3>1. \A k \in 1..(m - 1) : f[k] \subseteq Node
      BY <1>1
    <3> QED
      BY <1>1, <1>2, <3>1
  <2> QED
    BY <2>1
<1>5. \A f \in F, m \in 1..MaxNodes : Step[<< f, m >>] = UnderStep(f, m)
  OBVIOUS
<1> HIDE DEF Step
<1>6. ASSUME NEW f \in F, NEW g \in F, NEW m \in 1..MaxNodes, \A k \in 1..(m - 1) : f[k] = g[k]
      PROVE  Step[<< f, m >>] = Step[<< g, m >>]
  <2>1. UnderStep(f, m) = UnderStep(g, m)
    BY <1>1, <1>3, <1>6
  <2> QED
    BY <1>5, <2>1
<1>7. LooksBack(Step, MaxNodes, SUBSET Node)
  BY <1>1, <1>4, <1>6 DEF LooksBack
<1>8. PICK f \in F : IsUnder(f)
  <2>1. PICK f \in [1..MaxNodes -> SUBSET Node] : Fixed(f, Step, MaxNodes)
    BY <1>7, RecursionExists, Zenon
  <2>2. \A m \in Node : f[m] = UnderStep(f, m)
    BY <1>1, <1>5, <2>1 DEF Fixed
  <2>3. f = [m \in Node |-> f[m]]
    BY <1>1, <2>1
  <2>4. [m \in Node |-> f[m]] = [m \in Node |-> UnderStep(f, m)]
    BY <2>2
  <2> QED
    BY <1>1, <2>1, <2>3, <2>4 DEF IsUnder
<1>9. IsUnder(Under)
  BY <1>8, Recurrences
<1>10. \A m \in Node : Under[m] = UnderStep(Under, m)
  BY <1>9 DEF IsUnder
<1> DEFINE T == { m \in Node : ~(Under[m] \subseteq Node) }
<1>11. T = {}
  <2> SUFFICES ASSUME T # {} PROVE FALSE
    OBVIOUS
  <2>0. T \subseteq Nat
    BY <1>1
  <2>1. PICK x \in T : \A y \in T : x <= y
    <3> HIDE DEF T
    <3> QED
      BY <2>0, OldestNode
  <2>2. \A k \in 1..(x - 1) : Under[k] \subseteq Node
    BY <1>1, <2>1
  <2> QED
    BY <1>2, <1>10, <2>2
<1>12. \A c \in Children(n) : c < n
  BY WiredNode
<1> QED
  BY <1>10, <1>11, <1>12 DEF UnderStep

\* What is under r has its children under r.
LEMMA UnderClosed ==
    ASSUME Wired, NEW r \in Node
    PROVE  /\ r \in Under[r] /\ Under[r] \subseteq Node
           /\ \A m \in Under[r] : Children(m) \subseteq Under[r] /\ m <= r
<1> DEFINE Good(x) == \A m \in Under[x] : Children(m) \subseteq Under[x] /\ m <= x
           T == { x \in Node : ~Good(x) }
<1>0. Node \subseteq Nat
  BY AutogradAssumption DEF Node
<1>1. T = {}
  <2> SUFFICES ASSUME T # {} PROVE FALSE
    OBVIOUS
  <2>0. T \subseteq Nat
    BY <1>0
  <2>1. PICK x \in T : \A y \in T : x <= y
    <3> HIDE DEF T
    <3> QED
      BY <2>0, OldestNode
  <2>2. Under[x] = {x} \cup UNION { Under[c] : c \in Children(x) }
    BY <2>1, UnderEquation
  <2>3. \A c \in Children(x) : c \in Node /\ c < x /\ c \in Under[c]
    BY <2>1, WiredNode, UnderEquation
  <2>4. \A c \in Children(x) : Good(c)
    <3>1. \A c \in Node : c < x => ~(x <= c)
      BY <1>0, <2>1
    <3> HIDE DEF Good
    <3> QED
      BY <2>1, <2>3, <3>1
  <2>5. ASSUME NEW m \in Under[x] PROVE Children(m) \subseteq Under[x] /\ m <= x
    <3>1. CASE m = x
      BY <1>0, <2>1, <2>2, <2>3, <3>1
    <3>2. CASE \E c \in Children(x) : m \in Under[c]
      <4>1. PICK c \in Children(x) : m \in Under[c]
        BY <3>2
      <4>2. Children(m) \subseteq Under[c] /\ m <= c
        BY <2>4, <4>1
      <4>3. m \in Node
        BY <2>3, <4>1, UnderEquation
      <4>4. m <= x
        <5>1. m \in Nat /\ c \in Nat /\ x \in Nat /\ c < x
          BY <1>0, <2>1, <2>3, <4>1, <4>3
        <5> QED
          BY <4>2, <5>1
      <4> QED
        BY <2>2, <4>1, <4>2, <4>4
    <3> QED
      BY <2>2, <3>1, <3>2
  <2> QED
    BY <2>1, <2>5
<1>2. Good(r)
  BY <1>1
<1> QED
  BY <1>2, UnderEquation

\* The edges of a recorded operation, to those arguments that require grad.
LEMMA EdgeFacts ==
    ASSUME TypeInv, TapeInv, NEW n \in 1..made \ Leaf, tensor[n].rg
    PROVE  LET t == tensor[n] IN
           /\ t.kind \in {"add", "mul", "sum", "clamp"}
           /\ DOMAIN edges[n] = Args(t.kind)
           /\ \A i \in Args(t.kind) : edges[n][i] = IF tensor[t.args[i]].rg THEN t.args[i] ELSE 0
<1> DEFINE t == tensor[n]
<1>1. /\ t.kind \in {"add", "mul", "sum", "clamp", "detach"} /\ t.kind # "detach"
      /\ edges[n] = [i \in Args(t.kind) |-> IF tensor[t.args[i]].rg THEN t.args[i] ELSE 0]
  BY ArgFacts DEF Operation
<1> HIDE DEF t
<1> QED
  BY <1>1 DEF t

\* A child is an argument that requires grad.
LEMMA ChildFacts ==
    ASSUME TypeInv, TapeInv, NEW n \in 1..made, NEW c \in Children(n)
    PROVE  /\ n \notin Leaf /\ tensor[n].rg /\ tensor[c].rg /\ c \in 1..made
           /\ \E i \in Args(tensor[n].kind) : c = tensor[n].args[i]
<1>1. n \notin Leaf
  BY DEF Children, TapeInv
<1>2. tensor[n].rg
  <2> SUFFICES ASSUME ~tensor[n].rg PROVE FALSE
    OBVIOUS
  <2>1. edges[n] = << >>
    BY <1>1, ArgFacts DEF Operation
  <2> QED
    BY <2>1 DEF Children
<1>3. PICK i \in DOMAIN edges[n] : edges[n][i] = c
  BY DEF Children
<1>4. i \in Args(tensor[n].kind) /\ c = IF tensor[tensor[n].args[i]].rg THEN tensor[n].args[i] ELSE 0
  BY <1>1, <1>2, <1>3, EdgeFacts
<1>5. c # 0
  BY DEF Children
<1>6. c = tensor[n].args[i] /\ tensor[c].rg
  BY <1>4, <1>5
<1> QED
  BY <1>1, <1>2, <1>4, <1>6, ArgFacts

LEMMA UnderRequires ==
    ASSUME Wired, TypeInv, TapeInv, NEW r \in 1..made, tensor[r].rg
    PROVE  \A n \in Under[r] : n \in 1..made /\ tensor[n].rg
<1> DEFINE Good(x) == \A m \in Under[x] : tensor[m].rg
           T == { x \in 1..made : tensor[x].rg /\ ~Good(x) }
<1>0. made \in Nat /\ 1..made \subseteq Node
  BY NodeFacts
<1>1. T = {}
  <2> SUFFICES ASSUME T # {} PROVE FALSE
    OBVIOUS
  <2>0. T \subseteq Nat
    BY <1>0
  <2>1. PICK x \in T : \A y \in T : x <= y
    <3> HIDE DEF T
    <3> QED
      BY <2>0, OldestNode
  <2>2. Under[x] = {x} \cup UNION { Under[c] : c \in Children(x) }
    BY <1>0, <2>1, UnderEquation
  <2>3. \A c \in Children(x) : c \in 1..made /\ tensor[c].rg /\ ~(x <= c)
    BY <1>0, <2>1, WiredNode, ChildFacts
  <2>4. \A c \in Children(x) : Good(c)
    <3> HIDE DEF Good
    <3> QED
      BY <2>1, <2>3
  <2> QED
    BY <2>1, <2>2, <2>4
<1>2. Good(r)
  BY <1>1
<1>3. \A n \in Under[r] : n \in Node /\ n <= r
  BY <1>0, UnderClosed
<1> QED
  BY <1>0, <1>2, <1>3 DEF Node
-----------------------------------------------------------------------------
\* One node's gradients.  Adding up over the elements an argument was repeated
\* for keeps what the gradient is worth.
LEMMA ReduceKeeps ==
    ASSUME Width \in Nat, NEW n, NEW h \in Grad, NEW i \in DOMAIN meta[n],
           meta[n][i] \in BOOLEAN, meta[n][i] => h.wide
    PROVE  /\ Reduce(n, h, i) \in Grad /\ Reduce(n, h, i).wide = meta[n][i]
           /\ Reduce(n, h, i).v * Numel(meta[n][i]) = h.v * Numel(h.wide)
<1>1. h.v \in Int /\ h.wide \in BOOLEAN /\ h # None
  BY AutogradAssumption DEF Grad
<1>2. CASE h.wide /\ ~meta[n][i]
  <2>1. Reduce(n, h, i) = [v |-> h.v * Width, wide |-> FALSE]
    BY <1>1, <1>2 DEF Reduce
  <2>2. h.v * Width \in Int
    <3>1. \A x, y \in Int : x * y \in Int
      OBVIOUS
    <3> QED
      BY <1>1, <3>1
  <2>3. (h.v * Width) * 1 = h.v * Width
    BY <2>2
  <2>4. Reduce(n, h, i).v = h.v * Width /\ Reduce(n, h, i).wide = FALSE
    BY <2>1
  <2>5. Reduce(n, h, i) \in Grad
    BY <2>1, <2>2 DEF Grad
  <2>6. meta[n][i] = FALSE /\ Numel(FALSE) = 1 /\ Numel(TRUE) = Width
    BY <1>2 DEF Numel
  <2> QED
    BY <1>1, <1>2, <2>3, <2>4, <2>5, <2>6
<1>3. CASE ~(h.wide /\ ~meta[n][i])
  <2>1. Reduce(n, h, i) = h
    BY <1>3 DEF Reduce
  <2>2. h.wide = meta[n][i]
    BY <1>1, <1>3
  <2> QED
    BY <2>1, <2>2
<1> QED
  BY <1>2, <1>3

\* What node n passes along edge i.
Out(n, g, i) == Reduce(n, Local(n, g, i), i)

\* What a node that was not released has at hand.
LEMMA BufferFacts ==
    ASSUME TypeInv, TapeInv, NEW n \in 1..made \ Leaf, tensor[n].rg, ~Released(n)
    PROVE  LET t == tensor[n] IN
           /\ DOMAIN meta[n] = Args(t.kind) /\ ~Throws(n)
           /\ \A i \in Args(t.kind) : /\ saved[n][i].v = t.seen[i] /\ saved[n][i].wide = t.shapes[i]
                                      /\ meta[n][i] = t.shapes[i]
           /\ t.kind = "sum" => t.wide = FALSE
           /\ t.kind # "sum" => t.wide = (t.shapes[1] \/ t.shapes[2])
<1> DEFINE t == tensor[n]
<1>1. /\ saved[n] = Copies(n) /\ meta[n] = t.shapes /\ t.wide = ResultWide(t.kind, t.shapes)
      /\ t.shapes \in [Args(t.kind) -> BOOLEAN] /\ t.kind # "detach"
  BY ArgFacts DEF Operation
<1>2. \A i \in Args(t.kind) : saved[n][i] = [v |-> t.seen[i], wide |-> t.shapes[i]]
  BY <1>1 DEF Copies
<1>3. t.kind # "sum" => Args(t.kind) = 1..2
  BY <1>1 DEF Args
<1>4. t.kind # "sum" => t.wide = (t.shapes[1] \/ t.shapes[2])
  <2> HIDE DEF t
  <2>1. t.kind # "sum" => DOMAIN t.shapes = {1, 2}
    BY <1>1, <1>3
  <2> QED
    BY <1>1, <2>1 DEF ResultWide, Any
<1>5. ~Throws(n)
  <2>1. 1 \in DOMAIN saved[n]
    BY <1>1, ArgFacts DEF Copies
  <2>2. saved[n] # << >>
    BY <2>1
  <2> QED
    BY <2>2 DEF Throws
<1>6. DOMAIN meta[n] = Args(t.kind) /\ \A i \in Args(t.kind) : meta[n][i] = t.shapes[i]
  BY <1>1
<1>7. t.kind = "sum" => t.wide = FALSE
  BY <1>1 DEF ResultWide
<1> HIDE DEF t
<1>8. ASSUME NEW i \in Args(t.kind) PROVE saved[n][i].v = t.seen[i] /\ saved[n][i].wide = t.shapes[i]
  <2>1. saved[n][i] = [v |-> t.seen[i], wide |-> t.shapes[i]]
    BY <1>2
  <2> QED
    BY <2>1
<1> QED
  BY <1>4, <1>5, <1>6, <1>7, <1>8 DEF t

\* What a node passes along an edge has the argument's shape, and is worth what
\* its gradient is, times what the operation multiplies that argument by.
LEMMA OutFacts ==
    ASSUME TypeInv, TapeInv, NEW n \in 1..made \ Leaf, tensor[n].rg, ~Released(n),
           NEW g \in Grad, g.wide = tensor[n].wide
    PROVE  LET t == tensor[n] IN
           /\ \A i \in Args(t.kind) : t.kind # "clamp" \/ i = 1 =>
                 Out(n, g, i) \in Grad /\ Out(n, g, i).wide = t.shapes[i]
           /\ t.kind = "clamp" => Out(n, g, 2) = None
           /\ t.kind = "add" => \A i \in {1, 2} :
                 Out(n, g, i).v * Numel(t.shapes[i]) = g.v * Numel(t.wide)
           /\ t.kind = "mul" => \A i \in {1, 2} :
                 Out(n, g, i).v * Numel(t.shapes[i]) = (g.v * t.seen[3 - i]) * Numel(t.wide)
           /\ t.kind = "sum" => Out(n, g, 1).v * Numel(t.shapes[1]) = g.v * Numel(t.shapes[1])
           /\ t.kind = "clamp" => Out(n, g, 1).v * Numel(t.shapes[1])
                                     = IF t.seen[1] >= t.seen[2] THEN g.v * Numel(t.wide) ELSE 0
<1> DEFINE t == tensor[n]
           h(i) == Local(n, g, i)
<1>1. /\ t.kind \in {"add", "mul", "sum", "clamp"} /\ DOMAIN meta[n] = Args(t.kind)
      /\ \A i \in Args(t.kind) : /\ saved[n][i].v = t.seen[i] /\ saved[n][i].wide = t.shapes[i]
                                 /\ meta[n][i] = t.shapes[i]
                                 /\ t.seen[i] \in Int /\ t.shapes[i] \in BOOLEAN
      /\ t.kind = "sum" => t.wide = FALSE
      /\ t.kind # "sum" => t.wide = (t.shapes[1] \/ t.shapes[2])
  <2>1. t.kind \in {"add", "mul", "sum", "clamp"}
    BY EdgeFacts
  <2>2. \A i \in Args(t.kind) : t.seen[i] \in Int /\ t.shapes[i] \in BOOLEAN
    BY ArgFacts
  <2>3. /\ DOMAIN meta[n] = Args(t.kind)
        /\ \A i \in Args(t.kind) : /\ saved[n][i].v = t.seen[i] /\ saved[n][i].wide = t.shapes[i]
                                   /\ meta[n][i] = t.shapes[i]
        /\ t.kind = "sum" => t.wide = FALSE
        /\ t.kind # "sum" => t.wide = (t.shapes[1] \/ t.shapes[2])
    BY BufferFacts
  <2> HIDE DEF t
  <2> QED
    BY <2>1, <2>2, <2>3
<1>2. /\ Width \in Nat /\ g.v \in Int /\ g.wide \in BOOLEAN /\ g = [v |-> g.v, wide |-> g.wide]
      /\ g.wide = t.wide /\ \A a, b \in Int : a * b \in Int
  BY NodeFacts DEF Grad
<1>3. ASSUME NEW i \in Args(t.kind), h(i) \in Grad, t.shapes[i] => h(i).wide
      PROVE  /\ Out(n, g, i) \in Grad /\ Out(n, g, i).wide = t.shapes[i]
             /\ Out(n, g, i).v * Numel(t.shapes[i]) = h(i).v * Numel(h(i).wide)
  <2>1. i \in DOMAIN meta[n] /\ meta[n][i] = t.shapes[i] /\ meta[n][i] \in BOOLEAN
    BY <1>1
  <2>2. /\ Reduce(n, h(i), i) \in Grad /\ Reduce(n, h(i), i).wide = meta[n][i]
        /\ Reduce(n, h(i), i).v * Numel(meta[n][i]) = h(i).v * Numel(h(i).wide)
    <3> HIDE DEF h, t
    <3> QED
      BY <1>2, <1>3, <2>1, ReduceKeeps
  <2> QED
    BY <2>1, <2>2 DEF Out
<1>4. CASE t.kind = "add"
  <2>1. \A i \in {1, 2} : h(i) = g /\ i \in Args(t.kind)
    BY <1>4 DEF Local, AddBackward, Args
  <2>2. \A i \in {1, 2} : t.shapes[i] => g.wide
    BY <1>1, <1>2, <1>4
  <2> HIDE DEF h, t
  <2>3. \A i \in {1, 2} : /\ Out(n, g, i) \in Grad /\ Out(n, g, i).wide = t.shapes[i]
                          /\ Out(n, g, i).v * Numel(t.shapes[i]) = g.v * Numel(t.wide)
    BY <1>2, <1>3, <2>1, <2>2
  <2>4. Args(t.kind) \subseteq {1, 2}
    BY DEF Args
  <2> QED
    BY <1>4, <2>3, <2>4 DEF t
<1>5. CASE t.kind = "mul"
  <2>1. \A i \in {1, 2} : h(i) = Times(g, saved[n][3 - i]) /\ i \in Args(t.kind) /\ 3 - i \in {1, 2}
    BY <1>5 DEF Local, MulBackward, Args
  <2> HIDE DEF h, t
  <2>2. \A i \in {1, 2} : /\ t.seen[3 - i] \in Int /\ t.shapes[i] \in BOOLEAN
                          /\ g.wide \/ t.shapes[3 - i] <=> g.wide
                          /\ t.shapes[i] => g.wide
    BY <1>1, <1>2, <1>5, <2>1
  <2>3. ASSUME NEW i \in {1, 2}
        PROVE  h(i) \in Grad /\ h(i).v = g.v * t.seen[3 - i] /\ h(i).wide = g.wide
    <3>1. 3 - i \in Args(t.kind)
      BY <2>1
    <3>2. h(i) = [v |-> g.v * t.seen[3 - i], wide |-> g.wide \/ t.shapes[3 - i]]
      BY <1>1, <2>1, <3>1 DEF Times
    <3>3. g.v * t.seen[3 - i] \in Int
      BY <1>2, <2>2
    <3>4. (g.wide \/ t.shapes[3 - i]) = g.wide
      BY <1>1, <1>2, <2>2, <3>1
    <3>5. h(i) = [v |-> g.v * t.seen[3 - i], wide |-> g.wide]
      BY <3>2, <3>4
    <3> QED
      BY <1>2, <3>3, <3>5 DEF Grad
  <2>4. \A i \in {1, 2} : /\ Out(n, g, i) \in Grad /\ Out(n, g, i).wide = t.shapes[i]
                          /\ Out(n, g, i).v * Numel(t.shapes[i]) = (g.v * t.seen[3 - i]) * Numel(t.wide)
    BY <1>2, <1>3, <2>1, <2>2, <2>3
  <2>5. Args(t.kind) \subseteq {1, 2}
    BY DEF Args
  <2> QED
    BY <1>5, <2>4, <2>5 DEF t
<1>6. CASE t.kind = "sum"
  <2>1. h(1) = SumBackward(n, g) /\ Args(t.kind) = {1}
    BY <1>6 DEF Local, Args
  <2> HIDE DEF h, t
  <2>2. h(1) = [v |-> g.v, wide |-> t.shapes[1]]
    <3>1. meta[n][1] = t.shapes[1] /\ (g.wide \/ t.shapes[1]) = t.shapes[1]
      BY <1>1, <1>2, <1>6, <2>1
    <3> QED
      BY <2>1, <3>1 DEF SumBackward
  <2>3. h(1) \in Grad /\ h(1).v = g.v /\ h(1).wide = t.shapes[1]
    BY <1>1, <1>2, <2>1, <2>2 DEF Grad
  <2>4. /\ Out(n, g, 1) \in Grad /\ Out(n, g, 1).wide = t.shapes[1]
        /\ Out(n, g, 1).v * Numel(t.shapes[1]) = g.v * Numel(t.shapes[1])
    BY <1>3, <2>1, <2>3
  <2> QED
    BY <1>6, <2>1, <2>4 DEF t
<1>7. CASE t.kind = "clamp"
  <2>1. h(2) = None /\ Args(t.kind) = {1, 2}
    BY <1>7 DEF Local, ClampBackward, Args
  <2>2. Out(n, g, 2) = None
    BY <2>1 DEF Out, Reduce
  <2>3. h(1) = IF saved[n][1].v >= saved[n][2].v THEN g ELSE [g EXCEPT !.v = 0]
    BY <1>7 DEF Local, ClampBackward
  <2> HIDE DEF h, t
  <2>4. h(1) = IF t.seen[1] >= t.seen[2] THEN g ELSE [v |-> 0, wide |-> g.wide]
    BY <1>1, <1>2, <2>1, <2>3
  <2>5. h(1) \in Grad /\ h(1).wide = g.wide /\ h(1).v = IF t.seen[1] >= t.seen[2] THEN g.v ELSE 0
    BY <1>2, <2>4 DEF Grad
  <2>6. t.shapes[1] => g.wide
    BY <1>1, <1>2, <1>7
  <2>7. /\ Out(n, g, 1) \in Grad /\ Out(n, g, 1).wide = t.shapes[1]
        /\ Out(n, g, 1).v * Numel(t.shapes[1]) = h(1).v * Numel(t.wide)
    BY <1>2, <1>3, <2>1, <2>5, <2>6
  <2>8. 0 * Numel(t.wide) = 0
    <3>1. Numel(t.wide) \in Int
      BY <1>2 DEF Numel
    <3> QED
      BY <3>1
  <2>9. Out(n, g, 1).v * Numel(t.shapes[1]) = IF t.seen[1] >= t.seen[2] THEN g.v * Numel(t.wide) ELSE 0
    BY <2>5, <2>7, <2>8
  <2> QED
    BY <1>7, <2>1, <2>2, <2>7, <2>9 DEF t
<1> QED
  BY <1>1, <1>4, <1>5, <1>6, <1>7
-----------------------------------------------------------------------------
(* What waits keeps its worth while one node passes its gradient on.        *)

Edge(n, i) == IF i \in DOMAIN edges[n] THEN edges[n][i] ELSE 0

\* Gradient o arrives at node e.
Receive(G, e, o) == [c \in Node |-> IF c = e /\ o # None THEN Plus(G[c], o) ELSE G[c]]

LEMMA PassedReceived ==
    ASSUME Wired, NEW n \in Node, NEW g
    PROVE  [c \in Node |-> IF c \in Children(n) THEN Passed(n, g, c) ELSE gradMap[c]]
             = Receive(Receive(gradMap, Edge(n, 1), Out(n, g, 1)), Edge(n, 2), Out(n, g, 2))
<1> DEFINE R(i, a, c) == IF c = Edge(n, i) /\ Out(n, g, i) # None THEN Plus(a, Out(n, g, i)) ELSE a
<1>0. \A c \in Node : c # 0
  BY AutogradAssumption DEF Node
<1>1. ASSUME NEW c \in Node, c \in Children(n) PROVE Passed(n, g, c) = R(2, R(1, gradMap[c], c), c)
  <2> DEFINE out(i) == IF edges[n][i] = c THEN Out(n, g, i) ELSE None
             into(a, i) == IF i \in DOMAIN edges[n] /\ out(i) # None THEN Plus(a, out(i)) ELSE a
  <2>1. Passed(n, g, c) = into(into(gradMap[c], 1), 2)
    BY DEF Passed, Out
  <2>2. ASSUME NEW i, NEW a PROVE into(a, i) = R(i, a, c)
    BY <1>0 DEF Edge
  <2> HIDE DEF into, R
  <2> QED
    BY <2>1, <2>2
<1>2. ASSUME NEW c \in Node, c \notin Children(n) PROVE gradMap[c] = R(2, R(1, gradMap[c], c), c)
  BY <1>0, <1>2 DEF Edge, Children
<1>3. Receive(Receive(gradMap, Edge(n, 1), Out(n, g, 1)), Edge(n, 2), Out(n, g, 2))
        = [c \in Node |-> R(2, R(1, gradMap[c], c), c)]
  BY DEF Receive
<1> HIDE DEF R
<1> QED
  BY <1>1, <1>2, <1>3

Worth(l, e, o) == IF e = 0 \/ o = None THEN 0 ELSE (o.v * Tangent(l)[e]) * Numel(tensor[e].wide)

LEMMA WorthTyped ==
    ASSUME TypeInv, TapeInv, NEW l \in Leaf, NEW e \in 1..made, NEW o \in Grad
    PROVE  (o.v * Tangent(l)[e]) * Numel(tensor[e].wide) \in Int
<1>1. \A x, y, z \in Int : (x * y) * z \in Int
  OBVIOUS
<1>2. o.v \in Int /\ Tangent(l)[e] \in Int /\ Numel(tensor[e].wide) \in Int
  BY NodeFacts, TangentEquation DEF Grad, Numel
<1> QED
  BY <1>1, <1>2

LEMMA WeightsTyped ==
    ASSUME Wired, TypeInv, TapeInv, NEW l \in Leaf, NEW r \in 1..made, tensor[r].rg,
           NEW G, Waiting(r, G), NEW B
    PROVE  Weights(l, G, B) \in [Node -> Int] /\ IsFiniteSet(Node)
<1>1. \A n \in Node : G[n] # None => n \in 1..made /\ G[n] \in Grad
  BY UnderRequires DEF Waiting
<1>2. \A n \in Node : G[n] # None => (G[n].v * Tangent(l)[n]) * Numel(tensor[n].wide) \in Int
  BY <1>1, WorthTyped
<1> QED
  BY <1>2, FiniteNodes DEF Weights

\* Nothing arrives, or a gradient at a node under r outside B that it fits.
Fits(r, B, e, o) == e = 0 \/ o = None \/ (e \in Under[r] \ B /\ o \in Grad /\ o.wide = tensor[e].wide)

\* A gradient that arrives adds its worth.
LEMMA ReceiveFacts ==
    ASSUME Wired, TypeInv, TapeInv, NEW r \in 1..made, tensor[r].rg,
           NEW G, Waiting(r, G), NEW B, NEW e, NEW o, Fits(r, B, e, o)
    PROVE  /\ Waiting(r, Receive(G, e, o))
           /\ \A m \in Node : Receive(G, e, o)[m] # None <=> G[m] # None \/ (m = e /\ o # None)
           /\ \A l \in Leaf : SumFunction(Weights(l, Receive(G, e, o), B))
                                 = SumFunction(Weights(l, G, B)) + Worth(l, e, o)
<1> DEFINE H == Receive(G, e, o)
<1>0. \A n \in Node : n # 0
  BY AutogradAssumption DEF Node
<1>1. CASE e = 0 \/ o = None
  <2>1. H = G
    BY <1>0, <1>1 DEF Receive, Waiting
  <2>2. \A l \in Leaf : Worth(l, e, o) = 0 /\ SumFunction(Weights(l, G, B)) \in Int
    BY <1>1, WeightsTyped, SumType DEF Worth
  <2> QED
    BY <1>0, <1>1, <2>1, <2>2
<1>2. CASE e # 0 /\ o # None
  <2>1. /\ e \in Under[r] \ B /\ e \in Node /\ e \in 1..made /\ o \in Grad /\ o.wide = tensor[e].wide
        /\ tensor[e].wide \in BOOLEAN
    <3>1. e \in Under[r] \ B /\ o \in Grad /\ o.wide = tensor[e].wide
      BY <1>2 DEF Fits
    <3>2. e \in 1..made /\ e \in Node
      BY <3>1, UnderRequires, NodeFacts
    <3> QED
      BY <3>1, <3>2, NodeFacts DEF Tensors
  <2>2. Plus(G[e], o) \in Grad /\ Plus(G[e], o).wide = tensor[e].wide
        /\ Plus(G[e], o).v = (IF G[e] = None THEN 0 ELSE G[e].v) + o.v /\ (G[e] # None => G[e].v \in Int)
        /\ o.v \in Int
    <3>1. o.v \in Int /\ (G[e] # None => G[e] \in Grad /\ G[e].v \in Int /\ G[e].wide = tensor[e].wide)
      BY <2>1 DEF Waiting, Grad
    <3>2. CASE G[e] = None
      BY <2>1, <3>1, <3>2 DEF Plus
    <3>3. CASE G[e] # None
      <4>1. Plus(G[e], o) = [v |-> G[e].v + o.v, wide |-> G[e].wide \/ o.wide]
        BY <3>3 DEF Plus
      <4>2. (G[e].wide \/ o.wide) = tensor[e].wide
        BY <2>1, <3>1, <3>3
      <4>3. G[e].v + o.v \in Int
        BY <3>1, <3>3
      <4>4. Plus(G[e], o) = [v |-> G[e].v + o.v, wide |-> tensor[e].wide]
        BY <4>1, <4>2
      <4> QED
        BY <2>1, <3>1, <3>3, <4>3, <4>4 DEF Grad
    <3> QED
      BY <3>2, <3>3
  <2>3. H = [G EXCEPT ![e] = Plus(G[e], o)] /\ G \in [Node -> Grad \cup {None}]
    BY <1>2, <2>1 DEF Receive, Waiting
  <2>4. None \notin Grad
    BY AutogradAssumption
  <2>5. Waiting(r, H)
    <3>1. H \in [Node -> Grad \cup {None}]
      BY <2>1, <2>2, <2>3
    <3>2. \A n \in Node : H[n] # None => n \in Under[r] /\ H[n].wide = tensor[n].wide
      BY <2>1, <2>2, <2>3 DEF Waiting
    <3> QED
      BY <3>1, <3>2 DEF Waiting
  <2>6. \A m \in Node : H[m] # None <=> G[m] # None \/ (m = e /\ o # None)
    BY <1>2, <2>1, <2>2, <2>3, <2>4
  <2>7. ASSUME NEW l \in Leaf
        PROVE  SumFunction(Weights(l, H, B)) = SumFunction(Weights(l, G, B)) + Worth(l, e, o)
    <3> DEFINE f == Weights(l, G, B)
               h == Weights(l, H, B)
    <3>1. f \in [Node -> Int] /\ h \in [Node -> Int] /\ IsFiniteSet(Node)
      BY <2>5, WeightsTyped
    <3>2. \A x \in Node : x # e => h[x] = f[x]
      BY <2>3 DEF Weights
    <3>3. h[e] = f[e] + Worth(l, e, o)
      <4> DEFINE D == Tangent(l)[e]
                 N == Numel(tensor[e].wide)
      <4>1. D \in Int /\ N \in Int
        BY <2>1, TangentEquation, NodeFacts DEF Numel
      <4>2. Worth(l, e, o) = (o.v * D) * N
        BY <1>2 DEF Worth
      <4>3. h[e] = (Plus(G[e], o).v * D) * N
        BY <2>1, <2>2, <2>3, <2>4 DEF Weights
      <4>4. f[e] = ((IF G[e] = None THEN 0 ELSE G[e].v) * D) * N
        <5>1. 0 * D = 0 /\ 0 * N = 0
          BY <4>1
        <5> QED
          BY <2>1, <5>1 DEF Weights
      <4>5. \A x, y, z, w \in Int : ((x + y) * z) * w = (x * z) * w + (y * z) * w
        OBVIOUS
      <4> DEFINE k == IF G[e] = None THEN 0 ELSE G[e].v
      <4>6. k \in Int
        BY <2>2
      <4> HIDE DEF k, D, N
      <4>7. ((k + o.v) * D) * N = (k * D) * N + (o.v * D) * N
        BY <2>2, <4>1, <4>5, <4>6
      <4> QED
        BY <2>2, <4>2, <4>3, <4>4, <4>7 DEF k
    <3>4. SumFunction(h) = SumFunction(f) - f[e] + h[e]
      <4>1. e \in Node
        BY <2>1
      <4> HIDE DEF f, h
      <4> QED
        BY <3>1, <3>2, <4>1, SumChange
    <3>5. SumFunction(f) \in Int /\ f[e] \in Int /\ Worth(l, e, o) \in Int
      <4>1. SumFunction(f) \in Int
        BY <3>1, SumType
      <4> QED
        BY <1>2, <2>1, <3>1, <4>1, WorthTyped DEF Worth
    <3> HIDE DEF f, h
    <3>6. SumFunction(h) = SumFunction(f) + Worth(l, e, o)
      BY <3>3, <3>4, <3>5
    <3> QED
      BY <3>6 DEF f, h
  <2> QED
    BY <2>5, <2>6, <2>7
<1> QED
  BY <1>1, <1>2

\* A node that is done takes its own worth away.
LEMMA DoneFacts ==
    ASSUME Wired, TypeInv, TapeInv, NEW r \in 1..made, tensor[r].rg,
           NEW G, Waiting(r, G), NEW B, NEW n \in Node \ B, G[n] # None, NEW l \in Leaf
    PROVE  SumFunction(Weights(l, G, B \cup {n})) = SumFunction(Weights(l, G, B)) - Worth(l, n, G[n])
<1> DEFINE f == Weights(l, G, B)
           h == Weights(l, G, B \cup {n})
<1>1. f \in [Node -> Int] /\ h \in [Node -> Int] /\ IsFiniteSet(Node)
  BY WeightsTyped
<1>2. \A x \in Node : x # n => h[x] = f[x]
  BY DEF Weights
<1>3. h[n] = 0 /\ f[n] = Worth(l, n, G[n])
  <2>1. n # 0
    BY AutogradAssumption DEF Node
  <2> QED
    BY <2>1 DEF Weights, Worth
<1>4. SumFunction(h) = SumFunction(f) - f[n] + h[n]
  <2> HIDE DEF f, h
  <2> QED
    BY <1>1, <1>2, SumChange
<1>5. SumFunction(f) \in Int /\ f[n] \in Int
  BY <1>1, SumType
<1> HIDE DEF f, h
<1>6. SumFunction(h) = SumFunction(f) - Worth(l, n, G[n])
  BY <1>3, <1>4, <1>5
<1> QED
  BY <1>6 DEF f, h

\* What is passed along an edge fits the child it leads to.
LEMMA EdgeOut ==
    ASSUME Wired, TypeInv, TapeInv, NEW n \in 1..made \ Leaf, tensor[n].rg, ~Released(n),
           NEW g \in Grad, g.wide = tensor[n].wide, NEW i \in {1, 2}
    PROVE  \/ Edge(n, i) = 0 \/ Out(n, g, i) = None
           \/ Edge(n, i) \in Children(n) /\ Out(n, g, i) \in Grad /\ Out(n, g, i).wide = tensor[Edge(n, i)].wide
<1> DEFINE t == tensor[n]
<1>1. SUFFICES ASSUME Edge(n, i) # 0, Out(n, g, i) # None
      PROVE  Edge(n, i) \in Children(n) /\ Out(n, g, i) \in Grad /\ Out(n, g, i).wide = tensor[Edge(n, i)].wide
  OBVIOUS
<1>2. i \in DOMAIN edges[n] /\ Edge(n, i) = edges[n][i]
  BY <1>1 DEF Edge
<1>3. i \in Args(t.kind) /\ edges[n][i] = t.args[i]
  BY <1>1, <1>2, EdgeFacts
<1>4. t.shapes[i] = tensor[t.args[i]].wide
  BY <1>3, ArgFacts DEF Operation
<1>5. t.kind # "clamp" \/ i = 1
  BY <1>1, OutFacts
<1>6. Out(n, g, i) \in Grad /\ Out(n, g, i).wide = t.shapes[i]
  BY <1>3, <1>5, OutFacts
<1> QED
  BY <1>1, <1>2, <1>3, <1>4, <1>6 DEF Children

\* What is passed along edge i is worth the same whether or not the argument
\* requires grad: nothing, if it does not.
LEMMA WorthOfEdge ==
    ASSUME Wired, TypeInv, TapeInv, NEW n \in 1..made \ Leaf, tensor[n].rg, NEW g, NEW l \in Leaf,
           NEW i \in Args(tensor[n].kind), Out(n, g, i) \in Grad
    PROVE  Worth(l, Edge(n, i), Out(n, g, i))
             = (Out(n, g, i).v * Tangent(l)[tensor[n].args[i]]) * Numel(tensor[n].shapes[i])
<1> DEFINE a == tensor[n].args[i]
           o == Out(n, g, i)
<1>1. /\ a \in 1..made /\ a # 0 /\ o # None /\ o.v \in Int
      /\ tensor[n].shapes[i] = tensor[a].wide
      /\ Edge(n, i) = IF tensor[a].rg THEN a ELSE 0
  <2>1. a \in 1..made /\ tensor[n].shapes[i] = tensor[a].wide
    BY ArgFacts DEF Operation
  <2>2. Edge(n, i) = IF tensor[a].rg THEN a ELSE 0
    BY EdgeFacts DEF Edge
  <2> QED
    BY <2>1, <2>2, AutogradAssumption, NodeFacts DEF Grad
<1> HIDE DEF a, o
<1>2. CASE tensor[a].rg
  BY <1>1, <1>2 DEF Worth, a, o
<1>3. CASE ~tensor[a].rg
  <2>1. Tangent(l)[a] = 0
    BY <1>1, <1>3, TangentBase DEF TapeInv
  <2>2. Numel(tensor[a].wide) \in Int
    BY NodeFacts DEF Numel
  <2>3. \A x, y \in Int : (x * 0) * y = 0
    OBVIOUS
  <2>4. (o.v * Tangent(l)[a]) * Numel(tensor[a].wide) = 0
    BY <1>1, <2>1, <2>2, <2>3
  <2>5. Worth(l, Edge(n, i), o) = 0
    BY <1>1, <1>3 DEF Worth
  <2> QED
    BY <1>1, <2>4, <2>5 DEF a, o
<1> QED
  BY <1>2, <1>3

\* The chain rule: a node's gradient is worth what it passes along its edges.
LEMMA ChainRule ==
    ASSUME Wired, TypeInv, TapeInv, NEW n \in 1..made \ Leaf, tensor[n].rg, ~Released(n),
           NEW g \in Grad, g.wide = tensor[n].wide, NEW l \in Leaf
    PROVE  /\ Worth(l, n, g) = Worth(l, Edge(n, 1), Out(n, g, 1)) + Worth(l, Edge(n, 2), Out(n, g, 2))
           /\ \A i \in {1, 2} : Worth(l, Edge(n, i), Out(n, g, i)) \in Int
<1> DEFINE t == tensor[n]
           D == Tangent(l)
           O(i) == Out(n, g, i)
           W(i) == Worth(l, Edge(n, i), O(i))
           a == D[t.args[1]]
           b == D[t.args[2]]
           A == Numel(t.shapes[1])
           B == Numel(t.shapes[2])
           N == Numel(t.wide)
<1>1. t.kind \in {"add", "mul", "sum", "clamp"} /\ DOMAIN edges[n] = Args(t.kind)
  BY EdgeFacts
<1>2. g.v \in Int /\ N \in Int /\ A \in Int /\ B \in Int
  BY NodeFacts DEF Grad, Numel
<1>3. Worth(l, n, g) = (g.v * D[n]) * N
  <2>1. n # 0 /\ g # None
    BY AutogradAssumption, NodeFacts
  <2> QED
    BY <2>1 DEF Worth
<1>4. a \in Int /\ t.seen[1] \in Int
  BY ArgFacts, TangentEquation
<1>5. t.kind # "sum" => b \in Int /\ t.seen[2] \in Int
  BY <1>1, ArgFacts, TangentEquation
<1>6. 1 \in Args(t.kind) /\ (t.kind # "sum" => 2 \in Args(t.kind))
  BY <1>1 DEF Args
<1>7. O(1) \in Grad /\ O(1).v \in Int /\ W(1) = (O(1).v * a) * A
  <2>1. O(1) \in Grad
    BY <1>6, OutFacts
  <2> QED
    BY <1>6, <2>1, WorthOfEdge DEF Grad
<1>8. t.kind \in {"add", "mul"} => O(2) \in Grad /\ O(2).v \in Int /\ W(2) = (O(2).v * b) * B
  <2> SUFFICES ASSUME t.kind \in {"add", "mul"} PROVE O(2) \in Grad /\ O(2).v \in Int /\ W(2) = (O(2).v * b) * B
    OBVIOUS
  <2>1. O(2) \in Grad
    BY <1>6, OutFacts
  <2> QED
    BY <1>6, <2>1, WorthOfEdge DEF Grad
<1>9. t.kind \in {"sum", "clamp"} => W(2) = 0
  <2>1. t.kind = "sum" => Edge(n, 2) = 0
    BY <1>1 DEF Edge, Args
  <2>2. t.kind = "clamp" => O(2) = None
    BY OutFacts
  <2> QED
    BY <2>1, <2>2 DEF Worth
<1>10. /\ t.kind = "add" => O(1).v * A = g.v * N /\ O(2).v * B = g.v * N
       /\ t.kind = "mul" => O(1).v * A = (g.v * t.seen[2]) * N /\ O(2).v * B = (g.v * t.seen[1]) * N
       /\ t.kind = "sum" => O(1).v * A = g.v * A /\ N = 1
       /\ t.kind = "clamp" => O(1).v * A = IF t.seen[1] >= t.seen[2] THEN g.v * N ELSE 0
  <2>1. 3 - 1 = 2 /\ 3 - 2 = 1
    OBVIOUS
  <2>2. t.kind = "sum" => N = 1
    BY BufferFacts DEF Numel
  <2> QED
    BY <2>1, <2>2, OutFacts
<1>11. /\ t.kind = "add" => D[n] = a + b
       /\ t.kind = "mul" => D[n] = a * t.seen[2] + b * t.seen[1]
       /\ t.kind = "sum" => D[n] = a * A
       /\ t.kind = "clamp" => D[n] = IF t.seen[1] >= t.seen[2] THEN a ELSE 0
  BY TangentOf
<1>12. \A x, y, z \in Int : (x * y) * z = (x * z) * y /\ (x * y) * z \in Int
  OBVIOUS
<1>13. W(1) = (O(1).v * A) * a /\ W(1) \in Int
       /\ (t.kind \in {"add", "mul"} => W(2) = (O(2).v * B) * b /\ W(2) \in Int)
  <2> HIDE DEF t, O, W, a, b, A, B
  <2> QED
    BY <1>1, <1>2, <1>4, <1>5, <1>7, <1>8, <1>12
<1>14. (g.v * D[n]) * N = W(1) + W(2) /\ W(1) \in Int /\ W(2) \in Int
  <2> DEFINE s1 == t.seen[1]
             s2 == t.seen[2]
             x == g.v
  <2> HIDE DEF t, O, W, a, b, A, B, N, s1, s2, x, D
  <2>1. CASE t.kind = "add"
    <3>1. \A p, u, v, q \in Int : (p * (u + v)) * q = (p * q) * u + (p * q) * v
      OBVIOUS
    <3>2. (x * (a + b)) * N = (x * N) * a + (x * N) * b
      BY <1>2, <1>4, <1>5, <2>1, <3>1 DEF x
    <3> QED
      BY <1>10, <1>11, <1>13, <2>1, <3>2 DEF x
  <2>2. CASE t.kind = "mul"
    <3>2. (x * (a * s2 + b * s1)) * N = ((x * s2) * N) * a + ((x * s1) * N) * b
      <4>1. x \in Int /\ a \in Int /\ b \in Int /\ s1 \in Int /\ s2 \in Int /\ N \in Int
        BY <1>2, <1>4, <1>5, <2>2 DEF x, s1, s2
      <4> QED
        BY <4>1
    <3> QED
      BY <1>10, <1>11, <1>13, <2>2, <3>2 DEF x, s1, s2
  <2>3. CASE t.kind = "sum"
    <3>1. \A p, u, q \in Int : (p * (u * q)) * 1 = (p * q) * u
      OBVIOUS
    <3>2. (x * (a * A)) * 1 = (x * A) * a
      BY <1>2, <1>4, <3>1 DEF x
    <3> QED
      BY <1>9, <1>10, <1>11, <1>13, <2>3, <3>2 DEF x
  <2>4. CASE t.kind = "clamp" /\ s1 >= s2
    <3>1. (x * a) * N = (x * N) * a
      BY <1>2, <1>4, <1>12 DEF x
    <3> QED
      BY <1>9, <1>10, <1>11, <1>13, <2>4, <3>1 DEF x, s1, s2
  <2>5. CASE t.kind = "clamp" /\ ~(s1 >= s2)
    <3>1. (x * 0) * N = 0 /\ 0 * a = 0
      BY <1>2, <1>4 DEF x
    <3> QED
      BY <1>9, <1>10, <1>11, <1>13, <2>5, <3>1 DEF x, s1, s2
  <2> QED
    BY <1>1, <2>1, <2>2, <2>3, <2>4, <2>5
<1>15. \A i \in {1, 2} : W(i) \in Int
  BY <1>14
<1> QED
  BY <1>3, <1>14, <1>15

\* A leaf feeds a node when it feeds a child that gets a gradient from it.
LEMMA FeedsThrough ==
    ASSUME Wired, TypeInv, TapeInv, NEW n \in 1..made \ Leaf, tensor[n].rg, ~Released(n),
           NEW g \in Grad, g.wide = tensor[n].wide, NEW l \in Leaf
    PROVE  l \in Feeds(n) <=> \E i \in {1, 2} : Edge(n, i) # 0 /\ Out(n, g, i) # None /\ l \in Feeds(Edge(n, i))
<1> DEFINE t == tensor[n]
           Through(i) == Edge(n, i) # 0 /\ Out(n, g, i) # None /\ l \in Feeds(Edge(n, i))
<1>1. t.kind \in {"add", "mul", "sum", "clamp"} /\ DOMAIN edges[n] = Args(t.kind)
  BY EdgeFacts
<1>2. None \notin Grad
  BY AutogradAssumption
<1>3. ASSUME NEW i \in Args(t.kind), t.kind # "clamp" \/ i = 1
      PROVE  Through(i) <=> l \in Feeds(t.args[i])
  <2>1. Out(n, g, i) # None
    BY <1>2, <1>3, OutFacts
  <2>2. Edge(n, i) = IF tensor[t.args[i]].rg THEN t.args[i] ELSE 0
    BY EdgeFacts DEF Edge
  <2>3. t.args[i] \in 1..made /\ t.args[i] # 0
    BY ArgFacts, NodeFacts
  <2>4. ~tensor[t.args[i]].rg => Feeds(t.args[i]) = {}
    BY <2>3, FeedsOf DEF TapeInv
  <2> HIDE DEF t
  <2> QED
    BY <2>1, <2>2, <2>3, <2>4
<1>4. t.kind = "sum" => Edge(n, 2) = 0
  BY <1>1 DEF Edge, Args
<1>5. t.kind = "clamp" => Out(n, g, 2) = None
  BY OutFacts
<1>6. 1 \in Args(t.kind) /\ (t.kind # "sum" => 2 \in Args(t.kind))
  BY <1>1 DEF Args
<1>7. Through(1) <=> l \in Feeds(t.args[1])
  BY <1>3, <1>6
<1>8. t.kind \in {"add", "mul"} => (Through(2) <=> l \in Feeds(t.args[2]))
  BY <1>3, <1>6
<1>9. t.kind \in {"sum", "clamp"} => ~Through(2)
  BY <1>4, <1>5
<1>10. /\ t.kind \in {"sum", "clamp"} => Feeds(n) = Feeds(t.args[1])
       /\ t.kind \in {"add", "mul"} => Feeds(n) = Feeds(t.args[1]) \cup Feeds(t.args[2])
  BY FeedsOf
<1> HIDE DEF t, Through
<1>11. l \in Feeds(n) <=> Through(1) \/ Through(2)
  BY <1>1, <1>7, <1>8, <1>9, <1>10
<1> QED
  BY <1>11 DEF Through

\* Node n passes its gradient on: what waits keeps its worth, and reaches the
\* same leaves.
LEMMA KeptApplied ==
    ASSUME Wired, TypeInv, TapeInv, NEW r \in 1..made, tensor[r].rg,
           NEW G, NEW B, Kept(r, G, B),
           NEW n \in Node \ (B \cup Leaf), G[n] # None, Children(n) \cap B = {}
    PROVE  LET H == Receive(Receive(G, Edge(n, 1), Out(n, G[n], 1)), Edge(n, 2), Out(n, G[n], 2)) IN
           /\ ~Throws(n) /\ Waiting(r, H)
           /\ \A m \in Node : H[m] # None => G[m] # None \/ m \in Children(n)
           /\ \A l \in Leaf \ B : Balance(r, l, H, B \cup {n}) /\ Reaching(r, l, H, B \cup {n})
<1> DEFINE g == G[n]
           C == B \cup {n}
           e(i) == Edge(n, i)
           o(i) == Out(n, g, i)
           F == Receive(G, e(1), o(1))
           H == Receive(F, e(2), o(2))
<1>1. /\ Waiting(r, G) /\ n \in Under[r] /\ n \in 1..made \ Leaf /\ tensor[n].rg /\ ~Released(n)
      /\ g \in Grad /\ g.wide = tensor[n].wide
  <2>1. Waiting(r, G) /\ n \in Under[r] /\ g \in Grad /\ g.wide = tensor[n].wide
    BY DEF Kept, Waiting
  <2>2. n \in 1..made /\ tensor[n].rg
    BY <2>1, UnderRequires
  <2> QED
    BY <2>1, <2>2 DEF Kept
<1>2. \A c \in Children(n) : c \in Under[r] \ C /\ c \in Node
  <2>1. \A c \in Children(n) : c \in Node /\ c < n
    BY WiredNode
  <2>2. \A c \in Children(n) : c # n
    BY <2>1, NodeFacts
  <2>3. r \in Node
    BY NodeFacts
  <2>4. Children(n) \subseteq Under[r]
    BY <1>1, <2>3, UnderClosed
  <2> QED
    BY <2>1, <2>2, <2>4
<1>3. \A i \in {1, 2} : /\ e(i) = 0 \/ o(i) = None
                           \/ (e(i) \in Under[r] \ C /\ o(i) \in Grad /\ o(i).wide = tensor[e(i)].wide)
                        /\ e(i) # 0 /\ o(i) # None => e(i) \in Children(n)
  <2> TAKE i \in {1, 2}
  <2>1. \/ e(i) = 0 \/ o(i) = None
        \/ e(i) \in Children(n) /\ o(i) \in Grad /\ o(i).wide = tensor[e(i)].wide
    BY <1>1, EdgeOut
  <2> HIDE DEF e, o, C
  <2> QED
    BY <1>2, <2>1
<1>4. /\ Waiting(r, F)
      /\ \A m \in Node : F[m] # None <=> G[m] # None \/ (m = e(1) /\ o(1) # None)
      /\ \A l \in Leaf : SumFunction(Weights(l, F, C)) = SumFunction(Weights(l, G, C)) + Worth(l, e(1), o(1))
  <2>1. Fits(r, C, e(1), o(1))
    BY <1>3 DEF Fits
  <2>2. Waiting(r, G)
    BY <1>1
  <2> HIDE DEF e, o, C
  <2> QED
    BY <2>1, <2>2, ReceiveFacts
<1>5. /\ Waiting(r, H)
      /\ \A m \in Node : H[m] # None <=> F[m] # None \/ (m = e(2) /\ o(2) # None)
      /\ \A l \in Leaf : SumFunction(Weights(l, H, C)) = SumFunction(Weights(l, F, C)) + Worth(l, e(2), o(2))
  <2>1. Fits(r, C, e(2), o(2))
    BY <1>3 DEF Fits
  <2> HIDE DEF e, o, C, F
  <2> QED
    BY <1>4, <2>1, ReceiveFacts
<1>6. ~Throws(n)
  BY <1>1, BufferFacts
<1>7. \A m \in Node : H[m] # None <=> \/ G[m] # None
                                      \/ \E i \in {1, 2} : m = e(i) /\ e(i) # 0 /\ o(i) # None
  <2>1. \A m \in Node : m # 0
    BY NodeFacts, AutogradAssumption DEF Node
  <2> HIDE DEF e, o, F, H
  <2> QED
    BY <1>4, <1>5, <2>1
<1>8. \A m \in Node : H[m] # None => G[m] # None \/ m \in Children(n)
  <2> HIDE DEF e, o, H
  <2> QED
    BY <1>3, <1>7
<1>9. ASSUME NEW l \in Leaf \ B PROVE Balance(r, l, H, C)
  <2>1. SumFunction(Weights(l, G, C)) = SumFunction(Weights(l, G, B)) - Worth(l, n, g)
    BY <1>1, DoneFacts
  <2>2. /\ Worth(l, n, g) = Worth(l, e(1), o(1)) + Worth(l, e(2), o(2))
        /\ Worth(l, e(1), o(1)) \in Int /\ Worth(l, e(2), o(2)) \in Int
    BY <1>1, ChainRule
  <2>3. SumFunction(Weights(l, G, B)) \in Int
    BY <1>1, WeightsTyped, SumType
  <2>4. SumFunction(Weights(l, G, B)) = Tangent(l)[r] * Numel(tensor[r].wide)
    BY DEF Kept, Balance
  <2> HIDE DEF e, o, g, F, H, C
  <2>5. SumFunction(Weights(l, H, C)) = SumFunction(Weights(l, G, B))
    BY <1>4, <1>5, <2>1, <2>2, <2>3
  <2> QED
    BY <2>4, <2>5 DEF Balance
<1>10. ASSUME NEW l \in Leaf \ B PROVE Reaching(r, l, H, C)
  <2>1. l \in Feeds(r) <=> \E m \in Node \ B : G[m] # None /\ l \in Feeds(m)
    BY DEF Kept, Reaching
  <2>2. l \in Feeds(n) <=> \E i \in {1, 2} : e(i) # 0 /\ o(i) # None /\ l \in Feeds(e(i))
    BY <1>1, FeedsThrough
  <2>3. ASSUME NEW i \in {1, 2}, e(i) # 0, o(i) # None PROVE e(i) \in Node \ C
    BY <1>2, <1>3, <2>3
  <2>4. C = B \cup {n} /\ n \in Node \ B /\ G[n] # None
    OBVIOUS
  <2> HIDE DEF e, o, g, H, C, F
  <2>5. ASSUME NEW m \in Node \ B, G[m] # None, l \in Feeds(m)
        PROVE  \E k \in Node \ C : H[k] # None /\ l \in Feeds(k)
    <3>1. CASE m = n
      <4>1. PICK i \in {1, 2} : e(i) # 0 /\ o(i) # None /\ l \in Feeds(e(i))
        BY <2>2, <2>5, <3>1
      <4>2. e(i) \in Node \ C
        BY <2>3, <4>1
      <4>3. H[e(i)] # None
        BY <1>7, <4>1, <4>2
      <4> QED
        BY <4>1, <4>2, <4>3
    <3>2. CASE m # n
      BY <1>7, <2>4, <2>5, <3>2
    <3> QED
      BY <3>1, <3>2
  <2>6. ASSUME NEW k \in Node \ C, H[k] # None, l \in Feeds(k)
        PROVE  \E m \in Node \ B : G[m] # None /\ l \in Feeds(m)
    <3>1. CASE G[k] # None
      BY <2>4, <2>6, <3>1
    <3>2. CASE \E i \in {1, 2} : k = e(i) /\ e(i) # 0 /\ o(i) # None
      <4>1. l \in Feeds(n)
        BY <2>2, <2>6, <3>2
      <4> QED
        BY <2>4, <4>1
    <3> QED
      BY <1>7, <2>6, <3>1, <3>2
  <2>7. l \in Feeds(r) <=> \E k \in Node \ C : H[k] # None /\ l \in Feeds(k)
    BY <2>1, <2>5, <2>6
  <2> QED
    BY <2>7 DEF Reaching
<1> QED
  BY <1>5, <1>6, <1>8, <1>9, <1>10

\* A node at which nothing waits may be left out.
LEMMA KeptSkipped ==
    ASSUME NEW r, NEW G, NEW B, Kept(r, G, B), NEW n \in Node \ B, G[n] = None
    PROVE  Kept(r, G, B \cup {n})
<1>1. ASSUME NEW l \in Leaf \ (B \cup {n}) PROVE Balance(r, l, G, B \cup {n}) /\ Reaching(r, l, G, B \cup {n})
  <2>1. Weights(l, G, B \cup {n}) = Weights(l, G, B)
    BY DEF Weights
  <2>2. Balance(r, l, G, B) /\ Reaching(r, l, G, B)
    BY DEF Kept
  <2> QED
    BY <2>1, <2>2 DEF Balance, Reaching
<1> QED
  BY <1>1 DEF Kept

\* So may a leaf, as far as the other leaves are concerned.
LEMMA KeptAccumulated ==
    ASSUME TypeInv, TapeInv, NEW r, NEW G, NEW B, Kept(r, G, B), NEW n \in Leaf \ B
    PROVE  Kept(r, G, B \cup {n})
<1>0. n \in 1..made /\ n \in Node /\ G \in [Node -> Grad \cup {None}]
  BY NodeFacts DEF Kept, Waiting
<1>1. ASSUME NEW l \in Leaf \ (B \cup {n}) PROVE Balance(r, l, G, B \cup {n}) /\ Reaching(r, l, G, B \cup {n})
  <2>1. Tangent(l)[n] = 0 /\ l \notin Feeds(n)
    BY <1>0, TangentBase, FeedsOf
  <2>2. G[n] # None => (G[n].v * Tangent(l)[n]) * Numel(tensor[n].wide) = 0
    <3> SUFFICES ASSUME G[n] # None PROVE (G[n].v * Tangent(l)[n]) * Numel(tensor[n].wide) = 0
      OBVIOUS
    <3>1. G[n].v \in Int /\ Numel(tensor[n].wide) \in Int
      BY <1>0, NodeFacts DEF Grad, Numel
    <3>2. \A x, y \in Int : (x * 0) * y = 0
      OBVIOUS
    <3> QED
      BY <2>1, <3>1, <3>2
  <2>3. Weights(l, G, B \cup {n}) = Weights(l, G, B)
    BY <2>2 DEF Weights
  <2>4. Balance(r, l, G, B) /\ Reaching(r, l, G, B)
    BY DEF Kept
  <2> QED
    BY <2>1, <2>3, <2>4 DEF Balance, Reaching
<1> QED
  BY <1>1 DEF Kept
-----------------------------------------------------------------------------
(* When the engine comes to a leaf, nothing else that waits depends on it.  *)

LEMMA Visits ==
    ASSUME OrderInv, TypeInv, DerivInv, phase = "apply"
    PROVE  /\ root \in 1..made \ Leaf /\ tensor[root].rg
           /\ \A n \in visited : n \in 1..made /\ n \in Node /\ tensor[n].rg /\ Children(n) \subseteq visited
           /\ order \in Seq(Node) /\ at \in 1..Len(order) + 1
           /\ Placed \subseteq visited /\ visited \subseteq Placed
<1>1. phase # "idle" /\ visited \subseteq Under[root] /\ root \in 1..made \ Leaf /\ tensor[root].rg
  BY DEF DerivInv, CallInv
<1>2. \A n \in visited : n \in 1..made /\ tensor[n].rg
  BY <1>1, UnderRequires DEF OrderInv, DerivInv
<1> QED
  BY <1>1, <1>2, NodeFacts DEF OrderInv, InOrder, EngineTypeOK, TypeInv, GradsOK, Placed

\* The place the engine has reached.
LEMMA Reached ==
    ASSUME OrderInv, TypeInv, DerivInv, phase = "apply", NEW n \in Node, Applying(n)
    PROVE  /\ n \in visited \ Before(at) /\ Before(at + 1) = Before(at) \cup {n} /\ at \in Nat
           /\ \A c \in Children(n) : c \notin Before(at)
           /\ \A m \in visited \ Before(at) : n \notin Children(m)
<1>1. /\ order \in Seq(Node) /\ at \in DOMAIN order /\ n = order[at] /\ DOMAIN order = 1..Len(order)
      /\ Len(order) \in Nat /\ at \in Nat
  BY Visits DEF Applying
<1>2. n \in Placed
  BY <1>1 DEF Placed, Before
<1>3. n \notin Before(at) /\ \A m \in visited : n \in Children(m) => m \in Before(at)
  BY <1>1 DEF OrderInv, InOrder
<1>4. Before(at + 1) = Before(at) \cup {n}
  <2>1. 1..(at + 1) - 1 = (1..at - 1) \cup {at}
    BY <1>1
  <2> QED
    BY <1>1, <2>1 DEF Before
<1>5. ASSUME NEW c \in Children(n), c \in Before(at) PROVE FALSE
  <2>1. PICK j \in 1..at - 1 : c = order[j]
    BY <1>5 DEF Before
  <2>2. j \in DOMAIN order /\ j <= at
    BY <1>1, <2>1
  <2>3. n \in Before(j)
    BY <1>2, <2>1, <2>2, Visits DEF OrderInv, InOrder
  <2>4. Before(j) \subseteq Before(at)
    <3>1. 1..j - 1 \subseteq 1..at - 1
      BY <1>1, <2>1, <2>2
    <3> QED
      BY <3>1 DEF Before
  <2> QED
    BY <1>3, <2>3, <2>4
<1> QED
  BY <1>1, <1>2, <1>3, <1>4, <1>5, Visits

\* A node that is still to come, with a child that is placed, would have been
\* placed before it.
LEMMA ChildrenToCome ==
    ASSUME OrderInv, TypeInv, DerivInv, phase = "apply", NEW m \in visited \ Before(at), NEW c \in Children(m)
    PROVE  c \in visited \ Before(at)
<1>1. c \in visited /\ at \in Nat /\ order \in Seq(Node) /\ at <= Len(order) + 1 /\ Len(order) \in Nat
  BY Visits
<1>2. ASSUME c \in Before(at) PROVE FALSE
  <2>1. PICK j \in 1..at - 1 : c = order[j]
    BY <1>2 DEF Before
  <2>2. j \in DOMAIN order /\ j <= at
    BY <1>1, <2>1
  <2>3. m \in Before(j)
    BY <2>1, <2>2 DEF OrderInv, InOrder
  <2>4. Before(j) \subseteq Before(at)
    <3>1. 1..j - 1 \subseteq 1..at - 1
      BY <1>1, <2>1, <2>2
    <3> QED
      BY <3>1 DEF Before
  <2> QED
    BY <2>3, <2>4
<1> QED
  BY <1>1, <1>2

LEMMA QuietElsewhere ==
    ASSUME OrderInv, TypeInv, DerivInv, phase = "apply", NEW l \in Leaf, Applying(l)
    PROVE  \A m \in visited \ Before(at) : m # l => Tangent(l)[m] = 0 /\ l \notin Feeds(m)
<1> DEFINE Quiet(m) == Tangent(l)[m] = 0 /\ l \notin Feeds(m)
           T == { m \in visited \ Before(at) : m # l /\ ~Quiet(m) }
<1>0. l \in Node /\ TapeInv /\ Wired /\ 1..made \subseteq Nat
  BY NodeFacts DEF DerivInv, OrderInv
<1>1. SUFFICES ASSUME T # {} PROVE FALSE
  OBVIOUS
<1>2. T \subseteq Nat
  BY <1>0, Visits
<1>3. PICK x \in T : \A y \in T : x <= y
  <2> HIDE DEF T
  <2> QED
    BY <1>1, <1>2, OldestNode
<1>4. x \in visited \ Before(at) /\ x # l /\ ~Quiet(x) /\ x \in 1..made /\ x \in Node /\ tensor[x].rg
  BY <1>3, Visits
<1>5. x \notin Leaf
  <2> SUFFICES ASSUME x \in Leaf PROVE FALSE
    OBVIOUS
  <2>1. Tangent(l)[x] = 0 /\ Feeds(x) = {x}
    BY <1>0, <1>4, TangentBase, FeedsOf
  <2> QED
    BY <1>4, <2>1
<1>6. ASSUME NEW i \in Args(tensor[x].kind) PROVE Quiet(tensor[x].args[i])
  <2> DEFINE a == tensor[x].args[i]
  <2>1. a \in 1..made /\ a # 0
    BY <1>0, <1>4, <1>5, ArgFacts, AutogradAssumption, NodeFacts
  <2>2. CASE ~tensor[a].rg
    BY <1>0, <2>1, <2>2, TangentBase, FeedsOf DEF TapeInv
  <2>3. CASE tensor[a].rg
    <3>1. edges[x][i] = a /\ i \in DOMAIN edges[x]
      BY <1>0, <1>4, <1>5, <2>3, EdgeFacts
    <3>2. a \in Children(x)
      BY <2>1, <3>1 DEF Children
    <3>3. a \in visited \ Before(at) /\ a < x
      BY <1>0, <1>4, <3>2, ChildrenToCome, WiredNode
    <3>4. a # l
      BY <1>0, <1>4, <3>2, Reached
    <3>5. ~(x <= a)
      <4>1. a \in Nat /\ x \in Nat
        BY <1>0, <1>4, <2>1
      <4> HIDE DEF a, T
      <4> QED
        BY <3>3, <4>1
    <3> HIDE DEF Quiet, a
    <3>6. a \notin T
      <4> HIDE DEF T
      <4> QED
        BY <1>3, <3>5
    <3>7. Quiet(a)
      BY <3>3, <3>4, <3>6
    <3> QED
      BY <3>7 DEF a
  <2> QED
    BY <2>2, <2>3
<1>7. Quiet(x)
  <2> DEFINE t == tensor[x]
             D == Tangent(l)
  <2>1. t.kind \in {"add", "mul", "sum", "clamp"} /\ 1 \in Args(t.kind) /\ (t.kind \in {"add", "mul"} => 2 \in Args(t.kind))
    BY <1>0, <1>4, <1>5, EdgeFacts, ArgFacts
  <2>2. D[t.args[1]] = 0 /\ l \notin Feeds(t.args[1])
    BY <1>6, <2>1
  <2>3. t.kind \in {"add", "mul"} => D[t.args[2]] = 0 /\ l \notin Feeds(t.args[2])
    BY <1>6, <2>1
  <2>4. l \notin Feeds(x)
    BY <1>0, <1>4, <1>5, <2>1, <2>2, <2>3, FeedsOf
  <2>5. /\ t.kind = "add" => D[x] = D[t.args[1]] + D[t.args[2]]
        /\ t.kind = "mul" => D[x] = D[t.args[1]] * t.seen[2] + D[t.args[2]] * t.seen[1]
        /\ t.kind = "sum" => D[x] = D[t.args[1]] * Numel(t.shapes[1])
        /\ t.kind = "clamp" => D[x] = IF t.seen[1] >= t.seen[2] THEN D[t.args[1]] ELSE 0
    BY <1>0, <1>4, <1>5, TangentOf
  <2>6. t.seen[1] \in Int /\ (t.kind = "mul" => t.seen[2] \in Int) /\ Numel(t.shapes[1]) \in Int
    BY <1>0, <1>4, <1>5, <2>1, ArgFacts, NodeFacts DEF Numel
  <2>7. \A y \in Int : 0 * y = 0
    OBVIOUS
  <2> HIDE DEF t, D
  <2>8. D[x] = 0
    BY <2>1, <2>2, <2>3, <2>5, <2>6, <2>7
  <2> QED
    BY <2>4, <2>8 DEF D
<1> QED
  BY <1>4, <1>7

\* The gradient the engine has gathered for a leaf is the one it owes it.
LEMMA GatheredIsOwed ==
    ASSUME OrderInv, TypeInv, DerivInv, phase = "apply", sound,
           NEW l \in Leaf, Applying(l), gradMap[l] # None
    PROVE  Owed(l) = gradMap[l]
<1> DEFINE B == Before(at)
           D == Tangent(l)
           w == Weights(l, gradMap, B)
           zero == [n \in Node |-> 0]
           N == Numel(tensor[l].wide)
           g == gradMap[l]
<1>1. /\ l \in Node /\ l \in 1..made /\ TapeInv /\ Wired /\ l \notin B
      /\ Kept(root, gradMap, B) /\ root \in 1..made /\ tensor[root].rg
      /\ \A n \in Node : gradMap[n] # None => n \in visited
  BY NodeFacts, Reached, Visits DEF DerivInv, CallInv, OrderInv
<1>2. /\ Waiting(root, gradMap) /\ Balance(root, l, gradMap, B) /\ Reaching(root, l, gradMap, B)
      /\ g \in Grad /\ g.v \in Int /\ g.wide = tensor[l].wide /\ g = [v |-> g.v, wide |-> g.wide]
  BY <1>1 DEF Kept, Waiting, Grad
<1>3. w \in [Node -> Int] /\ zero \in [Node -> Int] /\ IsFiniteSet(Node)
  BY <1>1, <1>2, WeightsTyped
<1>4. N \in Nat \ {0}
  BY <1>1, NodeFacts DEF Numel
<1>5. ASSUME NEW n \in Node, n # l PROVE w[n] = zero[n]
  <2>1. CASE n \in B \/ gradMap[n] = None
    BY <2>1 DEF Weights
  <2>2. CASE n \notin B /\ gradMap[n] # None
    <3>1. n \in visited \ B
      BY <1>1, <2>2
    <3>2. D[n] = 0
      BY <1>5, <3>1, QuietElsewhere
    <3>3. gradMap[n].v \in Int /\ Numel(tensor[n].wide) \in Int
      BY <1>2, <2>2, NodeFacts DEF Waiting, Grad, Numel
    <3>4. \A x, y \in Int : (x * 0) * y = 0
      OBVIOUS
    <3> QED
      BY <2>2, <3>2, <3>3, <3>4 DEF Weights
  <2> QED
    BY <2>1, <2>2
<1>6. w[l] = g.v * N
  <2>1. D[l] = 1
    BY <1>1, TangentBase
  <2>2. w[l] = (g.v * D[l]) * N
    BY <1>1 DEF Weights
  <2>3. g.v * 1 = g.v
    BY <1>2
  <2> QED
    BY <2>1, <2>2, <2>3
<1>7. SumFunction(w) = g.v * N
  <2>1. SumFunction(zero) = 0
    BY <1>3, SumZero
  <2>2. SumFunction(w) = SumFunction(zero) - zero[l] + w[l]
    <3>1. l \in Node /\ \A x \in Node : x # l => w[x] = zero[x]
      BY <1>1, <1>5
    <3> HIDE DEF w, zero
    <3> QED
      BY <1>3, <3>1, SumChange
  <2>3. zero[l] = 0 /\ w[l] \in Int
    BY <1>1, <1>3
  <2> HIDE DEF w, zero
  <2> QED
    BY <1>6, <2>1, <2>2, <2>3
<1>8. D[root] * Numel(tensor[root].wide) = g.v * N
  BY <1>2, <1>7 DEF Balance
<1>9. (g.v * N) \div N = g.v
  BY <1>2, <1>4
<1>10. l \in Feeds(root)
  <2>1. Feeds(l) = {l}
    BY <1>1, FeedsOf
  <2> QED
    BY <1>1, <1>2, <2>1 DEF Reaching
<1>11. Owed(l) = [v |-> (D[root] * Numel(tensor[root].wide)) \div N, wide |-> tensor[l].wide]
  BY <1>1, <1>10 DEF Owed
<1> QED
  BY <1>2, <1>8, <1>9, <1>11

\* A leaf for which nothing was gathered is owed nothing, and when all are
\* placed nothing is.
LEMMA NothingGathered ==
    ASSUME OrderInv, TypeInv, DerivInv, phase = "apply", NEW l \in Leaf, Applying(l), gradMap[l] = None
    PROVE  Owed(l) = None
<1>1. SUFFICES ASSUME sound, l \in Feeds(root) PROVE FALSE
  BY DEF Owed
<1>2. l \in Node /\ l \notin Before(at) /\ Kept(root, gradMap, Before(at))
      /\ \A n \in Node : gradMap[n] # None => n \in visited
  BY <1>1, NodeFacts, Reached DEF DerivInv, CallInv
<1>3. PICK n \in Node \ Before(at) : gradMap[n] # None /\ l \in Feeds(n)
  BY <1>1, <1>2 DEF Kept, Reaching
<1>4. n \in visited \ Before(at) /\ n # l
  BY <1>2, <1>3
<1> QED
  BY <1>3, <1>4, QuietElsewhere

LEMMA NothingLeft ==
    ASSUME OrderInv, TypeInv, DerivInv, phase = "apply", at = Len(order) + 1, NEW l \in Leaf
    PROVE  Owed(l) = None
<1>1. SUFFICES ASSUME sound, l \in Feeds(root), l \notin Before(at) PROVE FALSE
  BY DEF Owed
<1>2. Kept(root, gradMap, Before(at)) /\ \A n \in Node : gradMap[n] # None => n \in visited
  BY <1>1 DEF DerivInv, CallInv
<1>3. PICK n \in Node \ Before(at) : gradMap[n] # None
  BY <1>1, <1>2 DEF Kept, Reaching
<1> QED
  BY <1>2, <1>3, Visits DEF Placed

\* What is owed is a gradient.
LEMMA OwedTyped ==
    ASSUME OrderInv, TypeInv, DerivInv, NEW l \in Leaf
    PROVE  Owed(l) \in Grad \cup {None} /\ (phase = "idle" \/ ~sound => Owed(l) = None)
<1>1. CASE Owed(l) = None
  BY <1>1
<1>2. CASE Owed(l) # None
  <2>1. /\ phase # "idle" /\ sound
        /\ Owed(l) = [v |-> (Tangent(l)[root] * Numel(tensor[root].wide)) \div Numel(tensor[l].wide),
                      wide |-> tensor[l].wide]
    BY <1>2 DEF Owed
  <2>2. root \in 1..made /\ l \in 1..made /\ TapeInv
    BY <2>1, NodeFacts DEF DerivInv, CallInv
  <2>3. Tangent(l)[root] \in Int /\ Numel(tensor[root].wide) \in Int /\ Numel(tensor[l].wide) \in Nat \ {0}
    BY <2>2, TangentEquation, NodeFacts DEF Numel
  <2>4. \A x, y \in Int, z \in Nat \ {0} : (x * y) \div z \in Int
    OBVIOUS
  <2>5. (Tangent(l)[root] * Numel(tensor[root].wide)) \div Numel(tensor[l].wide) \in Int
    BY <2>3, <2>4
  <2>6. tensor[l].wide \in BOOLEAN
    BY <2>2, NodeFacts DEF Tensors
  <2> QED
    BY <2>1, <2>5, <2>6 DEF Grad
<1> QED
  BY <1>1, <1>2 DEF Owed
-----------------------------------------------------------------------------
(* The tape holds what the operations recorded.                             *)

LEMMA TapeForward ==
    ASSUME Wired, TypeInv, TapeInv, NEW kind \in Kinds, NEW args \in ArgLists(kind), Forward(kind, args)
    PROVE  TapeInv'
<1>0. PICK n : n = made + 1
  OBVIOUS
<1> DEFINE v == [i \in DOMAIN args |-> tensor[args[i]].val]
           w == [i \in DOMAIN args |-> tensor[args[i]].wide]
           rec == Recorded(kind, args)
           next == [i \in DOMAIN args |-> IF tensor[args[i]].rg THEN args[i] ELSE 0]
           copies == [i \in DOMAIN args |-> Snapshot(args[i])]
           new == [kind |-> kind, args |-> args, val |-> ResultValue(kind, v, w),
                   wide |-> ResultWide(kind, w), rg |-> rec, seen |-> v, shapes |-> w]
<1>1. /\ made \in Nat /\ n \in Node /\ n \notin Leaf /\ n \notin 1..made /\ made' = n
      /\ tensor' = [tensor EXCEPT ![n] = new]
      /\ edges' = [edges EXCEPT ![n] = IF rec THEN next ELSE << >>]
      /\ saved' = [saved EXCEPT ![n] = IF rec THEN copies ELSE << >>]
      /\ meta' = [meta EXCEPT ![n] = IF rec THEN w ELSE << >>]
      /\ tensor = [m \in Node |-> tensor[m]] /\ edges = [m \in Node |-> edges[m]]
      /\ saved = [m \in Node |-> saved[m]] /\ meta = [m \in Node |-> meta[m]]
      /\ Leaf \subseteq 1..made /\ 1..made \subseteq Node
  BY <1>0, NodeFacts DEF Forward, TypeInv, TapeOK, Wired, Leaf
<1>2. kind \in {"add", "mul", "sum", "clamp", "detach"}
  BY AutogradAssumption
<1>3. args \in [Args(kind) -> 1..made]
  <2>0. made \in 1..made
    BY AutogradAssumption, NodeFacts
  <2>1. CASE kind \in {"sum", "detach"}
    <3>1. args \in [1..1 -> 1..made]
      <4>1. CASE kind = "sum"
        BY <4>1 DEF ArgLists
      <4>2. CASE kind = "detach"
        <5>1. args \in [1..1 -> {made} \ Leaf]
          BY <4>2 DEF ArgLists
        <5>2. {made} \ Leaf \subseteq 1..made
          BY <2>0
        <5> QED
          BY <5>1, <5>2
      <4> QED
        BY <2>1, <4>1, <4>2
    <3> QED
      BY <2>1, <3>1 DEF Args
  <2>2. CASE kind \notin {"sum", "detach"}
    <3>1. args \in [1..2 -> 1..made]
      BY <1>2, <2>2 DEF ArgLists
    <3> QED
      BY <2>2, <3>1 DEF Args
  <2> QED
    BY <2>1, <2>2
<1>4. /\ DOMAIN args = Args(kind)
      /\ \A i \in Args(kind) : /\ args[i] \in 1..made /\ args[i] # n
                               /\ tensor[args[i]].val \in Int /\ tensor[args[i]].wide \in BOOLEAN
  <2>1. DOMAIN args = Args(kind) /\ \A i \in Args(kind) : args[i] \in 1..made
    BY <1>3
  <2>2. \A m \in 1..made : m # n /\ tensor[m].val \in Int /\ tensor[m].wide \in BOOLEAN
    BY <1>1, NodeFacts DEF Tensors
  <2> QED
    BY <2>1, <2>2
<1>5. v \in [Args(kind) -> Int] /\ w \in [Args(kind) -> BOOLEAN] /\ \A i \in Args(kind) : w[i] = tensor[args[i]].wide
  BY <1>4
<1>6. /\ new.kind = kind /\ new.args = args /\ new.wide = ResultWide(kind, w) /\ new.rg = rec
      /\ new.seen = v /\ new.shapes = w
  OBVIOUS
<1>7. copies = [i \in Args(kind) |-> [v |-> v[i], wide |-> w[i]]]
  BY <1>4 DEF Snapshot
<1>8. next = [i \in Args(kind) |-> IF tensor[args[i]].rg THEN args[i] ELSE 0]
  BY <1>4
<1>9. rec => kind # "detach"
  BY DEF Recorded
<1> HIDE DEF v, w, rec, next, copies, new
<1>10. /\ tensor'[n] = new /\ edges'[n] = (IF rec THEN next ELSE << >>)
       /\ saved'[n] = (IF rec THEN copies ELSE << >>) /\ meta'[n] = (IF rec THEN w ELSE << >>)
       /\ \A m \in 1..made : /\ tensor'[m] = tensor[m] /\ edges'[m] = edges[m]
                             /\ saved'[m] = saved[m] /\ meta'[m] = meta[m]
  BY <1>1
<1>11. Operation(n)'
  <2>0. /\ tensor'[n].kind = kind /\ tensor'[n].args = args /\ tensor'[n].wide = ResultWide(kind, w)
        /\ tensor'[n].rg = rec /\ tensor'[n].seen = v /\ tensor'[n].shapes = w
    BY <1>6, <1>10
  <2>1. args \in [Args(kind) -> 1..(n - 1)]
    BY <1>0, <1>1, <1>3
  <2>2. \A i \in Args(kind) : tensor'[args[i]] = tensor[args[i]]
    BY <1>4, <1>10
  <2>3. rec => edges'[n] = [i \in Args(kind) |-> IF tensor'[args[i]].rg THEN args[i] ELSE 0]
    BY <1>8, <1>10, <2>2
  <2>a. Copies(n)' = [i \in Args(kind) |-> [v |-> v[i], wide |-> w[i]]]
    BY <2>0 DEF Copies
  <2>4. rec => saved'[n] = Copies(n)' /\ meta'[n] = w
    BY <1>7, <1>10, <2>a
  <2>5. /\ tensor'[n].kind \in {"add", "mul", "sum", "clamp", "detach"}
        /\ tensor'[n].args \in [Args(tensor'[n].kind) -> 1..(n - 1)]
        /\ tensor'[n].seen \in [Args(tensor'[n].kind) -> Int]
        /\ tensor'[n].shapes \in [Args(tensor'[n].kind) -> BOOLEAN]
        /\ \A i \in Args(tensor'[n].kind) : tensor'[n].shapes[i] = tensor'[tensor'[n].args[i]].wide
    BY <1>2, <1>5, <2>0, <2>1, <2>2
  <2>6. ~tensor'[n].rg => edges'[n] = << >>
    BY <1>10, <2>0
  <2>7. tensor'[n].rg =>
          /\ tensor'[n].kind # "detach"
          /\ tensor'[n].wide = ResultWide(tensor'[n].kind, tensor'[n].shapes)
          /\ edges'[n] = [i \in Args(tensor'[n].kind) |->
                             IF tensor'[tensor'[n].args[i]].rg THEN tensor'[n].args[i] ELSE 0]
          /\ saved'[n] = Copies(n)' /\ meta'[n] = tensor'[n].shapes
    BY <1>9, <2>0, <2>3, <2>4
  <2> QED
    BY <2>5, <2>6, <2>7 DEF Operation
<1>12. ASSUME NEW m \in 1..made \ Leaf PROVE Operation(m)'
  <2>1. Operation(m)
    BY DEF TapeInv
  <2>2. tensor'[m] = tensor[m] /\ edges'[m] = edges[m] /\ saved'[m] = saved[m] /\ meta'[m] = meta[m]
    BY <1>10
  <2>3. \A i \in Args(tensor[m].kind) : tensor'[tensor[m].args[i]] = tensor[tensor[m].args[i]]
    BY <1>10, ArgFacts
  <2>4. Released(m)' = Released(m) /\ Copies(m)' = Copies(m)
    BY <2>2 DEF Released, Copies
  <2> DEFINE t == tensor[m]
  <2>5. /\ t.kind \in {"add", "mul", "sum", "clamp", "detach"}
        /\ t.args \in [Args(t.kind) -> 1..(m - 1)]
        /\ t.seen \in [Args(t.kind) -> Int] /\ t.shapes \in [Args(t.kind) -> BOOLEAN]
        /\ \A i \in Args(t.kind) : t.shapes[i] = tensor[t.args[i]].wide
        /\ ~t.rg => edges[m] = << >>
    BY <2>1 DEF Operation
  <2>6. t.rg => /\ t.kind # "detach" /\ t.wide = ResultWide(t.kind, t.shapes)
                /\ edges[m] = [i \in Args(t.kind) |-> IF tensor[t.args[i]].rg THEN t.args[i] ELSE 0]
                /\ Released(m) \/ (saved[m] = Copies(m) /\ meta[m] = t.shapes)
    BY <2>1 DEF Operation
  <2>7. \A i \in Args(t.kind) : t.shapes[i] = tensor'[t.args[i]].wide
    BY <2>3, <2>5
  <2>8. [i \in Args(t.kind) |-> IF tensor'[t.args[i]].rg THEN t.args[i] ELSE 0]
          = [i \in Args(t.kind) |-> IF tensor[t.args[i]].rg THEN t.args[i] ELSE 0]
    BY <2>3
  <2>9. t.rg => /\ edges'[m] = [i \in Args(t.kind) |-> IF tensor'[t.args[i]].rg THEN t.args[i] ELSE 0]
                /\ Released(m)' \/ (saved'[m] = Copies(m)' /\ meta'[m] = t.shapes)
    BY <2>2, <2>4, <2>6, <2>8
  <2>10. tensor'[m] = t /\ edges'[m] = edges[m]
    BY <2>2
  <2> HIDE DEF t
  <2> QED
    BY <2>5, <2>6, <2>7, <2>9, <2>10 DEF Operation
<1>13. \A m \in 1..made' \ Leaf : m = n \/ m \in 1..made \ Leaf
  BY <1>0, <1>1
<1>14. \A l \in Leaf : tensor'[l].rg /\ edges'[l] = << >>
  BY <1>1, <1>10 DEF TapeInv
<1> QED
  BY <1>11, <1>12, <1>13, <1>14 DEF TapeInv

\* An operation stays recorded while its tensor, its edges and the shapes of
\* its arguments stay: its buffers may be released.
LEMMA OperationKept ==
    ASSUME TypeInv, TapeInv, NEW m \in 1..made \ Leaf,
           tensor'[m] = tensor[m], edges'[m] = edges[m],
           \A x \in 1..made : tensor'[x].wide = tensor[x].wide /\ tensor'[x].rg = tensor[x].rg,
           \/ saved'[m] = saved[m] /\ meta'[m] = meta[m]
           \/ saved'[m] = << >> /\ meta'[m] = << >>
    PROVE  Operation(m)'
<1>1. Operation(m)
  BY DEF TapeInv
<1>2. \A i \in Args(tensor[m].kind) : /\ tensor'[tensor[m].args[i]].wide = tensor[tensor[m].args[i]].wide
                                      /\ tensor'[tensor[m].args[i]].rg = tensor[tensor[m].args[i]].rg
  BY ArgFacts
<1>3. Copies(m)' = Copies(m)
  BY DEF Copies
<1>4. Released(m)' \/ (saved'[m] = saved[m] /\ meta'[m] = meta[m] /\ Released(m)' = Released(m))
  BY DEF Released
<1>5. [i \in Args(tensor[m].kind) |-> IF tensor'[tensor[m].args[i]].rg THEN tensor[m].args[i] ELSE 0]
        = [i \in Args(tensor[m].kind) |-> IF tensor[tensor[m].args[i]].rg THEN tensor[m].args[i] ELSE 0]
  BY <1>2
<1>6. \A i \in Args(tensor[m].kind) :
          tensor[m].shapes[i] = tensor[tensor[m].args[i]].wide
            => tensor[m].shapes[i] = tensor'[tensor[m].args[i]].wide
  BY <1>2
<1>7. /\ \A i \in Args(tensor[m].kind) : tensor[m].shapes[i] = tensor'[tensor[m].args[i]].wide
      /\ ~tensor[m].rg => edges[m] = << >>
  BY <1>1, <1>6 DEF Operation
<1>8. tensor[m].rg => edges[m] = [i \in Args(tensor[m].kind) |->
                                     IF tensor'[tensor[m].args[i]].rg THEN tensor[m].args[i] ELSE 0]
  BY <1>1, <1>5 DEF Operation
<1>9. tensor[m].rg => /\ tensor[m].kind # "detach"
                      /\ tensor[m].wide = ResultWide(tensor[m].kind, tensor[m].shapes)
                      /\ Released(m)' \/ (saved'[m] = Copies(m)' /\ meta'[m] = tensor[m].shapes)
  BY <1>1, <1>3, <1>4 DEF Operation
<1>10. /\ tensor[m].kind \in {"add", "mul", "sum", "clamp", "detach"}
       /\ tensor[m].args \in [Args(tensor[m].kind) -> 1..(m - 1)]
       /\ tensor[m].seen \in [Args(tensor[m].kind) -> Int]
       /\ tensor[m].shapes \in [Args(tensor[m].kind) -> BOOLEAN]
  BY <1>1 DEF Operation
<1> QED
  BY <1>7, <1>8, <1>9, <1>10 DEF Operation

LEMMA TapeInit == AInit => TapeInv
<1> SUFFICES ASSUME AInit PROVE TapeInv
  OBVIOUS
<1>1. made = NumLeaves /\ Leaf \subseteq Node
  BY AutogradAssumption DEF AInit, Leaf, Node
<1>2. 1..made \ Leaf = {}
  BY <1>1 DEF Leaf
<1>3. ASSUME NEW l \in Leaf PROVE tensor[l].rg /\ edges[l] = << >>
  <2>1. tensor[l] = Parameter(l) /\ edges[l] = << >>
    BY <1>1, <1>3 DEF AInit
  <2>2. Parameter(l).rg = TRUE
    BY DEF Parameter, NoTensor
  <2> QED
    BY <2>1, <2>2
<1> QED
  BY <1>2, <1>3 DEF TapeInv

LEMMA TapeStep == OrderInv /\ TypeInv /\ TapeInv /\ [ANext]_avars => TapeInv'
<1> SUFFICES ASSUME OrderInv, TypeInv, TapeInv, [ANext]_avars PROVE TapeInv'
  OBVIOUS
<1>0. Wired /\ Leaf \subseteq 1..made /\ 1..made \subseteq Node /\ tensor \in [Node -> Tensors]
      /\ saved = [m \in Node |-> saved[m]] /\ meta = [m \in Node |-> meta[m]]
  BY NodeFacts DEF OrderInv, TypeInv, TapeOK
<1>1. ASSUME UNCHANGED << made, edges >>,
             \A m \in Node \ Leaf : tensor'[m] = tensor[m],
             \A m \in Node : tensor'[m].wide = tensor[m].wide /\ tensor'[m].rg = tensor[m].rg,
             \A m \in Node : \/ saved'[m] = saved[m] /\ meta'[m] = meta[m]
                             \/ saved'[m] = << >> /\ meta'[m] = << >>
      PROVE  TapeInv'
  <2>1. ASSUME NEW m \in 1..made \ Leaf PROVE Operation(m)'
    <3>1. m \in Node \ Leaf /\ \A x \in 1..made : x \in Node
      BY <1>0
    <3> QED
      BY <1>1, <3>1, OperationKept
  <2>2. \A l \in Leaf : tensor'[l].rg /\ edges'[l] = << >>
    BY <1>0, <1>1 DEF TapeInv
  <2> QED
    BY <1>1, <2>1, <2>2 DEF TapeInv
<1>2. ASSUME NEW kind \in Kinds, NEW args \in ArgLists(kind), Forward(kind, args) PROVE TapeInv'
  BY <1>0, <1>2, TapeForward
<1>3. CASE OptimizerStep
  <2>1. /\ UNCHANGED << made, edges, saved, meta >>
        /\ tensor' = [n \in Node |-> IF n \in Leaf /\ grad[n] # None
                                     THEN [tensor[n] EXCEPT !.val = @ + 1] ELSE tensor[n]]
    BY <1>3 DEF OptimizerStep
  <2>2. \A t \in Tensors : [t EXCEPT !.val = @ + 1].wide = t.wide /\ [t EXCEPT !.val = @ + 1].rg = t.rg
    BY DEF Tensors
  <2>3. \A m \in Node : tensor'[m].wide = tensor[m].wide /\ tensor'[m].rg = tensor[m].rg
    BY <1>0, <2>1, <2>2
  <2> QED
    BY <1>1, <2>1, <2>3
<1>4. CASE \E n \in Node : ApplyNode(n)
  <2>1. PICK n \in Node : ApplyNode(n)
    BY <1>4
  <2>2. /\ UNCHANGED << made, edges, tensor >>
        /\ saved' = [saved EXCEPT ![n] = << >>] /\ meta' = [meta EXCEPT ![n] = << >>]
    BY <2>1 DEF ApplyNode, graphVars
  <2>3. \A m \in Node : \/ saved'[m] = saved[m] /\ meta'[m] = meta[m]
                        \/ saved'[m] = << >> /\ meta'[m] = << >>
    BY <1>0, <2>2
  <2> QED
    BY <1>1, <2>2, <2>3
<1>5. CASE UNCHANGED << made, tensor, edges, saved, meta >>
  BY <1>1, <1>5
<1>6. CASE ZeroGrad \/ (\E r \in Node : Backward(r)) \/ Count \/ Order
  <2>1. UNCHANGED << made, tensor, edges, saved, meta >>
    BY <1>6 DEF ZeroGrad, Backward, Count, CountSkip, CountNode, CountDone, Order, OrderNode, OrderDone,
                graphVars, bufferVars
  <2> QED
    BY <1>5, <2>1
<1>7. CASE (\E n \in Node : SkipNode(n) \/ Accumulate(n) \/ ApplyThrows(n)) \/ BackwardDone
  <2>1. UNCHANGED << made, tensor, edges, saved, meta >>
    BY <1>7 DEF SkipNode, Accumulate, ApplyThrows, BackwardDone, Returned, graphVars, bufferVars
  <2> QED
    BY <1>5, <2>1
<1>8. CASE UNCHANGED avars
  BY <1>5, <1>8 DEF avars
<1> QED
  BY <1>2, <1>3, <1>4, <1>6, <1>7, <1>8 DEF ANext, Program, Engine, Apply
-----------------------------------------------------------------------------
(* A call keeps what waits worth what the root is.                          *)

LEMMA SameGraph ==
    ASSUME UNCHANGED << made, tensor, edges >>
    PROVE  /\ \A l \in Leaf : Tangent(l)' = Tangent(l)
           /\ \A n : Feeds(n)' = Feeds(n)
           /\ Under' = Under
<1>1. \A l \in Leaf : Tangent(l)' = Tangent(l)
  BY DEF Tangent
<1>2. \A n : Feeds(n)' = Feeds(n)
  BY DEF Feeds
<1>3. Under' = Under
  BY DEF Under, Children
<1> QED
  BY <1>1, <1>2, <1>3

LEMMA KeptNext ==
    ASSUME UNCHANGED << made, tensor, edges >>, NEW r, NEW G, NEW B,
           root' = r, gradMap' = G, Before(at)' = B,
           \A n \in Under[r] \ (B \cup Leaf) : ~Released(n)',
           Waiting(r, G),
           \A l \in Leaf \ B : Balance(r, l, G, B) /\ Reaching(r, l, G, B)
    PROVE  Kept(root, gradMap, Before(at))'
<1>1. Under' = Under /\ \A n : Feeds(n)' = Feeds(n)
  BY SameGraph
<1>2. Waiting(root, gradMap)'
  BY <1>1 DEF Waiting
<1>3. \A n \in Under'[root'] \ (Before(at)' \cup Leaf) : ~Released(n)'
  BY <1>1
<1>4. ASSUME NEW l \in Leaf \ B PROVE Balance(root, l, gradMap, Before(at))' /\ Reaching(root, l, gradMap, Before(at))'
  <2>1. Tangent(l)' = Tangent(l)
    BY SameGraph
  <2>2. Weights(l, gradMap, Before(at))' = Weights(l, G, B)
    BY <2>1 DEF Weights
  <2>3. Balance(root, l, gradMap, Before(at))'
    BY <2>1, <2>2 DEF Balance
  <2>4. Reaching(root, l, gradMap, Before(at))'
    BY <1>1 DEF Reaching
  <2> QED
    BY <2>3, <2>4
<1> QED
  BY <1>2, <1>3, <1>4 DEF Kept

\* The sum over the nodes moves by what one summand moves.
LEMMA OneWeightMoves ==
    ASSUME NEW f \in [Node -> Int], NEW h \in [Node -> Int], NEW d \in Node,
           \A n \in Node : n # d => h[n] = f[n]
    PROVE  SumFunction(h) = SumFunction(f) - f[d] + h[d]
<1>1. IsFiniteSet(Node)
  BY AutogradAssumption, FS_Interval DEF Node
<1> QED
  BY <1>1, SumChange

\* At the start the root's gradient waits, and nothing else.
LEMMA KeptSeed ==
    ASSUME Wired, TypeInv, TapeInv, NEW r \in 1..made, tensor[r].rg
    PROVE  /\ Waiting(r, Seed(r))
           /\ \A l \in Leaf : Balance(r, l, Seed(r), {}) /\ Reaching(r, l, Seed(r), {})
<1> DEFINE G == Seed(r)
           zero == [n \in Node |-> 0]
<1>1. r \in Node /\ tensor[r].wide \in BOOLEAN /\ None \notin Grad /\ r \in Under[r]
  <2>1. r \in Node /\ tensor[r].wide \in BOOLEAN
    BY NodeFacts DEF Tensors
  <2> QED
    BY <2>1, UnderClosed, AutogradAssumption
<1>2. [v |-> 1, wide |-> tensor[r].wide] \in Grad
  BY <1>1 DEF Grad
<1>3. /\ G \in [Node -> Grad \cup {None}] /\ G[r] # None /\ G[r].v = 1 /\ G[r].wide = tensor[r].wide
      /\ \A n \in Node : n # r => G[n] = None
  BY <1>1, <1>2 DEF Seed
<1> HIDE DEF G
<1>4. Waiting(r, G)
  BY <1>1, <1>3 DEF Waiting
<1>5. ASSUME NEW l \in Leaf PROVE Balance(r, l, G, {}) /\ Reaching(r, l, G, {})
  <2> DEFINE w == Weights(l, G, {})
             D == Tangent(l)
             N == Numel(tensor[r].wide)
  <2>1. w \in [Node -> Int] /\ zero \in [Node -> Int] /\ IsFiniteSet(Node)
    BY <1>4, WeightsTyped
  <2>2. \A n \in Node : n # r => w[n] = zero[n]
    BY <1>3 DEF Weights
  <2>3. w[r] = D[r] * N /\ w[r] \in Int
    <3>1. w[r] = (1 * D[r]) * N
      BY <1>1, <1>3 DEF Weights
    <3>2. D[r] \in Int /\ N \in Int
      BY TangentEquation, NodeFacts DEF Numel
    <3>3. 1 * D[r] = D[r]
      BY <3>2
    <3> QED
      BY <1>1, <2>1, <3>1, <3>3
  <2>4. SumFunction(w) = SumFunction(zero) - zero[r] + w[r]
    <3> HIDE DEF w, zero, D, N
    <3>1. r \in Node /\ w \in [Node -> Int] /\ zero \in [Node -> Int] /\ IsFiniteSet(Node)
      BY <1>1, <2>1
    <3> QED
      BY <2>2, <3>1, OneWeightMoves
  <2>5. SumFunction(zero) = 0 /\ zero[r] = 0
    BY <1>1, <2>1, SumZero
  <2> HIDE DEF w, zero, D, N
  <2>6. SumFunction(w) = D[r] * N
    BY <2>3, <2>4, <2>5
  <2>7. Balance(r, l, G, {})
    BY <2>6 DEF Balance, w, D, N
  <2>8. Reaching(r, l, G, {})
    BY <1>1, <1>3 DEF Reaching
  <2> QED
    BY <2>7, <2>8
<1> QED
  BY <1>4, <1>5 DEF G

\* Before the last loop begins, nothing that CallInv reads of gradients moves.
LEMMA LoopKeeps ==
    ASSUME CallInv, phase \in {"count", "order"}, phase' # "idle",
           UNCHANGED << made, tensor, edges, saved, meta, root, gradMap, sound, at >>,
           visited' \subseteq Under[root], Queued' \subseteq Under[root],
           phase' = "apply" => root \in visited'
    PROVE  CallInv'
<1>1. /\ root \in 1..made \ Leaf /\ tensor[root].rg /\ at = 1 /\ gradMap = Seed(root)
      /\ sound => Kept(root, gradMap, Before(at))
  BY DEF CallInv
<1>2. Before(at) = {} /\ Before(at)' = {}
  BY <1>1 DEF Before
<1>3. sound' => Kept(root, gradMap, Before(at))'
  <2> SUFFICES ASSUME sound' PROVE Kept(root, gradMap, Before(at))'
    OBVIOUS
  <2>1. Kept(root, gradMap, {})
    BY <1>1, <1>2
  <2>2. \A n \in Under[root] \ ({} \cup Leaf) : ~Released(n)'
    BY <2>1 DEF Kept, Released
  <2>3. /\ Waiting(root, gradMap)
        /\ \A l \in Leaf \ {} : Balance(root, l, gradMap, {}) /\ Reaching(root, l, gradMap, {})
    BY <2>1 DEF Kept
  <2> QED
    BY <1>2, <2>2, <2>3, KeptNext
<1>4. Seed(root)' = Seed(root) /\ Under' = Under
  BY SameGraph DEF Seed
<1>5. phase' = "apply" => \A n \in Node : gradMap'[n] # None => n \in visited'
  BY <1>1 DEF Seed
<1> QED
  BY <1>1, <1>3, <1>4, <1>5 DEF CallInv

LEMMA CallBegins ==
    ASSUME OrderInv, TypeInv, TapeInv, NEW r \in Node, Backward(r)
    PROVE  CallInv' /\ sound' \in BOOLEAN
<1>1. /\ r \in 1..made \ Leaf /\ tensor[r].rg /\ UNCHANGED << made, tensor, edges, saved, meta >>
      /\ phase' = "count" /\ root' = r /\ queue' = << r >> /\ visited' = {} /\ at' = 1
      /\ gradMap' = Seed(r)
      /\ sound' = (\A n \in Under[r] : ~Released(n))
  BY DEF Backward, Seed
<1>2. Before(at)' = {}
  BY <1>1 DEF Before
<1>3. Waiting(r, Seed(r)) /\ \A l \in Leaf \ {} : Balance(r, l, Seed(r), {}) /\ Reaching(r, l, Seed(r), {})
  BY <1>1, KeptSeed DEF OrderInv
<1>4. sound' => Kept(root, gradMap, Before(at))'
  <2> SUFFICES ASSUME sound' PROVE Kept(root, gradMap, Before(at))'
    OBVIOUS
  <2>1. \A n \in Under[r] \ ({} \cup Leaf) : ~Released(n)'
    BY <1>1 DEF Released
  <2> QED
    BY <1>1, <1>2, <1>3, <2>1, KeptNext
<1>5. Seed(root)' = Seed(r) /\ Under' = Under
  BY <1>1, SameGraph DEF Seed
<1>6. Queued' = {r} /\ r \in Under[r]
  BY <1>1, NodeFacts, UnderClosed DEF Queued, Elements, OrderInv
<1>7. sound' \in BOOLEAN
  BY <1>1
<1> QED
  BY <1>1, <1>4, <1>5, <1>6, <1>7 DEF CallInv

LEMMA CallLoops ==
    ASSUME OrderInv, TypeInv, TapeInv, CallInv, Count \/ Order
    PROVE  CallInv'
<1>0. Count => phase = "count"
  BY DEF Count, CountSkip, CountNode, CountDone
<1>1. Order => phase = "order"
  BY DEF Order, OrderNode, OrderDone
<1>2. /\ phase \in {"count", "order"} /\ visited \subseteq Under[root] /\ Queued \subseteq Under[root] /\ Wired
      /\ root \in Node /\ queue \in Seq(Node)
  BY <1>0, <1>1, NodeFacts DEF CallInv, OrderInv, EngineTypeOK
<1>3. CASE CountSkip
  <2>1. /\ UNCHANGED << made, tensor, edges, saved, meta, root, gradMap, sound, at, phase, visited >>
        /\ queue # << >> /\ queue' = Tail(queue) /\ phase = "count"
    BY <1>3 DEF CountSkip, graphVars, bufferVars
  <2>2. Queued' \subseteq Under[root]
    BY <1>2, <2>1, QueueTail DEF Queued
  <2> QED
    BY <1>2, <2>1, <2>2, LoopKeeps
<1>4. CASE CountNode
  <2>1. /\ UNCHANGED << made, tensor, edges, saved, meta, root, gradMap, sound, at, phase >>
        /\ queue # << >> /\ phase = "count"
        /\ visited' = visited \cup {Head(queue)}
        /\ queue' = Tail(queue) \o Pushed(Head(queue), visited')
    BY <1>4 DEF CountNode, graphVars, bufferVars
  <2>2. /\ Head(queue) \in Node /\ Tail(queue) \in Seq(Node) /\ Head(queue) \in Under[root]
        /\ Elements(Tail(queue)) \subseteq Under[root]
    BY <1>2, <2>1, QueueTail
  <2>3. /\ Pushed(Head(queue), visited') \in Seq(Node)
        /\ Elements(Pushed(Head(queue), visited')) \subseteq Under[root]
    <3>1. Children(Head(queue)) \subseteq Under[root]
      BY <1>2, <2>2, UnderClosed
    <3> QED
      BY <1>2, <2>2, <3>1, PushedElements
  <2>4. Queued' \subseteq Under[root]
    <3>1. Elements(queue') = Elements(Tail(queue)) \cup Elements(Pushed(Head(queue), visited'))
      <4>1. \A s, t \in Seq(Node) : Elements(s \o t) = Elements(s) \cup Elements(t)
        BY ConcatElements
      <4> QED
        BY <2>1, <2>2, <2>3, <4>1
    <3>2. Queued' = Elements(queue')
      BY DEF Queued, Elements
    <3> QED
      BY <2>2, <2>3, <3>1, <3>2
  <2> QED
    BY <1>2, <2>1, <2>2, <2>4, LoopKeeps
<1>5. CASE CountDone \/ (\E n \in Node : OrderNode(n)) \/ OrderDone
  <2>1. /\ UNCHANGED << made, tensor, edges, saved, meta, root, gradMap, sound, at, visited, queue >>
        /\ phase' \in {"order", "apply"} /\ (phase' = "apply" => phase = "order")
    BY <1>5 DEF CountDone, OrderNode, OrderDone, graphVars, bufferVars, countVars
  <2>2. Queued' = Queued
    BY <2>1 DEF Queued, Elements
  <2>3. phase' = "apply" => root \in visited'
    BY <2>1 DEF OrderInv, InOrder
  <2> QED
    BY <1>2, <2>1, <2>2, <2>3, LoopKeeps
<1> QED
  BY <1>3, <1>4, <1>5 DEF Count, Order

\* The last loop, at node n.
LEMMA CallApplies ==
    ASSUME OrderInv, TypeInv, DerivInv, NEW n \in Node, SkipNode(n) \/ Accumulate(n) \/ ApplyNode(n)
    PROVE  CallInv'
<1> DEFINE B == Before(at)
<1>1. /\ phase = "apply" /\ Applying(n) /\ at' = at + 1
      /\ UNCHANGED << made, tensor, edges, phase, root, visited, queue, order, sound >>
  BY DEF SkipNode, Accumulate, ApplyNode, Applying, graphVars, countVars
<1>2. /\ n \in visited \ B /\ Before(at + 1) = B \cup {n} /\ \A c \in Children(n) : c \notin B
      /\ Children(n) \subseteq visited
  BY <1>1, Reached, Visits
<1>3. Before(at)' = B \cup {n}
  <2>1. Before(at)' = Before(at + 1)
    BY <1>1 DEF Before
  <2> QED
    BY <1>2, <2>1
<1>4. /\ root \in 1..made \ Leaf /\ tensor[root].rg
      /\ visited \subseteq Under[root] /\ Queued \subseteq Under[root]
      /\ \A m \in Node : gradMap[m] # None => m \in visited
      /\ sound => Kept(root, gradMap, B)
      /\ TapeInv /\ Wired
  BY <1>1 DEF DerivInv, CallInv, OrderInv
<1>5. Under' = Under /\ Queued' = Queued
  BY <1>1, SameGraph DEF Queued, Elements
<1>6. /\ \A m \in Node : gradMap'[m] # None => m \in visited
      /\ sound => Kept(root, gradMap, Before(at))'
  <2>1. CASE SkipNode(n) \/ Accumulate(n)
    <3>1. UNCHANGED << saved, meta, gradMap >>
      BY <2>1 DEF SkipNode, Accumulate, bufferVars
    <3>2. ASSUME sound PROVE Kept(root, gradMap, Before(at))'
      <4>1. Kept(root, gradMap, B \cup {n})
        <5>1. Kept(root, gradMap, B)
          BY <1>4, <3>2
        <5>2. CASE SkipNode(n)
          BY <1>2, <5>1, <5>2, KeptSkipped DEF SkipNode
        <5>3. CASE Accumulate(n)
          BY <1>2, <1>4, <5>1, <5>3, KeptAccumulated DEF Accumulate
        <5> QED
          BY <2>1, <5>2, <5>3
      <4>2. \A m \in Under[root] \ ((B \cup {n}) \cup Leaf) : ~Released(m)'
        BY <3>1, <4>1 DEF Kept, Released
      <4>3. /\ Waiting(root, gradMap)
            /\ \A l \in Leaf \ (B \cup {n}) : /\ Balance(root, l, gradMap, B \cup {n})
                                              /\ Reaching(root, l, gradMap, B \cup {n})
        BY <4>1 DEF Kept
      <4> HIDE DEF B
      <4> QED
        BY <1>1, <1>3, <3>1, <4>2, <4>3, KeptNext
    <3> QED
      BY <1>4, <3>1, <3>2
  <2>2. CASE ApplyNode(n)
    <3> DEFINE H == Receive(Receive(gradMap, Edge(n, 1), Out(n, gradMap[n], 1)), Edge(n, 2), Out(n, gradMap[n], 2))
    <3>1. /\ n \notin Leaf /\ gradMap[n] # None
          /\ saved' = [saved EXCEPT ![n] = << >>] /\ meta' = [meta EXCEPT ![n] = << >>]
          /\ gradMap' = [c \in Node |-> IF c \in Children(n) THEN Passed(n, gradMap[n], c) ELSE gradMap[c]]
      BY <2>2 DEF ApplyNode
    <3>2. gradMap' = H
      BY <1>4, <3>1, PassedReceived
    <3>3. \A m \in Node : gradMap'[m] # None => m \in visited
      BY <1>2, <1>4, <3>1
    <3>4. ASSUME sound PROVE Kept(root, gradMap, Before(at))'
      <4>1. Kept(root, gradMap, B) /\ n \in Node \ (B \cup Leaf) /\ Children(n) \cap B = {}
        BY <1>2, <1>4, <3>1, <3>4
      <4>2. /\ Waiting(root, H)
            /\ \A l \in Leaf \ B : Balance(root, l, H, B \cup {n}) /\ Reaching(root, l, H, B \cup {n})
        BY <1>4, <3>1, <4>1, KeptApplied
      <4>3. \A m \in Under[root] \ ((B \cup {n}) \cup Leaf) : ~Released(m)'
        <5>1. \A m \in Under[root] \ ((B \cup {n}) \cup Leaf) : ~Released(m)
          BY <4>1 DEF Kept
        <5>2. \A m : m # n => saved'[m] = saved[m] /\ meta'[m] = meta[m]
          BY <3>1
        <5> QED
          BY <5>1, <5>2 DEF Released
      <4>4. \A l \in Leaf \ (B \cup {n}) : Balance(root, l, H, B \cup {n}) /\ Reaching(root, l, H, B \cup {n})
        BY <4>2
      <4> HIDE DEF B, H
      <4> QED
        BY <1>1, <1>3, <3>2, <4>2, <4>3, <4>4, KeptNext
    <3> QED
      BY <3>3, <3>4
  <2> QED
    BY <2>1, <2>2
<1> QED
  BY <1>1, <1>4, <1>5, <1>6 DEF CallInv

LEMMA DerivInit == AInit => DerivInv
  BY TapeInit DEF AInit, DerivInv, CallInv

LEMMA DerivStep == OrderInv /\ TypeInv /\ DerivInv /\ [ANext]_avars => DerivInv'
<1> SUFFICES ASSUME OrderInv, TypeInv, DerivInv, [ANext]_avars PROVE DerivInv'
  OBVIOUS
<1>1. TapeInv'
  BY TapeStep DEF DerivInv
<1>2. ASSUME phase' = "idle", sound' PROVE DerivInv'
  BY <1>1, <1>2 DEF DerivInv, CallInv
<1>3. CASE (\E kind \in Kinds : \E args \in ArgLists(kind) : Forward(kind, args)) \/ OptimizerStep \/ ZeroGrad
  BY <1>2, <1>3 DEF Forward, OptimizerStep, ZeroGrad, engineVars, Idle, DerivInv
<1>4. CASE \E r \in Node : Backward(r)
  <2>1. CallInv' /\ sound' \in BOOLEAN /\ phase' = "count"
    BY <1>4, CallBegins DEF DerivInv, Backward
  <2> QED
    BY <1>1, <2>1 DEF DerivInv
<1>5. CASE Count \/ Order
  <2>1. CallInv'
    BY <1>5, CallLoops DEF DerivInv
  <2>2. UNCHANGED sound /\ phase' # "idle"
    BY <1>5 DEF Count, CountSkip, CountNode, CountDone, Order, OrderNode, OrderDone
  <2> QED
    BY <1>1, <2>1, <2>2 DEF DerivInv
<1>6. CASE \E n \in Node : SkipNode(n) \/ Accumulate(n) \/ ApplyNode(n)
  <2>1. CallInv'
    BY <1>6, CallApplies
  <2>2. UNCHANGED sound /\ phase' # "idle"
    BY <1>6 DEF SkipNode, Accumulate, ApplyNode, Applying
  <2> QED
    BY <1>1, <2>1, <2>2 DEF DerivInv
<1>7. CASE (\E n \in Node : ApplyThrows(n)) \/ BackwardDone
  BY <1>2, <1>7 DEF ApplyThrows, BackwardDone, Returned
<1>8. CASE UNCHANGED avars
  <2>1. UNCHANGED << made, tensor, edges, saved, meta, phase, root, visited, queue, order, at, gradMap, sound >>
    BY <1>8 DEF avars, engineVars
  <2>2. CallInv'
    <3>1. Kept(root, gradMap, Before(at))' = Kept(root, gradMap, Before(at))
      <4>1. \A l \in Leaf : Tangent(l)' = Tangent(l)
        BY <2>1, SameGraph
      <4>2. (\A n : Feeds(n)' = Feeds(n)) /\ Under' = Under /\ Before(at)' = Before(at)
        BY <2>1, SameGraph DEF Before
      <4>3. \A l \in Leaf : Weights(l, gradMap, Before(at))' = Weights(l, gradMap, Before(at))
        BY <2>1, <4>1, <4>2 DEF Weights
      <4>4. \A l \in Leaf : /\ Balance(root, l, gradMap, Before(at))' = Balance(root, l, gradMap, Before(at))
                            /\ Reaching(root, l, gradMap, Before(at))' = Reaching(root, l, gradMap, Before(at))
        BY <2>1, <4>1, <4>2, <4>3 DEF Balance, Reaching
      <4> QED
        BY <2>1, <4>2, <4>4 DEF Kept, Waiting, Released
    <3>2. Seed(root)' = Seed(root) /\ Under' = Under /\ Queued' = Queued
      BY <2>1, SameGraph DEF Seed, Queued, Elements
    <3> QED
      BY <2>1, <3>1, <3>2 DEF DerivInv, CallInv
  <2> QED
    BY <1>1, <2>1, <2>2 DEF DerivInv
<1> QED
  BY <1>3, <1>4, <1>5, <1>6, <1>7, <1>8 DEF ANext, Program, Engine, Apply
-----------------------------------------------------------------------------
(* Every step keeps what Backprop promises.                                 *)

\* What is owed is a gradient, and nothing is outside a call or in a call that
\* met released buffers.
OwedOK == \A l \in Leaf : Owed(l) \in Grad \cup {None} /\ (phase = "idle" \/ ~sound => Owed(l) = None)

LEMMA OwedIsOK == OrderInv /\ TypeInv /\ DerivInv => OwedOK
  BY OwedTyped DEF OwedOK

\* Inside a call a debt moves only when the engine passes its leaf.
LEMMA OwedSame ==
    ASSUME UNCHANGED << made, tensor, edges, root, sound >>, phase # "idle", phase' # "idle",
           NEW l \in Leaf, l \in Before(at)' <=> l \in Before(at)
    PROVE  Owed(l)' = Owed(l)
<1>1. Tangent(l)' = Tangent(l) /\ Feeds(root)' = Feeds(root)
  BY SameGraph
<1> QED
  BY <1>1 DEF Owed, Numel

LEMMA Stutters ==
    ASSUME UNCHANGED << grad, sound >>, \A l \in Leaf : Owed(l)' = Owed(l)
    PROVE  UNCHANGED Promise!bvars
  BY DEF Promise!bvars

\* With nothing owed, a call may begin or end.
LEMMA Asks ==
    ASSUME UNCHANGED grad, OwedOK', sound' \in BOOLEAN, \A l \in Leaf : Owed(l) = None
    PROVE  Promise!BNext
<1>1. Promise!Settled /\ (~sound' => Promise!Settled')
  BY DEF OwedOK, Promise!Settled
<1>2. [l \in Leaf |-> Owed(l)]' \in [Leaf -> Grad \cup {None}]
  BY DEF OwedOK
<1>3. Promise!Ask
  BY <1>1, <1>2 DEF Promise!Ask
<1> QED
  BY <1>3 DEF Promise!BNext

\* The last loop at n: the debts to the other leaves stay.
LEMMA OthersOwed ==
    ASSUME OrderInv, TypeInv, DerivInv, NEW n \in Node,
           SkipNode(n) \/ Accumulate(n) \/ ApplyNode(n)
    PROVE  /\ phase = "apply" /\ Applying(n) /\ UNCHANGED sound
           /\ \A l \in Leaf : l # n => Owed(l)' = Owed(l)
           /\ n \in Leaf => Owed(n)' = None
<1>1. /\ phase = "apply" /\ Applying(n) /\ at' = at + 1
      /\ UNCHANGED << made, tensor, edges, phase, root, order, sound >>
  BY DEF SkipNode, Accumulate, ApplyNode, Applying, graphVars, countVars
<1>2. Before(at)' = Before(at) \cup {n}
  <2>1. Before(at)' = Before(at + 1)
    BY <1>1 DEF Before
  <2> QED
    BY <1>1, <2>1, Reached
<1>3. ASSUME NEW l \in Leaf, l # n PROVE Owed(l)' = Owed(l)
  BY <1>1, <1>2, <1>3, OwedSame
<1>4. n \in Leaf => Owed(n)' = None
  BY <1>2 DEF Owed
<1> QED
  BY <1>1, <1>3, <1>4

\* The accumulator of a leaf delivers what the leaf is owed.
LEMMA Delivers ==
    ASSUME OrderInv, TypeInv, DerivInv, OwedOK, OwedOK', NEW n \in Node, Accumulate(n)
    PROVE  Promise!BNext
<1>1. /\ n \in Leaf /\ gradMap[n] # None /\ UNCHANGED sound
      /\ grad' = [grad EXCEPT ![n] = Plus(@, gradMap[n])]
  BY DEF Accumulate
<1>2. /\ phase = "apply" /\ Applying(n) /\ Owed(n)' = None
      /\ \A l \in Leaf : l # n => Owed(l)' = Owed(l)
  BY <1>1, OthersOwed
<1>3. CASE sound
  <2>1. Owed(n) = gradMap[n]
    BY <1>1, <1>2, <1>3, GatheredIsOwed
  <2>2. [l \in Leaf |-> Owed(l)]' = [[l \in Leaf |-> Owed(l)] EXCEPT ![n] = None]
    BY <1>1, <1>2
  <2>3. [l \in Leaf |-> Owed(l)][n] = gradMap[n]
    BY <1>1, <2>1
  <2>4. Promise!Deliver(n)
    BY <1>1, <2>2, <2>3 DEF Promise!Deliver
  <2> QED
    BY <1>1, <2>4 DEF Promise!BNext
<1>4. CASE ~sound
  <2>1. \A l \in Leaf : Owed(l) = None /\ Owed(l)' = None
    BY <1>1, <1>4 DEF OwedOK
  <2>2. Promise!Settled /\ [l \in Leaf |-> Owed(l)]' = [l \in Leaf |-> Owed(l)]
    BY <2>1 DEF Promise!Settled
  <2>3. Promise!Unspecified
    BY <1>1, <1>4, <2>2 DEF Promise!Unspecified
  <2> QED
    BY <2>3 DEF Promise!BNext
<1> QED
  BY <1>3, <1>4

\* A node whose buffers the call needs has them: only an unsound call throws.
LEMMA ThrowsUnsound ==
    ASSUME OrderInv, TypeInv, DerivInv, NEW n \in Node, ApplyThrows(n)
    PROVE  ~sound
<1> SUFFICES ASSUME sound PROVE FALSE
  OBVIOUS
<1>1. phase = "apply" /\ Applying(n) /\ n \notin Leaf /\ Throws(n)
  BY DEF ApplyThrows, Applying
<1>2. n \in visited \ Before(at) /\ n \in 1..made /\ tensor[n].rg
  BY <1>1, Reached, Visits
<1>3. n \in Under[root] \ (Before(at) \cup Leaf) /\ Kept(root, gradMap, Before(at)) /\ TapeInv
  BY <1>1, <1>2 DEF DerivInv, CallInv
<1>4. ~Released(n)
  BY <1>3 DEF Kept
<1> QED
  BY <1>1, <1>2, <1>3, <1>4, BufferFacts

LEMMA PromiseInit == AInit => Promise!BInit
  BY DEF AInit, Promise!BInit, Promise!Settled, Owed

LEMMA PromiseStep ==
    OrderInv /\ TypeInv /\ DerivInv /\ OwedOK /\ OwedOK' /\ [ANext]_avars
        => [Promise!BNext]_(Promise!bvars)
<1> SUFFICES ASSUME OrderInv, TypeInv, DerivInv, OwedOK, OwedOK', [ANext]_avars
             PROVE  Promise!BNext \/ UNCHANGED Promise!bvars
  OBVIOUS
<1>1. CASE (\E kind \in Kinds : \E args \in ArgLists(kind) : Forward(kind, args)) \/ OptimizerStep
  <2>1. phase = "idle" /\ UNCHANGED << phase, grad, sound >>
    BY <1>1 DEF Forward, OptimizerStep, engineVars, Idle
  <2>2. \A l \in Leaf : Owed(l)' = Owed(l)
    BY <2>1 DEF OwedOK
  <2> QED
    BY <2>1, <2>2, Stutters
<1>2. CASE ZeroGrad
  <2>1. phase = "idle" /\ UNCHANGED << phase, sound >> /\ grad' = [l \in Leaf |-> None]
    BY <1>2 DEF ZeroGrad, engineVars, Idle
  <2>2. \A l \in Leaf : Owed(l) = None /\ Owed(l)' = None
    BY <2>1 DEF OwedOK
  <2>3. Promise!Settled /\ [l \in Leaf |-> Owed(l)]' = [l \in Leaf |-> Owed(l)]
    BY <2>2 DEF Promise!Settled
  <2>4. Promise!ZeroGrads
    BY <2>1, <2>3 DEF Promise!ZeroGrads
  <2> QED
    BY <2>4 DEF Promise!BNext
<1>3. CASE \E r \in Node : Backward(r)
  <2>1. phase = "idle" /\ UNCHANGED grad /\ sound' \in BOOLEAN
    BY <1>3 DEF Backward, Idle
  <2>2. \A l \in Leaf : Owed(l) = None
    BY <2>1 DEF OwedOK
  <2> QED
    BY <2>1, <2>2, Asks
<1>4. CASE Count \/ Order
  <2>1. /\ phase \in {"count", "order"} /\ phase' # "idle"
        /\ UNCHANGED << made, tensor, edges, root, sound, grad, at >>
    BY <1>4 DEF Count, CountSkip, CountNode, CountDone, Order, OrderNode, OrderDone, graphVars
  <2>2. Before(at) = {} /\ Before(at)' = {}
    BY <2>1 DEF DerivInv, CallInv, Before
  <2>3. \A l \in Leaf : Owed(l)' = Owed(l)
    BY <2>1, <2>2, OwedSame
  <2> QED
    BY <2>1, <2>3, Stutters
<1>5. CASE \E n \in Node : SkipNode(n) \/ ApplyNode(n)
  <2>1. PICK n \in Node : SkipNode(n) \/ ApplyNode(n)
    BY <1>5
  <2>2. UNCHANGED grad /\ (n \in Leaf => gradMap[n] = None)
    BY <2>1 DEF SkipNode, ApplyNode
  <2>3. /\ UNCHANGED sound /\ phase = "apply" /\ Applying(n)
        /\ \A l \in Leaf : l # n => Owed(l)' = Owed(l)
        /\ n \in Leaf => Owed(n)' = None
    BY <2>1, OthersOwed
  <2>4. n \in Leaf => Owed(n) = None
    BY <2>2, <2>3, NothingGathered
  <2>5. \A l \in Leaf : Owed(l)' = Owed(l)
    BY <2>3, <2>4
  <2> QED
    BY <2>2, <2>3, <2>5, Stutters
<1>6. CASE \E n \in Node : Accumulate(n)
  BY <1>6, Delivers
<1>7. CASE (\E n \in Node : ApplyThrows(n)) \/ BackwardDone
  <2>1. UNCHANGED grad /\ sound' \in BOOLEAN
    BY <1>7 DEF ApplyThrows, BackwardDone, Returned
  <2>2. \A l \in Leaf : Owed(l) = None
    <3>1. CASE \E n \in Node : ApplyThrows(n)
      BY <3>1, ThrowsUnsound DEF OwedOK
    <3>2. CASE BackwardDone
      BY <3>2, NothingLeft DEF BackwardDone
    <3> QED
      BY <1>7, <3>1, <3>2
  <2> QED
    BY <2>1, <2>2, Asks
<1>8. CASE UNCHANGED avars
  <2>1. UNCHANGED << made, tensor, edges, root, sound, grad, at, order, phase >>
    BY <1>8 DEF avars, engineVars
  <2>2. Before(at)' = Before(at)
    BY <2>1 DEF Before
  <2>3. \A l \in Leaf : Owed(l)' = Owed(l)
    <3>1. CASE phase = "idle"
      BY <2>1, <3>1 DEF OwedOK
    <3>2. CASE phase # "idle"
      BY <2>1, <2>2, <3>2, OwedSame
    <3> QED
      BY <3>1, <3>2
  <2> QED
    BY <2>1, <2>3, Stutters
<1> QED
  BY <1>1, <1>2, <1>3, <1>4, <1>5, <1>6, <1>7, <1>8 DEF ANext, Program, Engine, Apply

\* Whatever program was recorded, backward adds to each parameter that feeds
\* the root the derivative of the root at the values the forward pass saw, in
\* the parameter's shape, once, and touches no other gradient: tensor.backward
\* and GradAccumulator.apply implement Backprop.
THEOREM EngineImplementsBackprop == ASpec => ImplementsBackprop
<1>1. AInit => OrderInv /\ TypeInv /\ DerivInv
  BY InitOrder, TypeInit, DerivInit
<1>2. OrderInv /\ TypeInv /\ DerivInv /\ [ANext]_avars => (OrderInv /\ TypeInv /\ DerivInv)'
  BY NextOrder, TypeStep, DerivStep
<1>3. ASpec => [](OrderInv /\ TypeInv /\ DerivInv)
  BY <1>1, <1>2, PTL DEF ASpec
<1> QED
  BY <1>3, OwedIsOK, PromiseInit, PromiseStep, PTL DEF ASpec, ImplementsBackprop, Promise!BSpec
=============================================================================
