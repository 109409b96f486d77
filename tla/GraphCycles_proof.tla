-------------------------- MODULE GraphCycles_proof --------------------------
(***************************************************************************)
(* The ranks of the cycle detector are a topological order after any       *)
(* sequence of merges, on any graph, and its answers are exact.            *)
(*                                                                         *)
(* The inductive invariant describes the ranks with a hole: left are the   *)
(* nodes without a place, slots the ranks without a node, and an edge      *)
(* between a placed node and one that is left respects every rank that is  *)
(* still free.  Between merges the hole is empty and this is the order.    *)
(* That the hole can be filled is what wouldCreateCycle answers: the       *)
(* search for a path from lo to hi has left behind a set of nodes (S) that *)
(* is closed under successors and has no edge to hi, so a node that is not *)
(* ready cannot wait for the merged node m.                                *)
(*                                                                         *)
(* That the answer is exact needs the link sets too (LinksAreEdges): paths *)
(* of the groups go up in rank, so lengthening them n times finds them all *)
(* and cutting the search off at the rank of its goal loses none.          *)
(***************************************************************************)
EXTENDS GraphCyclesProps, FiniteSetTheorems, TLAPS

Roots == { x \in Node : root[x] = x }

Types ==
    /\ edges \in Graphs
    /\ root \in [Node -> Node] /\ rank \in [Node -> Node]
    /\ nodeAtRank \in [Node -> Node \cup {-1}]
    /\ out \in [Node -> SUBSET Node] /\ in \in [Node -> SUBSET Node]
    /\ pc \in {"idle", "reorder"}
    /\ slots \subseteq Node /\ left \subseteq Roots
    /\ \A x \in Node : root[root[x]] = root[x]
    /\ pc = "idle" => slots = {} /\ left = {}

\* Every edge of the graph is an edge between the groups of its ends.
GroupsLinked ==
    \A e \in edges : root[e[1]] # root[e[2]] => root[e[2]] \in Succ(root[e[1]])

InMatchesOut == \A u, v \in Roots : u # v => (v \in Succ(u) <=> u \in Pred(v))

Ranked ==
    /\ \A u \in Roots \ left : nodeAtRank[rank[u]] = u /\ rank[u] \notin slots
    /\ \A r \in Node \ slots : nodeAtRank[r] # -1 =>
          nodeAtRank[r] \in Roots \ left /\ rank[nodeAtRank[r]] = r

Ordered ==
    \A u, v \in Roots : u # v /\ v \in Succ(u) =>
        /\ u \notin left /\ v \notin left => rank[u] < rank[v]
        /\ u \notin left /\ v \in left => \A r \in slots : rank[u] < r
        /\ u \in left /\ v \notin left => \A r \in slots : r < rank[v]

\* The window without m is still in the old order; S holds the nodes that are
\* reached from m, and none of them reaches m.
Window(m, S) ==
    /\ \A u, v \in left \ {m} : u # v /\ v \in Succ(u) => rank[u] < rank[v]
    /\ \A v \in left \ {m} : v \in Succ(m) => v \in S
    /\ \A u \in S : u \in left \ {m} =>
          m \notin Succ(u) /\ \A v \in left \ {m} : v \in Succ(u) => v \in S

Sortable == \E m \in Nat, S \in SUBSET Node : Window(m, S)

Balanced ==
    IsFiniteSet(slots) /\ IsFiniteSet(left) /\ Cardinality(slots) = Cardinality(left)

CycleInv ==
    /\ Types /\ GroupsLinked /\ InMatchesOut
    /\ Ranked /\ Ordered /\ Sortable /\ Balanced

-----------------------------------------------------------------------------
\* The least element of a set of numbers: of the sets of elements up to x, for x
\* in the set, one is minimal.
LEMMA LeastNumber ==
    ASSUME NEW T, T \subseteq Nat, T # {}
    PROVE  Least(T) \in T /\ \A y \in T : Least(T) <= y
<1> DEFINE Upto(x) == T \cap (0..x)
           F == { Upto(x) : x \in T }
<1>1. F \subseteq FiniteSubsetsOf(Nat)
  <2>1. ASSUME NEW x \in T PROVE IsFiniteSet(Upto(x)) /\ Upto(x) \subseteq Nat
    <3>1. x \in Nat
      OBVIOUS
    <3>2. IsFiniteSet(0..x)
      BY <3>1, FS_Interval
    <3> QED
      BY <3>2, FS_Subset
  <2> QED
    BY <2>1 DEF FiniteSubsetsOf
<1>2. PICK U \in F : \A V \in F : ~(<< V, U >> \in StrictSubsetOrdering(Nat))
  <2>1. F # {}
    OBVIOUS
  <2> HIDE DEF F
  <2> QED
    BY <1>1, <2>1, FS_StrictSubsetOrderingWellFounded, WFMin
<1>3. PICK x \in T : U = Upto(x)
  OBVIOUS
<1>4. ASSUME NEW y \in T, y < x PROVE FALSE
  <2>1. Upto(y) \subseteq Upto(x) /\ x \in Upto(x) /\ x \notin Upto(y)
    BY <1>4
  <2>2. Upto(y) \in SUBSET Nat /\ Upto(x) \in SUBSET Nat /\ Upto(y) # Upto(x)
    BY <2>1
  <2>3. Upto(y) \in F
    OBVIOUS
  <2> HIDE DEF Upto
  <2>4. << Upto(y), Upto(x) >> \in StrictSubsetOrdering(Nat)
    BY <2>1, <2>2 DEF StrictSubsetOrdering
  <2> QED
    BY <1>2, <1>3, <2>3, <2>4
<1>5. \A y \in T : x <= y
  BY <1>4
<1> QED
  BY <1>5 DEF Least

LEMMA LowestNode ==
    ASSUME Types, NEW D, D \subseteq Node, D # {}
    PROVE  \E u \in D : \A w \in D : rank[u] <= rank[w]
<1> DEFINE T == { rank[u] : u \in D }
<1>1. rank \in [Node -> Nat]
  BY DEF Types, Node
<1>2. T \subseteq Nat /\ T # {}
  BY <1>1
<1> HIDE DEF T
<1>3. PICK x \in T : \A y \in T : x <= y
  BY <1>2, LeastNumber
<1> QED
  BY <1>3 DEF T

\* The first of the nodes that are not reached from m is ready, or m itself.
LEMMA OneIsReady ==
    ASSUME CycleInv, left # {}
    PROVE  \E u \in left : IsReady(u)
<1>1. PICK m \in Nat, S \in SUBSET Node : Window(m, S)
  BY DEF CycleInv, Sortable
<1>2. left \subseteq Node /\ rank \in [Node -> Nat]
  BY DEF CycleInv, Types, Roots, Node
<1>3. CASE left \ (S \cup {m}) # {}
  <2>1. PICK u \in left \ (S \cup {m}) : \A w \in left \ (S \cup {m}) : rank[u] <= rank[w]
    BY <1>2, <1>3, LowestNode DEF CycleInv
  <2>2. ASSUME NEW w \in left \ {u}, u \in Succ(w) PROVE FALSE
    BY <1>1, <1>2, <2>1, <2>2 DEF Window
  <2> QED
    BY <2>1, <2>2 DEF IsReady
<1>4. CASE left \subseteq S \cup {m} /\ m \in left
  BY <1>1, <1>4 DEF Window, IsReady
<1>5. CASE m \notin left
  <2>1. PICK u \in left : \A w \in left : rank[u] <= rank[w]
    BY <1>2, LowestNode DEF CycleInv
  <2>2. ASSUME NEW w \in left \ {u}, u \in Succ(w) PROVE FALSE
    BY <1>1, <1>2, <1>5, <2>1, <2>2 DEF Window
  <2> QED
    BY <2>1, <2>2 DEF IsReady
<1> QED
  BY <1>3, <1>4, <1>5

LEMMA OneIsFree ==
    ASSUME CycleInv, left # {}
    PROVE  slots # {} /\ Least(slots) \in slots /\ \A r \in slots : Least(slots) <= r
<1>1. slots # {}
  BY FS_EmptySet DEF CycleInv, Balanced
<1>2. slots \subseteq Nat
  BY DEF CycleInv, Types, Node
<1> QED
  BY <1>1, <1>2, LeastNumber

-----------------------------------------------------------------------------
LEMMA InitCycles == Init => CycleInv
<1> SUFFICES ASSUME Init PROVE CycleInv
  OBVIOUS
<1>1. Roots = Node /\ \A u \in Node : Succ(u) = out[u] /\ Pred(u) = in[u]
  BY DEF Init, Roots, Succ, Pred
<1>2. \A e \in edges : e \in Node \X Node /\ e = << e[1], e[2] >> /\ e[1] < e[2]
  BY GraphAssumption DEF Init
<1>3. Types
  BY <1>1 DEF Init, Types
<1>4. GroupsLinked
  BY <1>1, <1>2 DEF Init, GroupsLinked
<1>5. InMatchesOut
  BY <1>1 DEF Init, InMatchesOut
<1>6. Ranked
  BY <1>1 DEF Init, Ranked, Node
<1>7. Ordered
  <2>1. ASSUME NEW u \in Node, NEW v \in Node, << u, v >> \in edges PROVE u < v
    BY <1>2, <2>1
  <2>2. \A u, v \in Node : v \in Succ(u) => << u, v >> \in edges
    BY <1>1 DEF Init
  <2>3. left = {} /\ \A u \in Node : rank[u] = u
    BY DEF Init
  <2>4. \A u, v \in Node : v \in Succ(u) => rank[u] < rank[v]
    BY <2>1, <2>2, <2>3
  <2>5. Roots = Node
    BY <1>1
  <2> QED
    BY <2>3, <2>4, <2>5 DEF Ordered
<1>8. Sortable
  BY DEF Init, Sortable, Window
<1>9. Balanced
  BY FS_EmptySet DEF Init, Balanced
<1> QED
  BY <1>3, <1>4, <1>5, <1>6, <1>7, <1>8, <1>9 DEF CycleInv

\* One round of the sort: u takes the least rank that is free.
LEMMA PlaceNextCycles ==
    ASSUME CycleInv, NEW u \in Node, PlaceNext(u)
    PROVE  CycleInv'
<1> DEFINE r == Least(slots)
<1>1. /\ u \in left /\ pc = "reorder" /\ UNCHANGED << edges, root, out, in, pc >>
      /\ rank' = [rank EXCEPT ![u] = r]
      /\ nodeAtRank' = [nodeAtRank EXCEPT ![r] = u]
      /\ slots' = slots \ {r} /\ left' = left \ {u}
      /\ \A w \in left \ {u} : u \notin Succ(w)
  BY DEF PlaceNext, IsReady
<1>2. r \in slots /\ \A q \in slots : r <= q
  BY <1>1, OneIsFree
<1> HIDE DEF r
<1>3. /\ left \subseteq Roots /\ slots \subseteq Node /\ Roots \subseteq Node /\ Node \subseteq Nat
      /\ rank \in [Node -> Node] /\ nodeAtRank \in [Node -> Node \cup {-1}]
      /\ u \in Roots /\ r \in Node /\ r \in Nat
  BY <1>1, <1>2 DEF CycleInv, Types, Roots, Node
<1>4. /\ \A w \in Node : rank'[w] = IF w = u THEN r ELSE rank[w]
      /\ \A q \in Node : nodeAtRank'[q] = IF q = r THEN u ELSE nodeAtRank[q]
  BY <1>1, <1>3
<1>5. Roots' = Roots /\ \A w \in Node : Succ(w)' = Succ(w) /\ Pred(w)' = Pred(w)
  BY <1>1 DEF Roots, Succ, Pred
<1>6. Types'
  BY <1>1, <1>3, <1>5 DEF CycleInv, Types
<1>7. GroupsLinked' /\ InMatchesOut'
  <2>1. InMatchesOut'
    BY <1>3, <1>5 DEF CycleInv, InMatchesOut
  <2>2. GroupsLinked'
    BY <1>1 DEF CycleInv, GroupsLinked, Succ
  <2> QED
    BY <2>1, <2>2
<1>8. Ranked'
  <2>1. ASSUME NEW w \in Roots \ left' PROVE nodeAtRank'[rank'[w]] = w /\ rank'[w] \notin slots'
    <3>1. CASE w = u
      BY <1>1, <1>3, <1>4, <3>1
    <3>2. CASE w # u
      <4>1. w \in Roots \ left /\ rank[w] \notin slots /\ nodeAtRank[rank[w]] = w /\ rank[w] \in Node
        BY <1>1, <1>3, <2>1, <3>2 DEF CycleInv, Ranked
      <4> QED
        BY <1>1, <1>2, <1>3, <1>4, <3>2, <4>1
    <3> QED
      BY <3>1, <3>2
  <2>2. ASSUME NEW q \in Node \ slots', nodeAtRank'[q] # -1
        PROVE  nodeAtRank'[q] \in Roots \ left' /\ rank'[nodeAtRank'[q]] = q
    <3>1. CASE q = r
      BY <1>1, <1>3, <1>4, <3>1
    <3>2. CASE q # r
      <4>1. q \notin slots /\ nodeAtRank'[q] = nodeAtRank[q]
        BY <1>1, <1>4, <2>2, <3>2
      <4>2. nodeAtRank[q] \in Roots \ left /\ rank[nodeAtRank[q]] = q
        BY <2>2, <4>1 DEF CycleInv, Ranked
      <4> QED
        BY <1>1, <1>3, <1>4, <4>1, <4>2
    <3> QED
      BY <3>1, <3>2
  <2> QED
    BY <1>5, <2>1, <2>2 DEF Ranked
<1>9. Ordered'
  <2>1. ASSUME NEW x \in Roots, NEW y \in Roots, x # y, y \in Succ(x)
        PROVE  /\ x \notin left' /\ y \notin left' => rank'[x] < rank'[y]
               /\ x \notin left' /\ y \in left' => \A q \in slots' : rank'[x] < q
               /\ x \in left' /\ y \notin left' => \A q \in slots' : q < rank'[y]
    <3>1. CASE x = u
      BY <1>1, <1>2, <1>3, <1>4, <2>1, <3>1 DEF CycleInv, Ordered
    <3>2. CASE y = u
      BY <1>1, <1>2, <1>3, <1>4, <2>1, <3>2 DEF CycleInv, Ordered
    <3>3. CASE x # u /\ y # u
      BY <1>1, <1>3, <1>4, <2>1, <3>3 DEF CycleInv, Ordered
    <3> QED
      BY <3>1, <3>2, <3>3
  <2> QED
    BY <1>3, <1>5, <2>1 DEF Ordered
<1>10. Sortable'
  <2>1. PICK m \in Nat, S \in SUBSET Node : Window(m, S)
    BY DEF CycleInv, Sortable
  <2>2. \A w : Succ(w)' = Succ(w)
    BY <1>1 DEF Succ
  <2>3. \A w \in left' : w \in left /\ rank'[w] = rank[w]
    BY <1>1, <1>3, <1>4
  <2>4. Window(m, S)'
    BY <2>1, <2>2, <2>3 DEF Window
  <2> QED
    BY <2>4 DEF Sortable
<1>11. Balanced'
  <2>1. IsFiniteSet(slots) /\ IsFiniteSet(left) /\ Cardinality(slots) = Cardinality(left)
    BY DEF CycleInv, Balanced
  <2>2. IsFiniteSet(slots \ {r}) /\ Cardinality(slots \ {r}) = Cardinality(slots) - 1
    BY <1>2, <2>1, FS_RemoveElement
  <2>3. IsFiniteSet(left \ {u}) /\ Cardinality(left \ {u}) = Cardinality(left) - 1
    BY <1>1, <2>1, FS_RemoveElement
  <2> QED
    BY <1>1, <2>1, <2>2, <2>3 DEF Balanced
<1> QED
  BY <1>6, <1>7, <1>8, <1>9, <1>10, <1>11 DEF CycleInv

\* The sort has placed all the nodes when it ends.
LEMMA ReorderEndsCycles == CycleInv /\ ReorderEnds => CycleInv'
<1> SUFFICES ASSUME CycleInv, ReorderEnds PROVE CycleInv'
  OBVIOUS
<1>1. left = {}
  BY OneIsReady DEF ReorderEnds
<1>2. slots = {}
  BY <1>1, FS_EmptySet DEF CycleInv, Balanced
<1>3. UNCHANGED << edges, root, rank, nodeAtRank, out, in, slots, left >> /\ pc' = "idle"
  BY <1>1, <1>2 DEF ReorderEnds
<1>4. Roots' = Roots /\ \A w : Succ(w)' = Succ(w) /\ Pred(w)' = Pred(w)
  BY <1>3 DEF Roots, Succ, Pred
<1>5. Types' /\ GroupsLinked' /\ InMatchesOut'
  BY <1>1, <1>2, <1>3, <1>4 DEF CycleInv, Types, GroupsLinked, InMatchesOut
<1>6. Ranked' /\ Ordered' /\ Sortable' /\ Balanced'
  BY <1>3, <1>4 DEF CycleInv, Ranked, Ordered, Sortable, Window, Balanced
<1> QED
  BY <1>5, <1>6 DEF CycleInv

-----------------------------------------------------------------------------
\* The groups and their edges after a merge.
LEMMA UniteCycles ==
    ASSUME CycleInv, NEW s \in Roots, NEW t \in Roots, s # t, Unite(s, t), edges' = edges
    PROVE  /\ Roots' = Roots \ {t} /\ root' \in [Node -> Node]
           /\ \A x \in Node : root'[root'[x]] = root'[x]
           /\ out' \in [Node -> SUBSET Node] /\ in' \in [Node -> SUBSET Node]
           /\ \A u, v \in Roots \ {t} : u # v =>
                 (v \in Succ(u)' <=> \/ v \in Succ(u)
                                     \/ u = s /\ v \in Succ(t)
                                     \/ v = s /\ t \in Succ(u))
           /\ InMatchesOut' /\ GroupsLinked'
<1>1. /\ root \in [Node -> Node] /\ \A x \in Node : root[root[x]] = root[x]
      /\ out \in [Node -> SUBSET Node] /\ in \in [Node -> SUBSET Node]
      /\ s \in Node /\ t \in Node /\ root[s] = s /\ root[t] = t
  BY DEF CycleInv, Types, Roots
<1>2. /\ root' \in [Node -> Node]
      /\ \A x \in Node : root'[x] = IF root[x] = t THEN s ELSE root[x]
  BY <1>1 DEF Unite
<1>3. Roots' = Roots \ {t} /\ \A x \in Node : root'[root'[x]] = root'[x]
  BY <1>1, <1>2 DEF Roots
<1>4. \A u \in Node : Succ(u) \subseteq Node /\ Pred(u) \subseteq Node
  BY <1>1 DEF Succ, Pred
<1>5. /\ out' \in [Node -> SUBSET Node] /\ in' \in [Node -> SUBSET Node]
      /\ out'[s] = (out[s] \cup Succ(t)) \ {s, t}
      /\ in'[s] = (in[s] \cup Pred(t)) \ {s, t}
      /\ \A u \in Node : u # s =>
            /\ out'[u] = IF u \in Pred(t) \ {t} THEN (out[u] \ {t}) \cup {s} ELSE out[u]
            /\ in'[u] = IF u \in Succ(t) \ {t} THEN (in[u] \ {t}) \cup {s} ELSE in[u]
  BY <1>1, <1>4 DEF Unite
<1>6. ASSUME NEW u \in Roots \ {t}, NEW v \in Roots \ {t}, u # v
      PROVE  v \in Succ(u)' <=> v \in Succ(u) \/ (u = s /\ v \in Succ(t)) \/ (v = s /\ t \in Succ(u))
  <2>1. v \in Succ(u)' <=> \E x \in out'[u] : root'[x] = v
    BY DEF Succ
  <2>2. \A w : w \in Succ(u) <=> \E x \in out[u] : root[x] = w
    BY DEF Succ
  <2>3. \A w : w \in Succ(t) => w \in Node /\ root[w] = w
    BY <1>1 DEF Succ
  <2>4. u \in Node /\ v \in Node /\ root[u] = u /\ root[v] = v /\ out[u] \subseteq Node
    BY <1>1 DEF Roots
  <2>5. CASE u = s
    BY <1>1, <1>2, <1>5, <1>6, <2>1, <2>2, <2>3, <2>4, <2>5
  <2>6. CASE u # s
    <3>1. u \in Pred(t) <=> t \in Succ(u)
      BY <1>6 DEF CycleInv, InMatchesOut
    <3> QED
      BY <1>1, <1>2, <1>5, <1>6, <2>1, <2>2, <2>4, <2>6, <3>1
  <2> QED
    BY <2>5, <2>6
<1>7. ASSUME NEW u \in Roots \ {t}, NEW v \in Roots \ {t}, u # v
      PROVE  u \in Pred(v)' <=> u \in Pred(v) \/ (v = s /\ u \in Pred(t)) \/ (u = s /\ t \in Pred(v))
  <2>1. u \in Pred(v)' <=> \E x \in in'[v] : root'[x] = u
    BY DEF Pred
  <2>2. \A w : w \in Pred(v) <=> \E x \in in[v] : root[x] = w
    BY DEF Pred
  <2>3. \A w : w \in Pred(t) => w \in Node /\ root[w] = w
    BY <1>1 DEF Pred
  <2>4. u \in Node /\ v \in Node /\ root[u] = u /\ root[v] = v /\ in[v] \subseteq Node
    BY <1>1 DEF Roots
  <2>5. CASE v = s
    BY <1>1, <1>2, <1>5, <1>7, <2>1, <2>2, <2>3, <2>4, <2>5
  <2>6. CASE v # s
    <3>1. v \in Succ(t) <=> t \in Pred(v)
      BY <1>7 DEF CycleInv, InMatchesOut
    <3> QED
      BY <1>1, <1>2, <1>5, <1>7, <2>1, <2>2, <2>4, <2>6, <3>1
  <2> QED
    BY <2>5, <2>6
<1>8. InMatchesOut'
  <2>1. ASSUME NEW u \in Roots \ {t}, NEW v \in Roots \ {t}, u # v
        PROVE  v \in Succ(u)' <=> u \in Pred(v)'
    <3>1. (v \in Succ(u) <=> u \in Pred(v)) /\ (t \in Succ(u) <=> u \in Pred(t))
          /\ (v \in Succ(t) <=> t \in Pred(v))
      BY <2>1 DEF CycleInv, InMatchesOut
    <3> QED
      BY <1>6, <1>7, <2>1, <3>1
  <2> QED
    BY <1>3, <2>1 DEF InMatchesOut
<1>9. GroupsLinked'
  <2>1. ASSUME NEW e \in edges, root'[e[1]] # root'[e[2]]
        PROVE  \E x \in out'[root'[e[1]]] : root'[x] = root'[e[2]]
    <3>1. e[1] \in Node /\ e[2] \in Node
      BY GraphAssumption DEF CycleInv, Types
    <3>2. root[e[2]] \in Succ(root[e[1]]) /\ root[e[1]] # root[e[2]]
      BY <1>2, <2>1, <3>1 DEF CycleInv, GroupsLinked
    <3>3. PICK u \in Roots \ {t}, v \in Roots \ {t} : root'[e[1]] = u /\ root'[e[2]] = v
      BY <1>1, <1>2, <3>1 DEF Roots
    <3>4. v \in Succ(u)'
      BY <1>2, <1>6, <2>1, <3>1, <3>2, <3>3
    <3> QED
      BY <3>3, <3>4 DEF Succ
  <2> QED
    BY <2>1 DEF GroupsLinked, Succ
<1> QED
  BY <1>2, <1>3, <1>5, <1>6, <1>8, <1>9

\* Between merges the ranks are distinct and in order.
LEMMA BetweenMerges ==
    ASSUME CycleInv, pc = "idle"
    PROVE  /\ slots = {} /\ left = {}
           /\ \A u \in Roots : rank[u] \in Node /\ nodeAtRank[rank[u]] = u
           /\ \A u, v \in Roots : rank[u] = rank[v] => u = v
           /\ \A u, v \in Roots : u # v /\ v \in Succ(u) => rank[u] < rank[v]
           /\ \A r \in Node : nodeAtRank[r] # -1 => nodeAtRank[r] \in Roots /\ rank[nodeAtRank[r]] = r
<1>1. slots = {} /\ left = {} /\ rank \in [Node -> Node] /\ Roots \subseteq Node
  BY DEF CycleInv, Types, Roots
<1>2. \A u \in Roots : rank[u] \in Node /\ nodeAtRank[rank[u]] = u
  BY <1>1 DEF CycleInv, Ranked
<1>3. \A u, v \in Roots : u # v /\ v \in Succ(u) => rank[u] < rank[v]
  BY <1>1 DEF CycleInv, Ordered
<1>4. \A r \in Node : nodeAtRank[r] # -1 => nodeAtRank[r] \in Roots /\ rank[nodeAtRank[r]] = r
  BY <1>1 DEF CycleInv, Ranked
<1> QED
  BY <1>1, <1>2, <1>3, <1>4

\* The merge moves s, the surviving one of lo and hi, down to the rank of lo.
LEMMA MoveDownCycles ==
    ASSUME CycleInv, pc = "idle", edges' = edges,
           NEW s \in Roots, NEW t \in Roots, NEW lo \in Roots, NEW hi \in Roots,
           {s, t} = {lo, hi}, s # t, rank[lo] < rank[hi],
           Unite(s, t), MoveDown(s, t, lo), ~ReachesWithinWindow(lo, hi)
    PROVE  CycleInv'
<1>1. /\ Roots' = Roots \ {t} /\ root' \in [Node -> Node]
      /\ \A x \in Node : root'[root'[x]] = root'[x]
      /\ out' \in [Node -> SUBSET Node] /\ in' \in [Node -> SUBSET Node]
      /\ InMatchesOut' /\ GroupsLinked'
  BY UniteCycles
<1>2. ASSUME NEW u \in Roots \ {t}, NEW v \in Roots \ {t}, u # v, v \in Succ(u)'
      PROVE  v \in Succ(u) \/ (u = s /\ v \in Succ(t)) \/ (v = s /\ t \in Succ(u))
  BY <1>2, UniteCycles
<1>3. /\ \A u \in Roots : rank[u] \in Node /\ nodeAtRank[rank[u]] = u
      /\ \A u, v \in Roots : rank[u] = rank[v] => u = v
      /\ \A u, v \in Roots : u # v /\ v \in Succ(u) => rank[u] < rank[v]
      /\ \A r \in Node : nodeAtRank[r] # -1 => nodeAtRank[r] \in Roots /\ rank[nodeAtRank[r]] = r
      /\ slots = {} /\ left = {}
  BY BetweenMerges
<1>4. /\ Roots \subseteq Node /\ Node \subseteq Nat /\ rank \in [Node -> Node] /\ edges \in Graphs
      /\ nodeAtRank \in [Node -> Node \cup {-1}] /\ in \in [Node -> SUBSET Node]
      /\ root \in [Node -> Node]
  BY DEF CycleInv, Types, Roots, Node
<1>5. /\ pc' = "idle" /\ slots' = {} /\ left' = {}
      /\ \A w \in Node : rank'[w] = IF w = s THEN rank[lo] ELSE rank[w]
      /\ \A r \in Node : nodeAtRank'[r] = IF r = rank[lo] THEN s
                                          ELSE IF r = rank[hi] THEN -1 ELSE nodeAtRank[r]
      /\ rank' \in [Node -> Node] /\ nodeAtRank' \in [Node -> Node \cup {-1}]
  BY <1>3, <1>4 DEF MoveDown
<1>6. Types'
  BY <1>1, <1>4, <1>5 DEF Types
<1>7. Ranked'
  <2>1. ASSUME NEW u \in Roots \ {t} PROVE nodeAtRank'[rank'[u]] = u
    <3>1. CASE u = s
      BY <1>3, <1>4, <1>5, <3>1
    <3>2. CASE u # s
      <4>1. u # lo /\ u # hi
        BY <3>2
      <4>2. rank[u] # rank[lo] /\ rank[u] # rank[hi] /\ rank[u] \in Node
        BY <1>3, <4>1
      <4>3. rank'[u] = rank[u] /\ nodeAtRank'[rank[u]] = nodeAtRank[rank[u]]
        BY <1>4, <1>5, <3>2, <4>2
      <4> QED
        BY <1>3, <4>3
    <3> QED
      BY <3>1, <3>2
  <2>2. ASSUME NEW r \in Node, nodeAtRank'[r] # -1
        PROVE  nodeAtRank'[r] \in Roots \ {t} /\ rank'[nodeAtRank'[r]] = r
    <3>1. CASE r = rank[lo]
      BY <1>3, <1>4, <1>5, <3>1
    <3>2. CASE r # rank[lo]
      <4>1. r # rank[hi] /\ nodeAtRank'[r] = nodeAtRank[r]
        BY <1>5, <2>2, <3>2
      <4>2. nodeAtRank[r] \in Roots /\ rank[nodeAtRank[r]] = r
        BY <1>3, <2>2, <4>1
      <4>3. nodeAtRank[r] # lo /\ nodeAtRank[r] # hi
        BY <3>2, <4>1, <4>2
      <4>4. nodeAtRank[r] # s /\ nodeAtRank[r] # t
        BY <4>3
      <4> QED
        BY <1>4, <1>5, <4>1, <4>2, <4>4
    <3> QED
      BY <3>1, <3>2
  <2> QED
    BY <1>1, <1>5, <2>1, <2>2 DEF Ranked
<1>8. ASSUME NEW u \in Roots \ {s, t}, hi \in Succ(u) PROVE rank[u] < rank[lo]
  <2>1. PICK x \in in[hi] : root[x] = u
    BY <1>8 DEF CycleInv, InMatchesOut, Pred
  <2>2. x \in Node /\ x # s /\ x # t /\ root'[x] = u
    BY <1>4, <1>8, <2>1 DEF Unite, Roots
  <2>3. x \in in'[hi]
    BY <1>4, <2>1, <2>2 DEF Unite
  <2>4. ~(rank[lo] < rank[u] /\ rank[u] < rank[hi])
    BY <1>8, <2>2, <2>3 DEF ReachesWithinWindow
  <2>5. rank[u] \in Nat /\ rank[lo] \in Nat /\ rank[hi] \in Nat /\ rank[u] < rank[hi] /\ rank[u] # rank[lo]
    BY <1>3, <1>4, <1>8
  <2> QED
    BY <2>4, <2>5
<1>9. Ordered'
  <2>1. ASSUME NEW u \in Roots \ {t}, NEW v \in Roots \ {t}, u # v, v \in Succ(u)'
        PROVE  rank'[u] < rank'[v]
    <3>1. rank[u] \in Nat /\ rank[v] \in Nat /\ rank[lo] \in Nat /\ rank[hi] \in Nat
      BY <1>3, <1>4
    <3>2. CASE u = s
      <4>1. v # lo /\ v # hi /\ (v \in Succ(lo) \/ v \in Succ(hi))
        BY <1>2, <2>1, <3>2
      <4>2. rank[lo] < rank[v]
        BY <1>3, <3>1, <4>1
      <4> QED
        BY <1>4, <1>5, <2>1, <3>2, <4>2
    <3>3. CASE v = s
      <4>1. u # lo /\ u # hi /\ (lo \in Succ(u) \/ hi \in Succ(u))
        BY <1>2, <2>1, <3>3
      <4>2. rank[u] < rank[lo]
        BY <1>3, <1>8, <2>1, <4>1
      <4> QED
        BY <1>4, <1>5, <2>1, <3>3, <4>2
    <3>4. CASE u # s /\ v # s
      BY <1>2, <1>3, <1>4, <1>5, <2>1, <3>4
    <3> QED
      BY <3>2, <3>3, <3>4
  <2> QED
    BY <1>1, <1>5, <2>1 DEF Ordered
<1>10. Sortable' /\ Balanced'
  BY <1>5, FS_EmptySet DEF Sortable, Window, Balanced
<1> QED
  BY <1>1, <1>6, <1>7, <1>9, <1>10 DEF CycleInv

\* The merge takes the nodes of the window out of their places.
LEMMA StartReorderCycles ==
    ASSUME CycleInv, pc = "idle", edges' = edges,
           NEW s \in Roots, NEW t \in Roots, NEW lo \in Roots, NEW hi \in Roots,
           {s, t} = {lo, hi}, s # t, rank[lo] < rank[hi],
           ~HasIntermediatePath(lo, hi),
           Unite(s, t), StartReorder(t, lo, hi)
    PROVE  CycleInv'
<1>1. /\ Roots' = Roots \ {t} /\ root' \in [Node -> Node]
      /\ \A x \in Node : root'[root'[x]] = root'[x]
      /\ out' \in [Node -> SUBSET Node] /\ in' \in [Node -> SUBSET Node]
      /\ InMatchesOut' /\ GroupsLinked'
  BY UniteCycles
<1>2. ASSUME NEW u \in Roots \ {t}, NEW v \in Roots \ {t}, u # v, v \in Succ(u)'
      PROVE  v \in Succ(u) \/ (u = s /\ v \in Succ(t)) \/ (v = s /\ t \in Succ(u))
  BY <1>2, UniteCycles
<1>3. /\ \A u \in Roots : rank[u] \in Node /\ nodeAtRank[rank[u]] = u
      /\ \A u, v \in Roots : rank[u] = rank[v] => u = v
      /\ \A u, v \in Roots : u # v /\ v \in Succ(u) => rank[u] < rank[v]
      /\ \A r \in Node : nodeAtRank[r] # -1 => nodeAtRank[r] \in Roots /\ rank[nodeAtRank[r]] = r
  BY BetweenMerges
<1>4. /\ Roots \subseteq Node /\ Node \subseteq Nat /\ rank \in [Node -> Node] /\ edges \in Graphs
      /\ nodeAtRank \in [Node -> Node \cup {-1}]
  BY DEF CycleInv, Types, Roots, Node
<1>5. /\ pc' = "reorder" /\ rank' = rank
      /\ nodeAtRank' \in [Node -> Node \cup {-1}]
      /\ \A r \in Node : nodeAtRank'[r] = IF r = rank[t] THEN -1 ELSE nodeAtRank[r]
      /\ slots' = { r \in rank[lo]..rank[hi] : nodeAtRank'[r] # -1 }
      /\ left' = { nodeAtRank'[r] : r \in slots' }
  BY <1>4 DEF StartReorder
<1>6. rank[lo]..rank[hi] \subseteq Node
  <2>1. rank[lo] \in Node /\ rank[hi] \in Node
    BY <1>3
  <2>2. \A x, y \in Node : x..y \subseteq Node
    BY GraphAssumption DEF Node
  <2> QED
    BY <2>1, <2>2
<1>7. ASSUME NEW u \in Roots \ {t}
      PROVE  /\ nodeAtRank'[rank[u]] = u /\ rank[u] \in Node
             /\ rank[u] \in slots' <=> rank[u] \in rank[lo]..rank[hi]
             /\ u \in left' <=> rank[u] \in slots'
  <2>1. rank[u] # rank[t] /\ rank[u] \in Node
    BY <1>3
  <2>2. nodeAtRank'[rank[u]] = u /\ u # -1
    <3>1. nodeAtRank'[rank[u]] = nodeAtRank[rank[u]]
      BY <1>5, <2>1
    <3>2. nodeAtRank[rank[u]] = u
      BY <1>3
    <3>3. u \in Nat
      BY <1>4
    <3> QED
      BY <3>1, <3>2, <3>3
  <2>3. ASSUME NEW r \in slots', u = nodeAtRank'[r] PROVE rank[u] = r
    BY <1>3, <1>4, <1>5, <1>6, <2>2, <2>3
  <2> QED
    BY <1>5, <2>1, <2>2, <2>3
<1>8. ASSUME NEW r \in slots'
      PROVE  /\ r \in Node /\ r \in rank[lo]..rank[hi]
             /\ nodeAtRank'[r] \in Roots \ {t} /\ rank[nodeAtRank'[r]] = r
  <2>1. r \in Node /\ r \in rank[lo]..rank[hi] /\ nodeAtRank'[r] # -1
    BY <1>5, <1>6
  <2>2. r # rank[t] /\ nodeAtRank'[r] = nodeAtRank[r]
    BY <1>5, <2>1
  <2> QED
    BY <1>3, <2>1, <2>2
<1>9. left' \subseteq Roots \ {t} /\ slots' \subseteq Node
  BY <1>5, <1>8
<1>10. Types'
  BY <1>1, <1>4, <1>5, <1>9 DEF Types
<1>11. Ranked'
  <2>1. ASSUME NEW r \in Node \ slots', nodeAtRank'[r] # -1
        PROVE  nodeAtRank'[r] \in (Roots \ {t}) \ left' /\ rank[nodeAtRank'[r]] = r
    <3>1. r # rank[t] /\ nodeAtRank'[r] = nodeAtRank[r]
      BY <1>5, <2>1
    <3>2. nodeAtRank[r] \in Roots /\ rank[nodeAtRank[r]] = r
      BY <1>3, <2>1, <3>1
    <3>3. nodeAtRank[r] \in Roots \ {t}
      BY <3>1, <3>2
    <3> QED
      BY <1>7, <2>1, <3>1, <3>2, <3>3
  <2> QED
    BY <1>1, <1>5, <1>7, <2>1 DEF Ranked
<1>12. Balanced'
  <2> DEFINE f == [r \in slots' |-> nodeAtRank'[r]]
  <2>1. IsFiniteSet(slots')
    <3>1. rank[lo] \in Int /\ rank[hi] \in Int
      <4>1. rank[lo] \in Node /\ rank[hi] \in Node
        BY <1>3
      <4>2. \A x \in Node : x \in Int
        BY <1>4
      <4> QED
        BY <4>1, <4>2
    <3>2. IsFiniteSet(rank[lo]..rank[hi])
      BY <3>1, FS_Interval
    <3> QED
      BY <1>5, <3>2, FS_Subset
  <2>2. f \in [slots' -> left'] /\ \A u \in left' : \E r \in slots' : f[r] = u
    BY <1>5
  <2>3. \A q, r \in slots' : f[q] = f[r] => q = r
    BY <1>8
  <2>4. f \in Bijection(slots', left')
    BY <2>2, <2>3 DEF Bijection, Injection, Surjection, IsInjective
  <2>5. ExistsBijection(slots', left')
    BY <2>4 DEF ExistsBijection
  <2> QED
    BY <2>1, <2>5, FS_Bijection DEF Balanced
<1>13. ASSUME NEW u \in Roots \ {t}
       PROVE  /\ rank[u] \in Nat /\ rank[lo] \in Nat /\ rank[hi] \in Nat
              /\ (u \in left') <=> (rank[lo] <= rank[u] /\ rank[u] <= rank[hi])
  <2>1. rank[u] \in Node /\ rank[lo] \in Node /\ rank[hi] \in Node
    BY <1>3
  <2>2. rank[u] \in Nat /\ rank[lo] \in Nat /\ rank[hi] \in Nat
    BY <1>4, <2>1
  <2>3. (u \in left') <=> (rank[u] \in rank[lo]..rank[hi])
    BY <1>7
  <2> QED
    BY <2>2, <2>3
<1>14. s \in left'
  BY <1>13
<1>15. Ordered'
  <2>1. ASSUME NEW u \in Roots \ {t}, NEW v \in Roots \ {t}, u # v, v \in Succ(u)'
        PROVE  /\ u \notin left' /\ v \notin left' => rank[u] < rank[v]
               /\ u \notin left' /\ v \in left' => rank[u] < rank[lo]
               /\ u \in left' /\ v \notin left' => rank[hi] < rank[v]
    <3>1. CASE u = s
      <4>1. v # lo /\ v # hi /\ (v \in Succ(lo) \/ v \in Succ(hi))
        BY <1>2, <2>1, <3>1
      <4>2. rank[lo] < rank[v]
        BY <1>3, <1>13, <4>1
      <4> QED
        BY <1>13, <1>14, <3>1, <4>2
    <3>2. CASE v = s
      <4>1. u # lo /\ u # hi /\ (lo \in Succ(u) \/ hi \in Succ(u))
        BY <1>2, <2>1, <3>2
      <4>2. rank[u] < rank[hi]
        BY <1>3, <1>13, <4>1
      <4> QED
        BY <1>13, <1>14, <3>2, <4>2
    <3>3. CASE u # s /\ v # s
      <4>1. rank[u] < rank[v]
        BY <1>2, <1>3, <2>1, <3>3
      <4> QED
        BY <1>13, <4>1
    <3> QED
      BY <3>1, <3>2, <3>3
  <2>2. \A r \in slots' : r \in Nat /\ rank[lo] <= r /\ r <= rank[hi]
    BY <1>4, <1>8
  <2>3. \A u \in Roots \ {t} : rank[u] \in Nat /\ rank[lo] \in Nat /\ rank[hi] \in Nat
    BY <1>13
  <2> QED
    BY <1>1, <1>5, <2>1, <2>2, <2>3 DEF Ordered
<1>16. Sortable'
  <2>1. PICK S \in SUBSET Node : Visited(S, lo, hi) /\ \A u \in S \ {lo} : hi \notin Succ(u)
    BY DEF HasIntermediatePath
  <2>2. ASSUME NEW u \in left' \ {s}
        PROVE  /\ u \in Roots \ {t} /\ u # lo /\ u # hi
               /\ rank[lo] < rank[u] /\ rank[u] < rank[hi]
    <3>1. u \in Roots \ {t} /\ u # lo /\ u # hi
      BY <1>9
    <3> QED
      BY <1>3, <1>13, <3>1
  <2>3. ASSUME NEW u \in left' \ {s}, NEW v \in left' \ {s}, u # v, v \in Succ(u)'
        PROVE  v \in Succ(u) /\ rank[u] < rank[v]
    BY <1>2, <1>3, <2>2, <2>3
  <2>4. ASSUME NEW v \in left' \ {s}, v \in Succ(s)' PROVE v \in S
    <3>1. v \in Succ(lo) \/ v \in Succ(hi)
      BY <1>2, <2>2, <2>4
    <3>2. v \in Succ(lo)
      BY <1>3, <1>13, <2>2, <3>1
    <3> QED
      BY <1>13, <2>1, <2>2, <3>2 DEF Visited, Beyond
  <2>5. ASSUME NEW u \in S, u \in left' \ {s} PROVE s \notin Succ(u)'
    <3>1. SUFFICES ASSUME s \in Succ(u)' PROVE FALSE
      OBVIOUS
    <3>2. lo \in Succ(u) \/ hi \in Succ(u)
      BY <1>2, <2>2, <2>5, <3>1
    <3>3. lo \in Succ(u)
      BY <2>1, <2>2, <2>5, <3>2
    <3> QED
      BY <1>3, <1>13, <2>2, <2>5, <3>3
  <2>6. ASSUME NEW u \in S, u \in left' \ {s}, NEW v \in left' \ {s}, v \in Succ(u)', u # v
        PROVE  v \in S
    <3>1. v \in Succ(u)
      BY <2>3, <2>6
    <3> QED
      BY <1>13, <2>1, <2>2, <2>6, <3>1 DEF Visited, Beyond
  <2>7. Window(s, S)'
    BY <1>5, <2>3, <2>4, <2>5, <2>6 DEF Window
  <2> QED
    BY <1>4, <2>7 DEF Sortable
<1> QED
  BY <1>1, <1>10, <1>11, <1>12, <1>15, <1>16 DEF CycleInv

LEMMA MergeCycles ==
    ASSUME CycleInv, NEW a \in Node, NEW b \in Node, Merge(a, b)
    PROVE  CycleInv'
<1> DEFINE s  == Survivor(a, b)
           t  == IF s = a THEN b ELSE a
           lo == Low(a, b)
           hi == High(a, b)
<1>1. /\ pc = "idle" /\ a \in Roots /\ b \in Roots /\ a # b /\ edges' = edges
      /\ ~HasIntermediatePath(lo, hi) /\ Unite(s, t)
      /\ IF ReachesWithinWindow(lo, hi) THEN StartReorder(t, lo, hi) ELSE MoveDown(s, t, lo)
  BY DEF Merge, Roots, wouldCreateCycle
<1>2. s \in {a, b} /\ {s, t} = {a, b} /\ s # t
  BY <1>1 DEF Survivor
<1>3. {lo, hi} = {a, b}
  BY DEF Low, High
<1>4. rank[a] # rank[b] /\ rank[a] \in Nat /\ rank[b] \in Nat
  BY <1>1, BetweenMerges DEF Node
<1>5. rank[lo] < rank[hi]
  BY <1>4 DEF Low, High
<1>6. /\ s \in Roots /\ t \in Roots /\ lo \in Roots /\ hi \in Roots /\ {s, t} = {lo, hi}
  BY <1>1, <1>2, <1>3
<1> HIDE DEF s, t, lo, hi
<1>7. CASE ReachesWithinWindow(lo, hi)
  BY <1>1, <1>2, <1>5, <1>6, <1>7, StartReorderCycles
<1>8. CASE ~ReachesWithinWindow(lo, hi)
  BY <1>1, <1>2, <1>5, <1>6, <1>8, MoveDownCycles
<1> QED
  BY <1>7, <1>8

LEMMA NextCycles == CycleInv /\ [Next]_vars => CycleInv'
<1> SUFFICES ASSUME CycleInv, [Next]_vars PROVE CycleInv'
  OBVIOUS
<1>1. CASE Next
  BY <1>1, MergeCycles, PlaceNextCycles, ReorderEndsCycles DEF Next
<1>2. CASE UNCHANGED vars
  <2>1. Roots' = Roots /\ \A w : Succ(w)' = Succ(w) /\ Pred(w)' = Pred(w)
    BY <1>2 DEF vars, Roots, Succ, Pred
  <2> QED
    BY <1>2, <2>1 DEF vars, CycleInv, Types, GroupsLinked, InMatchesOut, Ranked, Ordered,
                      Sortable, Window, Balanced
<1> QED
  BY <1>1, <1>2

(* On every graph and after any merges that wouldCreateCycle allows, the    *)
(* ranks of GraphCycles are a topological order of the groups.              *)
THEOREM CyclesTopoOrder == Spec => []TopoOrder
<1>1. CycleInv => TopoOrder
  <2> SUFFICES ASSUME CycleInv, pc = "idle",
                      NEW e \in edges, root[e[1]] # root[e[2]]
               PROVE  rank[root[e[1]]] < rank[root[e[2]]]
    BY DEF TopoOrder
  <2>1. e[1] \in Node /\ e[2] \in Node
    BY GraphAssumption DEF CycleInv, Types
  <2>2. root[e[1]] \in Roots /\ root[e[2]] \in Roots
    BY <2>1 DEF CycleInv, Types, Roots
  <2>3. root[e[2]] \in Succ(root[e[1]])
    BY DEF CycleInv, GroupsLinked
  <2> QED
    BY <2>2, <2>3, BetweenMerges
<1> QED
  BY <1>1, InitCycles, NextCycles, PTL DEF Spec

(* The sort of a window (_reorder) places every node of it: it always finds *)
(* a node that is ready and a rank that is free.                            *)
THEOREM CyclesReorderCompletes == Spec => []ReorderCompletes
<1>1. CycleInv => ReorderCompletes
  BY OneIsReady, OneIsFree DEF ReorderCompletes
<1> QED
  BY <1>1, InitCycles, NextCycles, PTL DEF Spec

-----------------------------------------------------------------------------
(* The search against paths in the graph of the groups.                     *)

\* The other half of GroupsLinked: an edge between two groups is an edge of the graph.
LinksAreEdges == \A u, v \in Roots : u # v /\ v \in Succ(u) => << u, v >> \in GroupEdges

LEMMA EdgeOfGroups ==
    ASSUME NEW u, NEW v
    PROVE  << u, v >> \in GroupEdges <=> u # v /\ \E e \in edges : u = root[e[1]] /\ v = root[e[2]]
  BY DEF GroupEdges

LEMMA InitLinks == Init => LinksAreEdges
<1> SUFFICES ASSUME Init, NEW u \in Roots, NEW v \in Roots, u # v, v \in Succ(u)
             PROVE  << u, v >> \in GroupEdges
  BY DEF LinksAreEdges
<1>1. /\ u \in Node /\ v \in Node /\ \A x \in Node : root[x] = x
      /\ out[u] = { x \in Node : << u, x >> \in edges }
  BY DEF Init, Roots
<1>2. << u, v >> \in edges
  BY <1>1 DEF Succ
<1> QED
  BY <1>1, <1>2, EdgeOfGroups

LEMMA MergeLinks ==
    ASSUME CycleInv, LinksAreEdges, NEW a \in Node, NEW b \in Node, Merge(a, b)
    PROVE  LinksAreEdges'
<1> DEFINE s == Survivor(a, b)
           t == IF s = a THEN b ELSE a
<1>1. a \in Roots /\ b \in Roots /\ a # b /\ edges' = edges /\ Unite(s, t)
  BY DEF Merge, Roots
<1>2. s \in Roots /\ t \in Roots /\ s # t
  BY <1>1 DEF Survivor
<1> HIDE DEF s, t
<1>3. /\ Roots' = Roots \ {t}
      /\ \A u, v \in Roots \ {t} : u # v =>
            (v \in Succ(u)' <=> v \in Succ(u) \/ (u = s /\ v \in Succ(t)) \/ (v = s /\ t \in Succ(u)))
  BY <1>1, <1>2, UniteCycles
<1>4. \A x \in Node : root'[x] = IF root[x] = t THEN s ELSE root[x]
  BY <1>1 DEF Unite
<1> SUFFICES ASSUME NEW u \in Roots \ {t}, NEW v \in Roots \ {t}, u # v, v \in Succ(u)'
             PROVE  << u, v >> \in GroupEdges'
  BY <1>3 DEF LinksAreEdges
<1>5. \A e \in edges : e[1] \in Node /\ e[2] \in Node
  BY GraphAssumption DEF CycleInv, Types
<1>6. \E x \in Roots, y \in Roots :
         /\ x = u \/ (x = t /\ u = s)
         /\ y = v \/ (y = t /\ v = s)
         /\ x # y /\ y \in Succ(x)
  BY <1>2, <1>3
<1>7. PICK x \in Roots, y \in Roots :
         /\ x = u \/ (x = t /\ u = s)
         /\ y = v \/ (y = t /\ v = s)
         /\ x # y /\ y \in Succ(x)
  BY <1>6
<1>8. << x, y >> \in GroupEdges
  BY <1>7 DEF LinksAreEdges
<1>9. PICK e \in edges : x = root[e[1]] /\ y = root[e[2]]
  BY <1>8, EdgeOfGroups
<1>10. e[1] \in Node /\ e[2] \in Node /\ edges' = edges
  BY <1>1, <1>5
<1>11. u = root'[e[1]]
  BY <1>4, <1>7, <1>9, <1>10
<1>12. v = root'[e[2]]
  BY <1>4, <1>7, <1>9, <1>10
<1> QED
  BY <1>10, <1>11, <1>12 DEF GroupEdges

LEMMA NextLinks == CycleInv /\ LinksAreEdges /\ [Next]_vars => LinksAreEdges'
<1> SUFFICES ASSUME CycleInv, LinksAreEdges, [Next]_vars PROVE LinksAreEdges'
  OBVIOUS
<1>1. ASSUME UNCHANGED << edges, root, out >> PROVE LinksAreEdges'
  BY <1>1 DEF LinksAreEdges, Roots, Succ, GroupEdges
<1> QED
  BY <1>1, MergeLinks DEF Next, PlaceNext, ReorderEnds, vars

LEMMA CycleInvariant == Spec => [](CycleInv /\ LinksAreEdges)
  BY InitCycles, NextCycles, InitLinks, NextLinks, PTL DEF Spec

\* The recursive definition of PathsUpTo defines a function.
LEMMA PathsExist ==
    /\ PathsUpTo[0] = GroupEdges
    /\ \A k \in 1..n : PathsUpTo[k] = Longer(PathsUpTo[k - 1])
<1> DEFINE Paths(f, m) == f = [k \in 0..m |-> IF k = 0 THEN GroupEdges ELSE Longer(f[k - 1])]
           T == { m \in Nat : ~\E f : Paths(f, m) }
<1>1. ASSUME T # {} PROVE FALSE
  <2> DEFINE m == Least(T)
  <2>1. m \in T /\ \A y \in T : m <= y
    <3>1. T \subseteq Nat
      OBVIOUS
    <3> HIDE DEF T
    <3> QED
      BY <1>1, <3>1, LeastNumber
  <2> HIDE DEF m
  <2>2. m \in Nat
    BY <2>1
  <2>3. CASE m = 0
    <3>1. Paths([k \in 0..0 |-> GroupEdges], 0)
      OBVIOUS
    <3> HIDE DEF Paths
    <3> QED
      BY <2>1, <2>3, <3>1
  <2>4. CASE m # 0
    <3>1. m - 1 \in Nat /\ m - 1 \notin T
      <4> HIDE DEF T
      <4> QED
        BY <2>1, <2>2, <2>4
    <3>2. PICK f : Paths(f, m - 1)
      BY <3>1
    <3> DEFINE g == [k \in 0..m |-> IF k = m THEN Longer(f[m - 1]) ELSE f[k]]
    <3>3. \A k \in 0..(m - 1) : f[k] = IF k = 0 THEN GroupEdges ELSE Longer(f[k - 1])
      BY <3>2
    <3>4. ASSUME NEW k \in 0..m
          PROVE  g[k] = IF k = 0 THEN GroupEdges ELSE Longer(g[k - 1])
      <4>1. CASE k = m
        BY <2>2, <2>4, <3>1, <4>1
      <4>2. CASE k # m
        <5>1. k \in 0..(m - 1) /\ (k # 0 => k - 1 \in 0..m /\ k - 1 # m)
          BY <2>2, <4>2
        <5> QED
          BY <3>3, <4>2, <5>1
      <4> QED
        BY <4>1, <4>2
    <3>5. Paths(g, m)
      <4>1. g = [k \in 0..m |-> g[k]]
        OBVIOUS
      <4> HIDE DEF g
      <4> QED
        BY <3>4, <4>1
    <3> QED
      BY <2>1, <3>5
  <2> QED
    BY <2>3, <2>4
<1>2. \E f : Paths(f, n)
  BY <1>1, GraphAssumption
<1>3. Paths(PathsUpTo, n)
  BY <1>2 DEF PathsUpTo
<1> QED
  BY <1>3, GraphAssumption

\* Induction along the numbers up to n, for a set of them.
LEMMA UpToN ==
    ASSUME NEW T, 0 \in T, \A k \in 1..n : k - 1 \in T => k \in T
    PROVE  0..n \subseteq T
<1> DEFINE D == (0..n) \ T
<1> SUFFICES ASSUME D # {} PROVE FALSE
  OBVIOUS
<1>1. n \in Nat /\ D \subseteq Nat
  BY GraphAssumption
<1>2. PICK m \in D : \A y \in D : m <= y
  <2> HIDE DEF D
  <2> QED
    BY <1>1, LeastNumber
<1>3. m \in 1..n /\ m - 1 \in 0..n /\ m - 1 \notin D
  BY <1>1, <1>2
<1> QED
  BY <1>2, <1>3

\* Between merges the edges between groups are the links of the roots, and go up.
LEMMA EdgesGoUp ==
    ASSUME CycleInv, LinksAreEdges, pc = "idle"
    PROVE  /\ GroupEdges \subseteq Roots \X Roots
           /\ \A u, v : << u, v >> \in GroupEdges => v \in Succ(u) /\ rank[u] < rank[v]
           /\ \A u, v \in Roots : u # v /\ v \in Succ(u) => << u, v >> \in GroupEdges
<1>1. ASSUME NEW e \in edges PROVE root[e[1]] \in Roots /\ root[e[2]] \in Roots
  <2>1. e[1] \in Node /\ e[2] \in Node
    BY GraphAssumption DEF CycleInv, Types
  <2> QED
    BY <2>1 DEF CycleInv, Types, Roots
<1>2. GroupEdges \subseteq Roots \X Roots
  BY <1>1 DEF GroupEdges
<1>3. ASSUME NEW u, NEW v, << u, v >> \in GroupEdges PROVE v \in Succ(u) /\ rank[u] < rank[v]
  <2>1. PICK e \in edges : u = root[e[1]] /\ v = root[e[2]]
    BY <1>3, EdgeOfGroups
  <2>2. u # v /\ u \in Roots /\ v \in Roots
    BY <1>1, <1>3, <2>1, EdgeOfGroups
  <2>3. v \in Succ(u)
    BY <2>1, <2>2 DEF CycleInv, GroupsLinked
  <2> QED
    BY <2>2, <2>3, BetweenMerges
<1> QED
  BY <1>2, <1>3 DEF LinksAreEdges

\* Paths join groups and go up.
LEMMA PathsGoUp ==
    ASSUME CycleInv, LinksAreEdges, pc = "idle", NEW k \in 0..n
    PROVE  /\ PathsUpTo[k] \subseteq Roots \X Roots
           /\ \A x, y : << x, y >> \in PathsUpTo[k] => rank[x] < rank[y]
<1> DEFINE Up(j) == /\ PathsUpTo[j] \subseteq Roots \X Roots
                    /\ \A x, y : << x, y >> \in PathsUpTo[j] => rank[x] < rank[y]
           T == { j \in 0..n : Up(j) }
<1>1. 0 \in T
  BY GraphAssumption, PathsExist, EdgesGoUp
<1>2. ASSUME NEW j \in 1..n, j - 1 \in T PROVE j \in T
  <2>1. PathsUpTo[j] = Longer(PathsUpTo[j - 1])
    BY PathsExist
  <2>2. Up(j - 1)
    BY <1>2
  <2>3. ASSUME NEW q \in PathsUpTo[j - 1] \X GroupEdges, q[1][2] = q[2][1]
        PROVE  /\ q[1][1] \in Roots /\ q[2][2] \in Roots /\ rank[q[1][1]] < rank[q[2][2]]
    <3>1. /\ q[1] = << q[1][1], q[1][2] >> /\ q[1] \in PathsUpTo[j - 1]
          /\ q[1][1] \in Roots /\ q[1][2] \in Roots
      BY <2>2
    <3>2. q[2] = << q[2][1], q[2][2] >> /\ q[2] \in GroupEdges /\ q[2][2] \in Roots
      BY EdgesGoUp
    <3>3. rank[q[1][1]] < rank[q[1][2]]
      BY <2>2, <3>1
    <3>4. rank[q[2][1]] < rank[q[2][2]]
      BY <3>2, EdgesGoUp
    <3>5. rank[q[1][1]] \in Nat /\ rank[q[1][2]] \in Nat /\ rank[q[2][2]] \in Nat
      <4>1. \A r \in Roots : rank[r] \in Nat
        BY DEF CycleInv, Types, Roots, Node
      <4> QED
        BY <3>1, <3>2, <4>1
    <3> QED
      BY <2>3, <3>1, <3>2, <3>3, <3>4, <3>5
  <2>4. \A e \in PathsUpTo[j] :
            e \in PathsUpTo[j - 1] \/ \E q \in PathsUpTo[j - 1] \X GroupEdges :
                                         q[1][2] = q[2][1] /\ e = << q[1][1], q[2][2] >>
    BY <2>1 DEF Longer
  <2>5. Up(j)
    <3>1. ASSUME NEW e \in PathsUpTo[j] PROVE e \in Roots \X Roots /\ rank[e[1]] < rank[e[2]]
      <4>1. CASE e \in PathsUpTo[j - 1]
        BY <2>2, <4>1
      <4>2. CASE e \notin PathsUpTo[j - 1]
        BY <2>3, <2>4, <4>2
      <4> QED
        BY <4>1, <4>2
    <3> QED
      BY <3>1
  <2> HIDE DEF Up
  <2> QED
    BY <2>5
<1>3. 0..n \subseteq T
  <2> HIDE DEF T
  <2> QED
    BY <1>1, <1>2, UpToN
<1> QED
  BY <1>3

\* A path of at most k + 1 edges is a shorter one, or one with an edge at its end.
LEMMA LastEdge ==
    ASSUME CycleInv, LinksAreEdges, pc = "idle", NEW k \in 1..n, NEW x, NEW z
    PROVE  << x, z >> \in PathsUpTo[k] <=>
              \/ << x, z >> \in PathsUpTo[k - 1]
              \/ \E w : << x, w >> \in PathsUpTo[k - 1] /\ << w, z >> \in GroupEdges
<1>1. PathsUpTo[k] = Longer(PathsUpTo[k - 1])
  BY PathsExist
<1>2. k - 1 \in 0..n
  BY GraphAssumption
<1>3. PathsUpTo[k - 1] \subseteq Roots \X Roots /\ GroupEdges \subseteq Roots \X Roots
  BY <1>2, PathsGoUp, EdgesGoUp
<1>4. ASSUME NEW q \in PathsUpTo[k - 1] \X GroupEdges, q[1][2] = q[2][1], << x, z >> = << q[1][1], q[2][2] >>
      PROVE  << x, q[1][2] >> \in PathsUpTo[k - 1] /\ << q[1][2], z >> \in GroupEdges
  BY <1>3, <1>4
<1>5. ASSUME NEW w, << x, w >> \in PathsUpTo[k - 1], << w, z >> \in GroupEdges
      PROVE  << x, z >> \in Longer(PathsUpTo[k - 1])
  <2> DEFINE q == << << x, w >>, << w, z >> >>
  <2>1. q \in PathsUpTo[k - 1] \X GroupEdges /\ q[1][2] = q[2][1] /\ << x, z >> = << q[1][1], q[2][2] >>
    BY <1>5
  <2> HIDE DEF q
  <2> QED
    BY <2>1 DEF Longer
<1>6. ASSUME << x, z >> \in Longer(PathsUpTo[k - 1]), << x, z >> \notin PathsUpTo[k - 1]
      PROVE  \E w : << x, w >> \in PathsUpTo[k - 1] /\ << w, z >> \in GroupEdges
  <2>1. PICK q \in PathsUpTo[k - 1] \X GroupEdges : q[1][2] = q[2][1] /\ << x, z >> = << q[1][1], q[2][2] >>
    BY <1>6 DEF Longer
  <2> QED
    BY <1>4, <2>1
<1>7. << x, z >> \in PathsUpTo[k - 1] => << x, z >> \in Longer(PathsUpTo[k - 1])
  BY DEF Longer
<1> QED
  BY <1>1, <1>5, <1>6, <1>7

\* The paths are closed under one more edge: as they go up, none has n edges.
LEMMA PathsClosed ==
    ASSUME CycleInv, LinksAreEdges, pc = "idle", NEW x, NEW y, << x, y >> \in GroupPaths
    PROVE  \A z : << y, z >> \in GroupEdges => << x, z >> \in GroupPaths
<1> DEFINE Short(j) == \A u, v : << u, v >> \in PathsUpTo[j] =>
                          \E i \in 0..n : i < rank[v] - rank[u] /\ << u, v >> \in PathsUpTo[i]
           T == { j \in 0..n : Short(j) }
<1>1. n \in Nat
  BY GraphAssumption
<1>2. \A u \in Roots : rank[u] \in 0..(n - 1)
  BY DEF CycleInv, Types, Roots, Node
<1>3. 0 \in T
  <2>1. ASSUME NEW u, NEW v, << u, v >> \in PathsUpTo[0]
        PROVE  0 < rank[v] - rank[u]
    <3>1. 0 \in 0..n
      BY <1>1
    <3>2. << u, v >> \in Roots \X Roots /\ rank[u] < rank[v]
      BY <2>1, <3>1, PathsGoUp
    <3>3. rank[u] \in Nat /\ rank[v] \in Nat
      BY <1>1, <1>2, <3>2
    <3> QED
      BY <3>2, <3>3
  <2> QED
    BY <1>1, <2>1
<1>4. ASSUME NEW j \in 1..n, j - 1 \in T PROVE j \in T
  <2>1. Short(j - 1) /\ j - 1 \in 0..n /\ j \in 0..n
    BY <1>1, <1>4
  <2>2. ASSUME NEW u, NEW v, << u, v >> \in PathsUpTo[j]
        PROVE  \E i \in 0..n : i < rank[v] - rank[u] /\ << u, v >> \in PathsUpTo[i]
    <3>1. CASE << u, v >> \in PathsUpTo[j - 1]
      BY <2>1, <3>1
    <3>2. CASE << u, v >> \notin PathsUpTo[j - 1]
      <4>1. PICK w : << u, w >> \in PathsUpTo[j - 1] /\ << w, v >> \in GroupEdges
        BY <2>2, <3>2, LastEdge
      <4>2. PICK i \in 0..n : i < rank[w] - rank[u] /\ << u, w >> \in PathsUpTo[i]
        BY <2>1, <4>1
      <4>3. u \in Roots /\ v \in Roots /\ w \in Roots /\ rank[w] < rank[v]
        <5>1. << u, w >> \in Roots \X Roots
          BY <2>1, <4>1, PathsGoUp
        <5>2. << w, v >> \in Roots \X Roots /\ rank[w] < rank[v]
          BY <4>1, EdgesGoUp
        <5> QED
          BY <5>1, <5>2
      <4>4. rank[u] \in 0..(n - 1) /\ rank[v] \in 0..(n - 1) /\ rank[w] \in 0..(n - 1)
        BY <1>2, <4>3
      <4>5. i + 1 \in 1..n /\ (i + 1) - 1 = i /\ i + 1 < rank[v] - rank[u]
        BY <1>1, <4>2, <4>3, <4>4
      <4>6. << u, v >> \in PathsUpTo[i + 1]
        BY <4>1, <4>2, <4>5, LastEdge
      <4> QED
        BY <1>1, <4>5, <4>6
    <3> QED
      BY <3>1, <3>2
  <2> QED
    BY <2>1, <2>2
<1>5. 0..n \subseteq T
  <2> HIDE DEF T
  <2> QED
    BY <1>3, <1>4, UpToN
<1> DEFINE L(i) == PathsUpTo[i] \subseteq PathsUpTo[n]
<1>6. ASSUME NEW i \in 0..n PROVE L(i)
  <2> DEFINE U == { j \in 0..n : i <= j => PathsUpTo[i] \subseteq PathsUpTo[j] }
  <2>1. 0 \in U
    BY <1>1
  <2>2. ASSUME NEW j \in 1..n, j - 1 \in U PROVE j \in U
    <3>1. PathsUpTo[j - 1] \subseteq PathsUpTo[j]
      BY PathsExist DEF Longer
    <3>2. j \in 0..n /\ i \in Nat /\ (i = j \/ i <= j - 1 \/ ~(i <= j))
      BY <1>1
    <3> QED
      BY <2>2, <3>1, <3>2
  <2>3. 0..n \subseteq U
    <3> HIDE DEF U
    <3> QED
      BY <2>1, <2>2, UpToN
  <2> QED
    BY <1>1, <2>3
<1>7. ASSUME NEW z, << y, z >> \in GroupEdges PROVE << x, z >> \in GroupPaths
  <2>1. Short(n) /\ n \in 0..n
    BY <1>1, <1>5
  <2>2. PICK i \in 0..n : i < rank[y] - rank[x] /\ << x, y >> \in PathsUpTo[i]
    BY <2>1 DEF GroupPaths
  <2>3. x \in Roots /\ y \in Roots
    <3>1. << x, y >> \in Roots \X Roots
      BY <2>2, PathsGoUp
    <3> QED
      BY <3>1
  <2>4. rank[x] \in 0..(n - 1) /\ rank[y] \in 0..(n - 1)
    BY <1>2, <2>3
  <2>5. i + 1 \in 1..n /\ i + 1 \in 0..n /\ (i + 1) - 1 = i
    BY <1>1, <2>2, <2>4
  <2>6. << x, z >> \in PathsUpTo[i + 1]
    BY <1>7, <2>2, <2>5, LastEdge
  <2> QED
    BY <1>6, <2>5, <2>6 DEF GroupPaths
<1> QED
  BY <1>7

\* What the search visits has every node below hi that a path leads to.
LEMMA SearchFindsPaths ==
    ASSUME CycleInv, LinksAreEdges, pc = "idle",
           NEW lo \in Roots, NEW hi \in Roots, NEW c,
           << lo, c >> \in GroupPaths, << c, hi >> \in GroupPaths,
           NEW S \in SUBSET Node, Visited(S, lo, hi)
    PROVE  \E u \in S \ {lo} : hi \in Succ(u)
<1> DEFINE Found == \E u \in S \ {lo} : hi \in Succ(u)
           Visits(j) == \A x, z : << x, z >> \in PathsUpTo[j] /\ x \in S =>
                          /\ rank[z] < rank[hi] => z \in S
                          /\ z = hi /\ rank[lo] < rank[x] => Found
           T == { j \in 0..n : Visits(j) }
<1> HIDE DEF Found
<1>1. n \in Nat
  BY GraphAssumption
<1>2. ASSUME NEW w, NEW z, << w, z >> \in GroupEdges, w \in S
      PROVE  /\ rank[z] < rank[hi] => z \in S
             /\ z = hi /\ rank[lo] < rank[w] => Found
  <2>1. z \in Succ(w) /\ w \in Roots /\ z \in Roots
    <3>1. << w, z >> \in Roots \X Roots /\ z \in Succ(w)
      BY <1>2, EdgesGoUp
    <3> QED
      BY <3>1
  <2>2. rank[z] \in Nat /\ rank[hi] \in Nat /\ rank[lo] \in Nat
    BY <2>1 DEF CycleInv, Types, Roots, Node
  <2>3. ASSUME rank[z] < rank[hi] PROVE z \in S
    BY <1>2, <2>1, <2>2, <2>3 DEF Visited, Beyond
  <2>4. ASSUME z = hi, rank[lo] < rank[w] PROVE Found
    BY <1>2, <2>1, <2>2, <2>4 DEF Found
  <2> QED
    BY <2>3, <2>4
<1>3. 0 \in T
  BY <1>1, <1>2, PathsExist
<1>4. ASSUME NEW j \in 1..n, j - 1 \in T PROVE j \in T
  <2>1. Visits(j - 1) /\ j - 1 \in 0..n /\ j \in 0..n
    BY <1>1, <1>4
  <2>2. ASSUME NEW x, NEW z, << x, z >> \in PathsUpTo[j], x \in S
        PROVE  /\ rank[z] < rank[hi] => z \in S
               /\ z = hi /\ rank[lo] < rank[x] => Found
    <3>1. CASE << x, z >> \in PathsUpTo[j - 1]
      BY <2>1, <2>2, <3>1
    <3>2. CASE << x, z >> \notin PathsUpTo[j - 1]
      <4>1. PICK w : << x, w >> \in PathsUpTo[j - 1] /\ << w, z >> \in GroupEdges
        BY <2>2, <3>2, LastEdge
      <4>2. << x, w >> \in Roots \X Roots /\ << w, z >> \in Roots \X Roots
            /\ rank[x] < rank[w] /\ rank[w] < rank[z]
        BY <2>1, <4>1, PathsGoUp, EdgesGoUp
      <4>3. /\ rank[x] \in Nat /\ rank[w] \in Nat /\ rank[z] \in Nat
            /\ rank[lo] \in Nat /\ rank[hi] \in Nat
        <5>1. \A r \in Roots : rank[r] \in Nat
          BY DEF CycleInv, Types, Roots, Node
        <5> QED
          BY <4>2, <5>1
      <4>4. rank[w] < rank[hi] => w \in S
        BY <2>1, <2>2, <4>1
      <4>5. ASSUME rank[z] < rank[hi] PROVE z \in S
        BY <1>2, <4>1, <4>2, <4>3, <4>4, <4>5
      <4>6. ASSUME z = hi, rank[lo] < rank[x] PROVE Found
        <5>1. rank[lo] < rank[w] /\ w \in S
          BY <4>2, <4>3, <4>4, <4>6
        <5> QED
          BY <1>2, <4>1, <4>6, <5>1
      <4> QED
        BY <4>5, <4>6
    <3> QED
      BY <3>1, <3>2
  <2> QED
    BY <2>1, <2>2
<1>5. n \in T
  <2> HIDE DEF T
  <2> QED
    BY <1>1, <1>3, <1>4, UpToN
<1>6. lo \in S /\ rank[lo] < rank[c] /\ rank[c] < rank[hi]
  BY <1>1, PathsGoUp DEF Visited, GroupPaths
<1>7. c \in S
  BY <1>5, <1>6 DEF GroupPaths
<1> QED
  BY <1>5, <1>6, <1>7 DEF GroupPaths, Found

\* A search that meets hi again has found a path through a third node.
LEMMA SearchIsPath ==
    ASSUME CycleInv, LinksAreEdges, pc = "idle",
           NEW lo \in Roots, NEW hi \in Roots, rank[lo] < rank[hi],
           HasIntermediatePath(lo, hi)
    PROVE  \E c \in Node \ {lo, hi} : << lo, c >> \in GroupPaths /\ << c, hi >> \in GroupPaths
<1> DEFINE S == {lo} \cup { v \in Node : << lo, v >> \in GroupPaths /\ rank[v] < rank[hi] }
<1>1. n \in Nat /\ GroupEdges \subseteq GroupPaths
  <2> DEFINE U == { j \in 0..n : GroupEdges \subseteq PathsUpTo[j] }
  <2>1. n \in Nat
    BY GraphAssumption
  <2>2. 0 \in U
    BY <2>1, PathsExist
  <2>3. ASSUME NEW j \in 1..n, j - 1 \in U PROVE j \in U
    BY <2>3, PathsExist DEF Longer
  <2>4. 0..n \subseteq U
    <3> HIDE DEF U
    <3> QED
      BY <2>2, <2>3, UpToN
  <2> QED
    BY <2>1, <2>4 DEF GroupPaths
<1>2. GroupPaths \subseteq Roots \X Roots
  BY <1>1, PathsGoUp DEF GroupPaths
<1>3. Roots \subseteq Node /\ \A r \in Roots : rank[r] \in Nat
  BY DEF CycleInv, Types, Roots, Node
<1>4. S \subseteq Roots
  BY <1>2, <1>3
<1>5. \A u \in Roots : Succ(u) \subseteq Roots
  BY DEF CycleInv, Types, Roots, Succ
<1>6. ASSUME NEW u \in S, NEW v \in Succ(u), u # v
      PROVE  << u, v >> \in GroupPaths /\ << lo, v >> \in GroupPaths
  <2>1. << u, v >> \in GroupEdges
    BY <1>4, <1>5, <1>6, EdgesGoUp
  <2>2. u = lo \/ << lo, u >> \in GroupPaths
    BY <1>6
  <2> QED
    BY <1>1, <2>1, <2>2, PathsClosed
<1>7. Visited(S, lo, hi)
  <2>1. ASSUME NEW u \in S, NEW v \in Succ(u), v # hi, ~Beyond(v, lo, hi) PROVE v \in S
    <3>1. v \in Roots /\ rank[v] < rank[hi]
      BY <1>3, <1>4, <1>5, <2>1 DEF Beyond
    <3>2. CASE u = v
      BY <3>2
    <3>3. CASE u # v
      BY <1>3, <1>6, <3>1, <3>3
    <3> QED
      BY <3>2, <3>3
  <2> QED
    BY <2>1 DEF Visited
<1>8. S \in SUBSET Node
  BY <1>3, <1>4
<1>9. PICK u \in S \ {lo} : hi \in Succ(u)
  <2> HIDE DEF S
  <2> QED
    BY <1>7, <1>8 DEF HasIntermediatePath
<1>10. u # hi /\ << lo, u >> \in GroupPaths /\ u \in Node
  <2>1. << lo, u >> \in GroupPaths /\ rank[u] < rank[hi] /\ u \in Node
    BY <1>9
  <2> QED
    BY <1>3, <2>1
<1> QED
  BY <1>6, <1>9, <1>10

(* The types of the tables, and that the table of the ranks has every root  *)
(* between merges (GraphCycles.merge, _reorder).                            *)
THEOREM CyclesTypeOK == Spec => []TypeOK
<1>1. CycleInv => TypeOK
  <2> SUFFICES ASSUME CycleInv PROVE TypeOK
    OBVIOUS
  <2>1. pc = "idle" => \A u \in Node : root[u] = u => nodeAtRank[rank[u]] = u
    BY BetweenMerges DEF Roots
  <2> QED
    BY <2>1 DEF CycleInv, Types, Roots, TypeOK
<1> QED
  BY <1>1, CycleInvariant, PTL

(* wouldCreateCycle answers exactly on every graph and after any merges:    *)
(* the search that is cut off at the rank of its end misses no cycle and    *)
(* invents none.                                                            *)
THEOREM CyclesExactAnswer == Spec => []ExactAnswer
<1>1. CycleInv /\ LinksAreEdges => ExactAnswer
  <2> SUFFICES ASSUME CycleInv, LinksAreEdges, pc = "idle",
                      NEW a \in Roots, NEW b \in Roots, a # b
               PROVE  wouldCreateCycle(a, b) <=> MakesCycle(GroupPaths, a, b)
    BY DEF ExactAnswer, Roots
  <2> DEFINE lo == Low(a, b)
             hi == High(a, b)
             Through(x, y) == \E c \in Node \ {x, y} : << x, c >> \in GroupPaths /\ << c, y >> \in GroupPaths
  <2>1. rank[a] # rank[b] /\ rank[a] \in Nat /\ rank[b] \in Nat
    BY BetweenMerges DEF Node
  <2>2. /\ {lo, hi} = {a, b} /\ lo \in Roots /\ hi \in Roots /\ rank[lo] < rank[hi]
        /\ (lo = a /\ hi = b) \/ (lo = b /\ hi = a)
        /\ rank[lo] \in Nat /\ rank[hi] \in Nat
    <3>1. CASE rank[a] < rank[b]
      <4>1. lo = a /\ hi = b
        BY <3>1 DEF Low, High
      <4> HIDE DEF lo, hi
      <4> QED
        BY <2>1, <3>1, <4>1
    <3>2. CASE ~(rank[a] < rank[b])
      <4>1. lo = b /\ hi = a /\ rank[b] < rank[a]
        BY <2>1, <3>2 DEF Low, High
      <4> HIDE DEF lo, hi
      <4> QED
        BY <2>1, <4>1
    <3> QED
      BY <3>1, <3>2
  <2> HIDE DEF lo, hi
  <2>3. n \in 0..n
    BY GraphAssumption
  <2>4. ~Through(hi, lo)
    <3> SUFFICES ASSUME NEW c, << hi, c >> \in GroupPaths, << c, lo >> \in GroupPaths PROVE FALSE
      OBVIOUS
    <3>1. rank[hi] < rank[c] /\ rank[c] < rank[lo] /\ << hi, c >> \in Roots \X Roots
      BY <2>3, PathsGoUp DEF GroupPaths
    <3>2. rank[c] \in Nat
      BY <3>1 DEF CycleInv, Types, Roots, Node
    <3> QED
      BY <2>2, <3>1, <3>2
  <2>5. MakesCycle(GroupPaths, a, b) <=> Through(a, b) \/ Through(b, a)
    BY DEF MakesCycle
  <2>6. MakesCycle(GroupPaths, a, b) <=> Through(lo, hi)
    <3> HIDE DEF Through
    <3>1. CASE lo = a /\ hi = b
      BY <2>4, <2>5, <3>1
    <3>2. CASE lo = b /\ hi = a
      BY <2>4, <2>5, <3>2
    <3> QED
      BY <2>2, <3>1, <3>2
  <2>7. wouldCreateCycle(a, b) <=> HasIntermediatePath(lo, hi)
    BY DEF wouldCreateCycle, lo, hi
  <2>8. HasIntermediatePath(lo, hi) => Through(lo, hi)
    BY <2>2, SearchIsPath
  <2>9. Through(lo, hi) => HasIntermediatePath(lo, hi)
    BY <2>2, SearchFindsPaths DEF HasIntermediatePath
  <2> QED
    BY <2>6, <2>7, <2>8, <2>9
<1> QED
  BY <1>1, CycleInvariant, PTL
=============================================================================
