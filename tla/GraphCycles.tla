----------------------------- MODULE GraphCycles -----------------------------
(***************************************************************************)
(* The cycle detector of the fusion passes,                                *)
(* src/compiler/passes/fusion/graph_cycles.ts, and its use by              *)
(* priority_fusion.ts: operations are fused pair by pair, as long as the   *)
(* graph of the fused groups stays acyclic.                                *)
(*                                                                         *)
(* Every group has a representative (root) with a rank; the ranks are a    *)
(* topological order, so that a search for a path looks only at the ranks  *)
(* between its ends.  A merge repairs the order within that window: the    *)
(* merged node moves to the lower rank, or the nodes of the window are     *)
(* sorted again.                                                           *)
(*                                                                         *)
(* Abstractions: root[x] is find(x), whose path compression changes no     *)
(* answer; the sort takes any node that is ready, where the code takes     *)
(* them from a queue.  The edge sets hold nodes that have been merged      *)
(* away, as in the code; find maps them to their group.                    *)
(***************************************************************************)
EXTENDS Integers, FiniteSets

CONSTANTS
    n,         \* the number of operations
    Graphs     \* the graphs: sets of edges from earlier to later operations

Node == 0..(n - 1)

ASSUME GraphAssumption ==
    /\ n \in Nat
    /\ \A g \in Graphs : g \subseteq { e \in Node \X Node : e[1] < e[2] }

VARIABLES
    edges,       \* the graph
    root,        \* root[x] = find(x)
    rank,        \* _rank
    nodeAtRank,  \* _nodeAtRank, -1 where there is none
    out, in,     \* _out, _in
    pc,          \* "idle", or "reorder" within a merge
    slots,       \* the ranks of the window still to be given away
    left         \* the nodes of the window still to be placed

vars == << edges, root, rank, nodeAtRank, out, in, pc, slots, left >>

Init ==
    /\ edges \in Graphs
    /\ root = [x \in Node |-> x]
    /\ rank = [x \in Node |-> x]
    /\ nodeAtRank = [r \in Node |-> r]
    /\ out = [u \in Node |-> { v \in Node : << u, v >> \in edges }]
    /\ in = [v \in Node |-> { u \in Node : << u, v >> \in edges }]
    /\ pc = "idle" /\ slots = {} /\ left = {}

-----------------------------------------------------------------------------
Succ(u) == { root[x] : x \in out[u] }
Pred(v) == { root[x] : x \in in[v] }

\* Variant: the search is cut off at the lower rank.
BeyondLow(v, lo, hi) == rank[v] >= rank[lo]

\* The search goes no further than the rank of its end.
Beyond(v, lo, hi) == rank[v] >= rank[hi]

\* S holds whatever the search from lo to hi visits.
Visited(S, lo, hi) ==
    /\ lo \in S
    /\ \A u \in S : \A v \in Succ(u) : v = hi \/ Beyond(v, lo, hi) \/ v \in S

\* A path from lo to hi of more than one edge.
HasIntermediatePath(lo, hi) ==
    \A S \in SUBSET Node : Visited(S, lo, hi) => \E u \in S \ {lo} : hi \in Succ(u)

\* Of two roots, the one with the lower rank and the other.
Low(a, b)  == IF rank[a] < rank[b] THEN a ELSE b
High(a, b) == IF rank[a] < rank[b] THEN b ELSE a

\* Variant: any two groups may be merged.
NoCycleCheck(a, b) == FALSE

wouldCreateCycle(a, b) == HasIntermediatePath(Low(a, b), High(a, b))

-----------------------------------------------------------------------------
\* The one with more edges survives.
Degree(u) == Cardinality(out[u]) + Cardinality(in[u])
Survivor(a, b) == IF Degree(a) >= Degree(b) THEN a ELSE b

\* Root t becomes part of s; its neighbours now have s for a neighbour.
Unite(s, t) ==
    /\ root' = [x \in Node |-> IF root[x] = t THEN s ELSE root[x]]
    /\ out' = [u \in Node |->
          IF u = s THEN (out[s] \cup Succ(t)) \ {s, t}
          ELSE IF u \in Pred(t) \ {t} THEN (out[u] \ {t}) \cup {s}
          ELSE out[u]]
    /\ in' = [v \in Node |->
          IF v = s THEN (in[s] \cup Pred(t)) \ {s, t}
          ELSE IF v \in Succ(t) \ {t} THEN (in[v] \ {t}) \cup {s}
          ELSE in[v]]

\* Variant: only the successors of the higher node are looked at.
ReachesOutOnly(lo, hi) ==
    \E x \in out'[hi] :
        root'[x] # hi /\ rank[lo] < rank[root'[x]] /\ rank[root'[x]] < rank[hi]

\* _reachesWithinWindow: a node between the two ranks has an edge to hi.
ReachesWithinWindow(lo, hi) ==
    \E x \in in'[hi] :
        root'[x] # hi /\ rank[lo] < rank[root'[x]] /\ rank[root'[x]] < rank[hi]

\* Variant: the table of the ranks keeps the old place of s.
MoveDownKeeps(s, t, lo) ==
    /\ rank' = [rank EXCEPT ![s] = rank[lo]]
    /\ nodeAtRank' = [nodeAtRank EXCEPT ![rank[t]] = -1]
    /\ UNCHANGED << pc, slots, left >>

\* Nothing is in between: the merged node takes the lower rank.
MoveDown(s, t, lo) ==
    /\ rank' = [rank EXCEPT ![s] = rank[lo]]
    /\ nodeAtRank' = [nodeAtRank EXCEPT ![rank[t]] = -1, ![rank[s]] = -1, ![rank[lo]] = s]
    /\ UNCHANGED << pc, slots, left >>

\* _reorder: the nodes between the two ranks are to share those ranks anew.
StartReorder(t, lo, hi) ==
    /\ nodeAtRank' = [nodeAtRank EXCEPT ![rank[t]] = -1]
    /\ slots' = { r \in rank[lo]..rank[hi] : nodeAtRank'[r] # -1 }
    /\ left' = { nodeAtRank'[r] : r \in slots' }
    /\ pc' = "reorder"
    /\ UNCHANGED rank

\* priority_fusion.ts: two groups with an edge between them, or not, are merged
\* if that makes no cycle.
Merge(a, b) ==
    /\ pc = "idle"
    /\ root[a] = a /\ root[b] = b /\ a # b
    /\ ~wouldCreateCycle(a, b)
    /\ LET s  == Survivor(a, b)
           t  == IF s = a THEN b ELSE a
           lo == Low(a, b)
           hi == High(a, b)
       IN  /\ Unite(s, t)
           /\ IF ReachesWithinWindow(lo, hi) THEN StartReorder(t, lo, hi) ELSE MoveDown(s, t, lo)
    /\ UNCHANGED edges

\* No node that is still to be placed has an edge to u.
IsReady(u) == \A w \in left \ {u} : u \notin Succ(w)

Least(T) == CHOOSE r \in T : \A q \in T : r <= q

\* One round of the topological sort of the window.
PlaceNext(u) ==
    /\ pc = "reorder" /\ u \in left /\ IsReady(u)
    /\ rank' = [rank EXCEPT ![u] = Least(slots)]
    /\ nodeAtRank' = [nodeAtRank EXCEPT ![Least(slots)] = u]
    /\ slots' = slots \ {Least(slots)}
    /\ left' = left \ {u}
    /\ UNCHANGED << edges, root, out, in, pc >>

\* The queue is empty: nodes on a cycle would never get into it.
ReorderEnds ==
    /\ pc = "reorder" /\ \A u \in left : ~IsReady(u)
    /\ pc' = "idle" /\ slots' = {} /\ left' = {}
    /\ UNCHANGED << edges, root, rank, nodeAtRank, out, in >>

Next ==
    \/ \E a, b \in Node : Merge(a, b)
    \/ \E u \in Node : PlaceNext(u)
    \/ ReorderEnds

Spec == Init /\ [][Next]_vars

-----------------------------------------------------------------------------
TypeOK ==
    /\ edges \in Graphs
    /\ root \in [Node -> Node] /\ rank \in [Node -> Node]
    /\ nodeAtRank \in [Node -> Node \cup {-1}]
    /\ out \in [Node -> SUBSET Node] /\ in \in [Node -> SUBSET Node]
    /\ pc \in {"idle", "reorder"}
    /\ slots \subseteq Node /\ left \subseteq Node
    /\ \A x \in Node : root[root[x]] = root[x]
    /\ pc = "idle" => \A u \in Node : root[u] = u => nodeAtRank[rank[u]] = u

(* After every merge the ranks order the groups along all the edges of the  *)
(* graph, so the graph of the groups has no cycle.  (merge, _reorder; the   *)
(* search of wouldCreateCycle relies on it.)                                *)
TopoOrder ==
    pc = "idle" =>
        \A e \in edges : root[e[1]] # root[e[2]] => rank[root[e[1]]] < rank[root[e[2]]]

(* The sort of a window never gets stuck: it places all the nodes.          *)
(* (_reorder gives ranks to the nodes in ordered alone; the others would    *)
(* keep ranks that are no longer theirs.)                                   *)
ReorderCompletes == pc = "reorder" /\ left # {} => slots # {} /\ \E u \in left : IsReady(u)
=============================================================================
