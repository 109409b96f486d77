--------------------------- MODULE GraphCyclesProps ---------------------------
(* The cycle detector against the definition of a cycle.                    *)
EXTENDS GraphCycles

\* The edges of the graph of the groups.
GroupEdges == { p \in { << root[e[1]], root[e[2]] >> : e \in edges } : p[1] # p[2] }

\* The pairs of P, and those with one more edge.
Longer(P) ==
    P \cup { << q[1][1], q[2][2] >> : q \in { q \in P \X GroupEdges : q[1][2] = q[2][1] } }

\* The ends of the paths of at most k + 1 edges.
PathsUpTo[k \in 0..n] == IF k = 0 THEN GroupEdges ELSE Longer(PathsUpTo[k - 1])

GroupPaths == PathsUpTo[n]

\* Merging a and b makes a cycle: one is reached from the other through a third.
MakesCycle(path, a, b) ==
    \E c \in Node \ {a, b} :
        {<< a, c >>, << c, b >>} \subseteq path \/ {<< b, c >>, << c, a >>} \subseteq path

(* wouldCreateCycle is exact: it refuses the merges that make a cycle and   *)
(* no others, although it looks at the ranks between the two nodes only.    *)
(* (graph-cycles.test.js compares it with a search of the whole graph on    *)
(* random graphs.)                                                          *)
ExactAnswer ==
    pc = "idle" =>
        LET path == GroupPaths IN
        \A a, b \in { x \in Node : root[x] = x } :
            a # b => (wouldCreateCycle(a, b) <=> MakesCycle(path, a, b))
=============================================================================
