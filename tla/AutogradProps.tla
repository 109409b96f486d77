---------------------------- MODULE AutogradProps ----------------------------
(***************************************************************************)
(* Properties of the autograd engine.  The gradient a parameter is owed is *)
(* stated by forward differentiation of the recorded program, the opposite *)
(* direction to the engine's, over the values the operations read.         *)
(***************************************************************************)
EXTENDS Autograd

\* The type invariant: no dependency count is negative, every tensor and
\* gradient is a number with a shape, the loops stay within their arrays.
ATypeOK ==
    /\ made \in NumLeaves..MaxNodes
    /\ \A n \in 1..made :
        /\ tensor[n].val \in Int /\ tensor[n].wide \in BOOLEAN /\ tensor[n].rg \in BOOLEAN
        /\ \A i \in DOMAIN edges[n] : edges[n][i] \in 0..n - 1
        /\ DOMAIN saved[n] = DOMAIN meta[n] /\ DOMAIN saved[n] \in {{}, DOMAIN edges[n]}
    /\ grad \in [Leaf -> Grad \cup {None}]
    /\ gradMap \in [Node -> Grad \cup {None}]
    /\ phase \in {"idle", "count", "order", "apply"} /\ root \in 0..made
    /\ visited \subseteq Node /\ known \subseteq Node /\ ready \subseteq Node
    /\ depCount \in [Node -> Nat]
    /\ at \in 1..Len(order) + 1

Before(i) == { order[j] : j \in 1..i - 1 }

\* The engine's order holds every node under the root once, each after all
\* that add to its gradient (the ready loop of backward, engine.ts 38-51).
InOrder ==
    /\ phase \in {"order", "apply"} => root \in visited /\ \A n \in visited : Children(n) \subseteq visited
    /\ phase = "apply" => visited \subseteq Before(Len(order) + 1)
    /\ \A i \in DOMAIN order :
        /\ order[i] \notin Before(i)
        /\ \A n \in visited : order[i] \in Children(n) => n \in Before(i)

-----------------------------------------------------------------------------
(* The gradient, forwards.                                                 *)

\* d[n]: what one element of n changes by when all elements of leaf l change
\* by one.
Tangent(l) ==
    LET d[n \in 1..made] ==
            LET t == tensor[n] IN
            IF n \in Leaf THEN (IF n = l THEN 1 ELSE 0)
            ELSE IF ~t.rg THEN 0
            ELSE CASE t.kind = "add" -> d[t.args[1]] + d[t.args[2]]
                   [] t.kind = "mul" -> d[t.args[1]] * t.seen[2] + d[t.args[2]] * t.seen[1]
                   [] t.kind = "sum" -> d[t.args[1]] * Numel(t.shapes[1])
                   [] OTHER -> IF t.seen[1] >= t.seen[2] THEN d[t.args[1]] ELSE 0
    IN  d

\* The parameters that node r has a differentiable path to: all but those
\* reached only as the bound of a clamp.
Feeds(r) ==
    LET f[n \in 1..made] ==
            IF n \in Leaf THEN {n}
            ELSE LET t == tensor[n]
                     used == IF ~t.rg THEN {} ELSE IF t.kind = "clamp" THEN {1} ELSE DOMAIN t.args
                 IN  UNION { f[t.args[i]] : i \in used }
    IN  f[r]

Owed(l) ==
    IF phase = "idle" \/ ~sound \/ l \in Before(at) \/ l \notin Feeds(root) THEN None
    ELSE [v |-> (Tangent(l)[root] * Numel(tensor[root].wide)) \div Numel(tensor[l].wide),
          wide |-> tensor[l].wide]

Promise == INSTANCE Backprop WITH
    Param <- Leaf, Gradient <- Grad, Sum <- Plus, due <- [l \in Leaf |-> Owed(l)]

\* backward adds to each parameter the derivative at the values the forward
\* pass saw, in the parameter's shape, once, though the parameters change in
\* place between the passes, results are shared and arguments broadcast.
ImplementsBackprop == Promise!BSpec

\* What is owed does not stay owed: the loops of backward and _countDeps end.
\* With ImplementsBackprop, which lets a debt end only by delivery, every
\* gradient arrives.
GradientsArrive == Promise!Delivery
=============================================================================
