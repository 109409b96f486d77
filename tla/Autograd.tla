------------------------------- MODULE Autograd -------------------------------
(***************************************************************************)
(* Eager autograd: the graph that wrapWithAutograd (autograd/dispatch.ts)  *)
(* records while operations run, the engine of autograd/engine.ts that     *)
(* walks it, and the accumulators of autograd/accumulator.ts that add the  *)
(* result to the leaves, with an optimizer that changes the leaves in      *)
(* place between the two.                                                  *)
(*                                                                         *)
(* Tensor n and the node that made it share the number n: every recorded   *)
(* operation has one output.  A leaf's node is its GradAccumulator.        *)
(* All elements of a tensor are equal, so a value is a number and a shape  *)
(* is one bit: narrow (one element) or wide (Width elements, which a       *)
(* narrow tensor is broadcast to).  The upper bound of clamp is infinite.   *)
(*                                                                         *)
(* Bounds of the model: MaxNodes tensors, MaxCalls calls of backward,      *)
(* MaxSteps optimizer steps.                                               *)
(***************************************************************************)
EXTENDS Integers, Sequences, FiniteSets

CONSTANTS
    NumLeaves,     \* tensors 1..NumLeaves are parameters
    MaxNodes,
    WideLeaf,      \* the parameters that are wide
    Width,
    Kinds,         \* operations the program uses
    MaxCalls,
    MaxSteps,
    None

Grad == [v : Int, wide : BOOLEAN]

ASSUME AutogradAssumption ==
    /\ NumLeaves \in Nat \ {0}
    /\ MaxNodes \in Nat /\ NumLeaves <= MaxNodes
    /\ Width \in Nat \ {0}
    /\ Kinds \subseteq {"add", "mul", "sum", "clamp", "detach"}
    /\ None \notin Grad

Node == 1..MaxNodes
Leaf == 1..NumLeaves

VARIABLES
    made,      \* tensors made so far
    tensor,    \* tensor[n]: kind, args, value, shape, requiresGrad, and the values
               \* and shapes the arguments had (a ghost: seen, shapes)
    edges,     \* node n's nextEdges: nodes, 0 for a null edge
    saved,     \* node n's _savedTensors: << >> once released
    meta,      \* node n's _inputMetadata: << >> once released
    grad,      \* the .grad of a leaf, or None
    phase,     \* "idle" or the engine's loop: "count", "order", "apply"
    root,      \* the node backward was called on
    queue, visited, depCount,   \* of _countDeps
    known,     \* the keys of the depCount map
    ready, order,               \* of backward
    at,        \* position of the last loop in order
    gradMap,   \* gradient gathered for a node, or None
    sound,     \* no node under the root was released before the call (a ghost)
    calls, steps

graphVars == << made, tensor, edges >>
bufferVars == << saved, meta >>
countVars == << queue, visited, depCount, known >>
engineVars == << phase, root, queue, visited, depCount, known, ready, order, at, gradMap, sound >>
avars == << made, tensor, edges, saved, meta, grad, engineVars, calls, steps >>

Idle == phase = "idle"
Numel(wide) == IF wide THEN Width ELSE 1

-----------------------------------------------------------------------------
(* The tensors.                                                            *)

NoTensor == [kind |-> "none", args |-> << >>, val |-> 0, wide |-> FALSE, rg |-> FALSE,
             seen |-> << >>, shapes |-> << >>]
Parameter(l) == [NoTensor EXCEPT !.kind = "leaf", !.val = l + 1, !.wide = l \in WideLeaf, !.rg = TRUE]

Any(bits) == \E i \in DOMAIN bits : bits[i]

ResultValue(kind, v, w) ==
    CASE kind = "add" -> v[1] + v[2]
      [] kind = "mul" -> v[1] * v[2]
      [] kind = "sum" -> v[1] * Numel(w[1])
      [] kind = "clamp" /\ v[1] < v[2] -> v[2]
      [] OTHER -> v[1]

ResultWide(kind, w) == IF kind = "sum" THEN FALSE ELSE Any(w)

\* What dispatch records: an operation some argument of which requires grad
\* becomes a node with a snapshot of its arguments; detach never does.
Recorded(kind, args) == kind # "detach" /\ \E i \in DOMAIN args : tensor[args[i]].rg

\* A saved tensor is a copy of the argument.
Snapshot(a) == [v |-> tensor[a].val, wide |-> tensor[a].wide]

Forward(kind, args) ==
    LET n == made + 1
        v == [i \in DOMAIN args |-> tensor[args[i]].val]
        w == [i \in DOMAIN args |-> tensor[args[i]].wide]
        rec == Recorded(kind, args)
    IN  /\ Idle /\ n \in Node
        /\ made' = n
        /\ tensor' = [tensor EXCEPT ![n] =
               [kind |-> kind, args |-> args, val |-> ResultValue(kind, v, w),
                wide |-> ResultWide(kind, w), rg |-> rec, seen |-> v, shapes |-> w]]
        /\ edges' = [edges EXCEPT ![n] =
               IF rec THEN [i \in DOMAIN args |-> IF tensor[args[i]].rg THEN args[i] ELSE 0] ELSE << >>]
        /\ saved' = [saved EXCEPT ![n] =
               IF rec THEN [i \in DOMAIN args |-> Snapshot(args[i])] ELSE << >>]
        /\ meta' = [meta EXCEPT ![n] = IF rec THEN w ELSE << >>]
        /\ UNCHANGED << grad, engineVars, calls, steps >>

\* The argument lists of the program: every operation but the first uses the
\* tensor made last, and those that would change nothing are left out.
ArgLists(kind) ==
    LET last(a) == made = NumLeaves \/ \E i \in DOMAIN a : a[i] = made
        pairs == { a \in [1..2 -> 1..made] : last(a) }
    IN  CASE kind = "sum" -> { a \in [1..1 -> 1..made] : last(a) /\ tensor[a[1]].wide }
          [] kind = "detach" -> { a \in [1..1 -> {made} \ Leaf] : tensor[made].rg }
          [] kind = "clamp" -> { a \in pairs : a[1] > a[2] }
          [] OTHER -> { a \in pairs : a[1] <= a[2] }

\* SGD.step: parameters that have a gradient are changed in place.
OptimizerStep ==
    /\ Idle /\ steps < MaxSteps
    /\ \E l \in Leaf : grad[l] # None
    /\ tensor' = [n \in Node |-> IF n \in Leaf /\ grad[n] # None
                                 THEN [tensor[n] EXCEPT !.val = @ + 1] ELSE tensor[n]]
    /\ steps' = steps + 1
    /\ UNCHANGED << made, edges, saved, meta, grad, engineVars, calls >>

ZeroGrad ==
    /\ Idle
    /\ \E l \in Leaf : grad[l] # None
    /\ grad' = [l \in Leaf |-> None]
    /\ UNCHANGED << made, tensor, edges, saved, meta, engineVars, calls, steps >>

-----------------------------------------------------------------------------
(* _countDeps: breadth first from the root, one edge one dependency.       *)

Children(n) == { edges[n][i] : i \in DOMAIN edges[n] } \ {0}
EdgeCount(n, c) == Cardinality({ i \in DOMAIN edges[n] : edges[n][i] = c })

\* The nodes under n, n included.
Under[n \in Node] == {n} \cup UNION { IF c < n THEN Under[c] ELSE {} : c \in Children(n) }

Released(n) == n \notin Leaf /\ saved[n] = << >> /\ meta[n] = << >>

\* backward on a tensor that has a gradFn; a wide root is given a gradient
\* of ones, a narrow one gets it by default.
Backward(r) ==
    /\ Idle /\ calls < MaxCalls
    /\ r \in 1..made \ Leaf /\ tensor[r].rg
    /\ phase' = "count" /\ root' = r
    /\ queue' = << r >> /\ visited' = {} /\ known' = {r}
    /\ depCount' = [n \in Node |-> 0]
    /\ ready' = {} /\ order' = << >> /\ at' = 1
    /\ gradMap' = [n \in Node |-> IF n = r THEN [v |-> 1, wide |-> tensor[r].wide] ELSE None]
    /\ sound' = (\A n \in Under[r] : ~Released(n))
    /\ calls' = calls + 1
    /\ UNCHANGED << made, tensor, edges, saved, meta, grad, steps >>

CountSkipPeeks ==
    /\ phase = "count" /\ queue # << >> /\ Head(queue) \in visited
    /\ UNCHANGED avars

CountSkip ==
    /\ phase = "count" /\ queue # << >> /\ Head(queue) \in visited
    /\ queue' = Tail(queue)
    /\ UNCHANGED << graphVars, bufferVars, grad, phase, root, visited, depCount, known, ready, order,
                    at, gradMap, sound, calls, steps >>

CountedAnew(n, c) == IF c \in Children(n) THEN EdgeCount(n, c) ELSE depCount[c]
Counted(n, c) == depCount[c] + EdgeCount(n, c)

\* The children a visit to n appends to the queue, edge by edge.
Pushed(n, seen) ==
    LET one(i) == IF i \in DOMAIN edges[n] /\ edges[n][i] \notin seen \cup {0}
                  THEN << edges[n][i] >> ELSE << >>
    IN  one(1) \o one(2)

CountNode ==
    /\ phase = "count" /\ queue # << >>
    /\ LET n == Head(queue) IN
       /\ n \notin visited
       /\ visited' = visited \cup {n}
       /\ known' = known \cup Children(n)
       /\ depCount' = [c \in Node |-> Counted(n, c)]
       /\ queue' = Tail(queue) \o Pushed(n, visited')
    /\ UNCHANGED << graphVars, bufferVars, grad, phase, root, ready, order, at, gradMap, sound, calls, steps >>

CountDone ==
    /\ phase = "count" /\ queue = << >>
    /\ phase' = "order"
    /\ ready' = { n \in known : depCount[n] = 0 }
    /\ UNCHANGED << graphVars, bufferVars, grad, root, queue, visited, depCount, known, order, at,
                    gradMap, sound, calls, steps >>

-----------------------------------------------------------------------------
(* The order: a node is ready when all edges into it are accounted for.    *)
(* The code pops the ready node pushed last; here any may be taken.        *)

FallsReadyEarly(c, count) == count <= 1
FallsReady(c, count) == count = 0

OrderNode(n) ==
    /\ phase = "order" /\ n \in ready
    /\ order' = Append(order, n)
    /\ depCount' = [c \in Node |-> depCount[c] - EdgeCount(n, c)]
    /\ ready' = (ready \ {n}) \cup { c \in Children(n) : FallsReady(c, depCount'[c]) }
    /\ UNCHANGED << graphVars, bufferVars, grad, phase, root, queue, visited, known, at, gradMap, sound,
                    calls, steps >>

OrderDone ==
    /\ phase = "order" /\ ready = {}
    /\ phase' = "apply"
    /\ UNCHANGED << graphVars, bufferVars, grad, root, countVars, ready, order, at, gradMap, sound,
                    calls, steps >>

-----------------------------------------------------------------------------
(* The last loop: apply each node, reduce, release, pass on.               *)

Plus(a, b) == IF a = None THEN b ELSE [v |-> a.v + b.v, wide |-> a.wide \/ b.wide]
Times(g, s) == [v |-> g.v * s.v, wide |-> g.wide \/ s.wide]

\* The functions' apply: the gradient for argument i, None for one that gets
\* none.  A saved tensor and the saved shape of an argument.
AddBackward(g) == g
MulBackward(n, g, i) == Times(g, saved[n][3 - i])
SumBackward(n, g) == [v |-> g.v, wide |-> g.wide \/ meta[n][1]]
ClampBackward(n, g, i) ==
    IF i = 2 THEN None
    ELSE IF saved[n][1].v >= saved[n][2].v THEN g ELSE [g EXCEPT !.v = 0]

\* Variant: a product reads what its arguments are worth now.
LocalNow(n, g, i) ==
    CASE tensor[n].kind = "add" -> AddBackward(g)
      [] tensor[n].kind = "mul" -> Times(g, [v |-> tensor[tensor[n].args[3 - i]].val, wide |-> meta[n][3 - i]])
      [] tensor[n].kind = "sum" -> SumBackward(n, g)
      [] OTHER -> ClampBackward(n, g, i)

Local(n, g, i) ==
    CASE tensor[n].kind = "add" -> AddBackward(g)
      [] tensor[n].kind = "mul" -> MulBackward(n, g, i)
      [] tensor[n].kind = "sum" -> SumBackward(n, g)
      [] OTHER -> ClampBackward(n, g, i)

\* MulBackward and ClampBackward read their saved tensors, SumBackward the
\* shape of its input: after a release they throw.
Throws(n) == tensor[n].kind \in {"mul", "clamp", "sum"} /\ saved[n] = << >>

\* _reduceBroadcastGrad: add up over the elements a narrow argument was
\* repeated for.  Without metadata the gradient is left as it is.
Reduce(n, g, i) ==
    IF g # None /\ i \in DOMAIN meta[n] /\ g.wide /\ ~meta[n][i]
    THEN [v |-> g.v * Width, wide |-> FALSE]
    ELSE g

\* The gradients node n passes along its edges, added to what its
\* successors have, edge by edge.
Passed(n, g, c) ==
    LET out(i) == IF edges[n][i] = c THEN Reduce(n, Local(n, g, i), i) ELSE None
        into(a, i) == IF i \in DOMAIN edges[n] /\ out(i) # None THEN Plus(a, out(i)) ELSE a
    IN  into(into(gradMap[c], 1), 2)

Applying(n) == phase = "apply" /\ at \in DOMAIN order /\ n = order[at]

SkipNode(n) ==
    /\ Applying(n) /\ gradMap[n] = None
    /\ at' = at + 1
    /\ UNCHANGED << graphVars, bufferVars, grad, phase, root, countVars, ready, order, gradMap, sound,
                    calls, steps >>

\* GradAccumulator.apply
Accumulate(l) ==
    /\ Applying(l) /\ l \in Leaf /\ gradMap[l] # None
    /\ grad' = [grad EXCEPT ![l] = Plus(@, gradMap[l])]
    /\ at' = at + 1
    /\ UNCHANGED << graphVars, bufferVars, phase, root, countVars, ready, order, gradMap, sound,
                    calls, steps >>

ApplyNode(n) ==
    /\ Applying(n) /\ n \notin Leaf /\ gradMap[n] # None /\ ~Throws(n)
    /\ saved' = [saved EXCEPT ![n] = << >>]
    /\ meta' = [meta EXCEPT ![n] = << >>]
    /\ gradMap' = [c \in Node |-> IF c \in Children(n) THEN Passed(n, gradMap[n], c) ELSE gradMap[c]]
    /\ at' = at + 1
    /\ UNCHANGED << graphVars, grad, phase, root, countVars, ready, order, sound, calls, steps >>

\* What the locals of backward are worth once it has returned.
Returned ==
    /\ phase' = "idle" /\ root' = 0
    /\ queue' = << >> /\ visited' = {} /\ known' = {}
    /\ depCount' = [n \in Node |-> 0]
    /\ ready' = {} /\ order' = << >> /\ at' = 1
    /\ gradMap' = [n \in Node |-> None]
    /\ sound' = TRUE
    /\ UNCHANGED << graphVars, bufferVars, grad, calls, steps >>

ApplyThrows(n) ==
    /\ Applying(n) /\ n \notin Leaf /\ gradMap[n] # None /\ Throws(n)
    /\ Returned

BackwardDone ==
    /\ phase = "apply" /\ at = Len(order) + 1
    /\ Returned

-----------------------------------------------------------------------------
AInit ==
    /\ made = NumLeaves
    /\ tensor = [n \in Node |-> IF n \in Leaf THEN Parameter(n) ELSE NoTensor]
    /\ edges = [n \in Node |-> << >>]
    /\ saved = [n \in Node |-> << >>] /\ meta = [n \in Node |-> << >>]
    /\ grad = [l \in Leaf |-> None]
    /\ phase = "idle" /\ root = 0
    /\ queue = << >> /\ visited = {} /\ known = {}
    /\ depCount = [n \in Node |-> 0]
    /\ ready = {} /\ order = << >> /\ at = 1
    /\ gradMap = [n \in Node |-> None]
    /\ sound = TRUE /\ calls = 0 /\ steps = 0

Program ==
    \/ \E kind \in Kinds : \E args \in ArgLists(kind) : Forward(kind, args)
    \/ OptimizerStep
    \/ ZeroGrad
    \/ \E r \in Node : Backward(r)

Count == CountSkip \/ CountNode \/ CountDone
Order == (\E n \in Node : OrderNode(n)) \/ OrderDone
Apply == (\E n \in Node : SkipNode(n) \/ Accumulate(n) \/ ApplyNode(n) \/ ApplyThrows(n)) \/ BackwardDone

Engine == Count \/ Order \/ Apply

ANext == Program \/ Engine
\* backward is one synchronous call: once called it runs to its end.
ASpec == AInit /\ [][ANext]_avars /\ WF_avars(Engine)
=============================================================================
