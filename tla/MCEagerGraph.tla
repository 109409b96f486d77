---------------------------- MODULE MCEagerGraph ----------------------------
(* A weight w and three other arrays; a step is a forward launch, a         *)
(* backward launch, which adds to the gradient in p.grad if there is one,   *)
(* and an update of w that pins it and uses scratch memory.                 *)
EXTENDS EagerGraphProps

CONSTANTS w, a, b, z

MCBytes == {512}
MCByteLength == [h \in Host |-> 512]
A(h, r) == [host |-> h, role |-> r]
Forward(x, y) == [args |-> << A(x, "in"), A(w, "in"), A(y, "out") >>, scratch |-> FALSE, pins |-> {}]
Backward(x, y, g) ==
    [args |-> << A(x, "in"), A(y, "inout") >> \o (IF g = None THEN << >> ELSE << A(g, "in") >>),
     scratch |-> FALSE, pins |-> {}]
Update(y) == [args |-> << A(y, "in"), A(w, "inout") >>, scratch |-> TRUE, pins |-> {w}]
MCProgram(x, y, g) == << Forward(x, y), Backward(x, y, g), Update(y) >>
MCKernels == UNION { { Forward(x, y), Update(y), Backward(x, y, g) } :
                     x \in Host, y \in Host, g \in Host \cup {None} }
\* The program is one the theorems speak of.
ASSUME MCTrainsInPlace == TrainsInPlace

Symmetric == Permutations({a, b, z}) \cup Permutations(Ptr)
=============================================================================
