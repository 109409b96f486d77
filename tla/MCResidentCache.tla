--------------------------- MODULE MCResidentCache ---------------------------
(* Weights w and a moment a, which deviceAdam pins, and an activation b.    *)
(* With both pinned the cache cannot make room for b: the launch with a     *)
(* scratch buffer then needs a fourth buffer, and acquire throws.  Its      *)
(* scratch buffer is lost, so the launch that makes a may throw after it    *)
(* has marked a.                                                            *)
EXTENDS ResidentCacheProps

CONSTANTS w, a, b

MCBytes == {512}
MCByteLength == [h \in Host |-> 512]
A(h, r) == [host |-> h, role |-> r]
MCKernels == {
    [args |-> << A(w, "inout") >>, scratch |-> FALSE, pins |-> {w}],
    [args |-> << A(a, "out"), A(w, "in") >>, scratch |-> TRUE, pins |-> {w, a}],
    [args |-> << A(a, "in"), A(b, "inout") >>, scratch |-> TRUE, pins |-> {a}] }

\* The addresses are interchangeable.
Symmetric == Permutations(Ptr)

(* The kernels of an unpinned forward pass: two arguments, none pinned.     *)
ForwardKernels == {
    [args |-> << A(a, "out") >>, scratch |-> FALSE, pins |-> {}],
    [args |-> << A(w, "in"), A(b, "out") >>, scratch |-> FALSE, pins |-> {}] }
=============================================================================
