--------------------------- MODULE EagerGraphProps ---------------------------
(* What whole-step CUDA graphs must keep of eager training.                 *)
EXTENDS EagerGraph, ResidentCacheProps

GTypeOK ==
    /\ mode \in {"off", "warmup", "upload", "capture", "replay", "disabled", "teardown"}
    /\ seen \in 0..WarmupSteps
    /\ step \in Seq(Kernels \cup {[args |-> << [host |-> h, role |-> "in"] >>,
                                   scratch |-> FALSE, pins |-> {h}] : h \in Host})
    /\ {batch, loss, grad, graph.input, graph.output} \subseteq Host \cup {None}
    /\ {graph.inPtr, graph.lossPtr} \subseteq Ptr \cup {None}

\* Arrays whose marks promise what a recording has not done yet.
Promised ==
    LET ops == tape \o work IN
    { ops[i].host : i \in Ops(ops, "copy") }
    \cup UNION { { ops[i].kern.args[j].host : j \in DOMAIN ops[i].kern.args }
                 : i \in Ops(ops, "launch") }

(* The copies of a reachable array agree with its marks, during warm-up,    *)
(* between replays, after a failed capture and after the fit: what Coherent *)
(* says of the cache survives _graphedStep, which changes contents behind   *)
(* its back.                                                                *)
GraphCoherent ==
    \A h \in alive \ (Pending \cup Promised \cup dropped) :
        /\ dptr[h] = None => hostHas[h]
        /\ deviceFresh[h] => devHas[dptr[h]] = h
        /\ ~hostStale[h] => hostHas[h]

(* The value read back from r.lossDptr is the loss of the replayed batch.   *)
LossIsCurrent ==
    pc = "replay" /\ work = << >> => devHas[graph.lossPtr] = graph.output

(* The capture keeps every buffer it records until the fit ends: no flush,  *)
(* eviction or write-back between replays moves it.                         *)
CapturedStays ==
    [][mode = "replay" /\ mode' = "replay" =>
        \A h \in GraphHosts \cap alive : dptr'[h] = dptr[h]]_gvars

(* A replayed launch touches only memory the driver has allocated.          *)
ReplayInBounds ==
    pc = "replay" /\ work # << >> /\ Head(work).op = "launch" =>
        \A p \in (ToSet(Head(work).ptrs) \cup {Head(work).scr}) \ {None} : size[p] # 0

(* After the fit a host read of a parameter returns what training left:     *)
(* the host array has it, or its stale mark makes the read fetch it.        *)
FinalParams ==
    mode = "off" /\ Idle =>
        \A h \in Params : hostHas[h] \/ (hostStale[h] /\ devHas[dptr[h]] = h)

-----------------------------------------------------------------------------
(* The programs whose recording can stand in for the step: a step reads its *)
(* batch and writes its loss before it reads it, passes otherwise only      *)
(* weights, and pins every weight it passes, so that the warm-up leaves the *)
(* weights on the device.  A weight that is passed and never pinned (a      *)
(* frozen one) is uploaded during the capture, where an upload is recorded  *)
(* and marked as done: if the capture then throws, the mark is wrong.       *)
Passes(k, h) == \E j \in DOMAIN k.args : k.args[j].host = h

PassesAs(k, h, role) == \A j \in DOMAIN k.args : k.args[j].host = h => k.args[j].role = role

Weights ==
    { h \in Params : \E x, y \in Host \ Params :
          x # y /\ \E i \in DOMAIN Program(x, y, None) : Passes(Program(x, y, None)[i], h) }

\* A launch of a step on the batch x that makes y.
StepUses(k, x, y) ==
    /\ \A j \in DOMAIN k.args : k.args[j].host \in Weights \cup {x, y}
    /\ PassesAs(k, x, "in")
    /\ SafeLaunch(k)

FirstWritten(ks, y) ==
    \E n \in DOMAIN ks : /\ \A i \in 1..(n - 1) : ~Passes(ks[i], y)
                         /\ Passes(ks[n], y) /\ PassesAs(ks[n], y, "out")

TrainsInPlace ==
    \A x, y \in Host \ Params : x # y =>
        LET ks == Program(x, y, None) IN
        /\ \A i \in DOMAIN ks : StepUses(ks[i], x, y)
        /\ FirstWritten(ks, y)
        /\ \A h \in Weights : \E i \in DOMAIN ks : h \in ks[i].pins

(* A capture throws only while p.grad is null, before the first gradient or *)
(* after zeroGrad: the retry then starts with the gradients of a new step.  *)
(* With a gradient left the retry adds to memory nobody wrote (the run of   *)
(* MCEagerRetry.cfg).                                                       *)
FailsClean == "update" \notin CaptureFailures
=============================================================================
