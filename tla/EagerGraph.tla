------------------------------ MODULE EagerGraph ------------------------------
(***************************************************************************)
(* Whole-step CUDA graphs: _graphedStep of                                 *)
(* src/lightning/core/loops/training_loop.ts over the capture primitives   *)
(* of src/runtime/node/cuda/eager_graph.ts and the residency cache.        *)
(*                                                                         *)
(* A fit runs WarmupSteps eager steps, then one step whose uploads and     *)
(* launches are only recorded, and from then on copies each batch into the *)
(* captured input buffer and replays the recording.  A capture that throws *)
(* disables graphs and the step runs again eagerly; a gradient the capture *)
(* has left in p.grad is not zeroed first.  After every batch the          *)
(* training loop flushes the cache; after the fit teardownAfterFit         *)
(* destroys the graph, flushes and drains the pool.                        *)
(*                                                                         *)
(* Bounds of the model: one input array per step, and one array for what   *)
(* the step makes, its loss and its gradients; the device never runs out   *)
(* of memory during a fit.                                                 *)
(***************************************************************************)
EXTENDS ResidentCache

CONSTANTS
    Params,          \* the weights: arrays that live as long as the model
    Program(_, _, _), \* Program(x, y, g): the launches of a step on batch x that makes y,
                     \* and adds to the gradient g unless p.grad is null (None)
    TailLaunches,    \* the launches of a step after its first gradient is in p.grad
    WarmupSteps,     \* cudaGraphWarmupSteps
    CallbacksTouch,  \* whether callbacks access weights between the steps of a fit
    CaptureFailures  \* where a capture can throw, of CapturePlaces

VARIABLES
    mode,     \* "off" (no runner), "warmup", "upload", "capture", "replay",
              \* "disabled", "teardown"
    seen,     \* r.seen
    step,     \* the launches the running step has still to make
    batch,    \* the input array of the step
    loss,     \* the array the step makes
    grad,     \* the gradient that p.grad refers to when the step starts, None for null
    graph,    \* the captured graph: tape, captured input and loss, r.inputs, r.lossDptr
    work,     \* what the running replay has still to execute
    dropped   \* arrays no variable of the program refers to any more

graphVars == << mode, seen, step, batch, loss, grad, graph, work, dropped >>
gvars == << vars, graphVars >>

NoGraph == [tape |-> << >>, input |-> None, output |-> None, inPtr |-> None, lossPtr |-> None]

\* Before a gradient is in p.grad, from then to the last zeroGrad, after it.
CapturePlaces == {"pass", "update", "end"}

ASSUME GraphAssumption ==
    /\ Params \subseteq Host
    /\ WarmupSteps \in Nat /\ TailLaunches \in Nat
    /\ CaptureFailures \subseteq CapturePlaces
    /\ \A x, y \in Host, g \in Host \cup {None} : Program(x, y, g) \in Seq(Kernels)

GInit ==
    /\ RInit
    /\ mode = "off" /\ seen = 0 /\ step = << >>
    /\ batch = None /\ loss = None /\ grad = None
    /\ graph = NoGraph /\ work = << >> /\ dropped = {}

-----------------------------------------------------------------------------
Idle == Ready("idle")
Between == Idle /\ step = << >>

\* An array just made on the host.
Fresh(h) == h \in alive \ (Params \cup dropped) /\ ~Resident(h) /\ hostHas[h]

Ops(tp, kind) == { i \in DOMAIN tp : tp[i].op = kind }
GraphHosts ==
    { graph.tape[i].host : i \in Ops(graph.tape, "copy") }
    \cup UNION { { graph.tape[i].kern.args[j].host : j \in DOMAIN graph.tape[i].kern.args }
                 : i \in Ops(graph.tape, "launch") }

\* Variant: the warm-up runs one step too many.
WarmingUpLate == mode \in {"off", "warmup"} /\ seen <= WarmupSteps

WarmingUp == mode \in {"off", "warmup"} /\ seen < WarmupSteps

\* _eagerTrainStepCore, during warm-up and after graphs were disabled.
EagerStep(x, y) ==
    /\ Between
    /\ Fresh(x) /\ Fresh(y) /\ x # y
    /\ \/ WarmingUp /\ mode' = "warmup" /\ seen' = seen + 1
       \/ mode = "disabled" /\ UNCHANGED << mode, seen >>
    /\ step' = Program(x, y, grad)
    /\ batch' = x /\ loss' = y
    /\ UNCHANGED << vars, grad, graph, work, dropped >>

StepLaunch ==
    /\ step # << >>
    /\ Launch(Head(step))
    /\ step' = Tail(step)
    /\ UNCHANGED << mode, seen, batch, loss, grad, graph, work, dropped >>

DropStep ==
    /\ batch' = None /\ loss' = None /\ grad' = None
    /\ dropped' = dropped \cup ({batch, loss, grad} \ {None})

\* The step is done with zeroGrad: eagerFlush, and the loop forgets its arrays.
EagerStepEnds ==
    /\ Between
    /\ mode \in {"warmup", "disabled"} /\ batch # None
    /\ StartWalk("flush")
    /\ DropStep
    /\ UNCHANGED << mode, seen, step, graph, work >>

\* The capture branch uploads and pins the batch for real ...
CaptureUpload(x, y) ==
    /\ Between /\ batch = None
    /\ Fresh(x) /\ Fresh(y) /\ x # y
    /\ mode \in {"off", "warmup"} /\ ~WarmingUp
    /\ mode' = "upload"
    /\ step' = << [args |-> << [host |-> x, role |-> "in"] >>, scratch |-> FALSE, pins |-> {x}] >>
    /\ batch' = x /\ loss' = y
    /\ UNCHANGED << vars, seen, grad, graph, work, dropped >>

\* ... and then records the step (beginEagerCapture).
BeginCapture ==
    /\ mode = "upload" /\ Between
    /\ mode' = "capture"
    /\ capturing' = TRUE /\ tape' = << >>
    /\ graph' = [graph EXCEPT !.inPtr = dptr[batch]]
    /\ step' = Program(batch, loss, grad)
    /\ UNCHANGED << poolVars, entryVars, pinned, capturePinned, alive, dataVars, callVars,
                    ghosts, seen, batch, loss, grad, work, dropped >>

\* endEagerCapture, and the first replay.
EndCapture ==
    /\ mode = "capture" /\ Between
    /\ mode' = "replay"
    /\ capturing' = FALSE /\ tape' = << >>
    /\ graph' = [graph EXCEPT !.tape = tape, !.input = batch, !.output = loss,
                              !.lossPtr = dptr[loss]]
    /\ work' = tape
    /\ pc' = "replay"
    /\ UNCHANGED << poolVars, entryVars, pinned, capturePinned, alive, dataVars, kern, got,
                    scratchPtr, scan, ghosts, seen, step, batch, loss, grad, dropped >>

\* An illegal host read or sync, or the driver, makes the capture throw: the
\* recording is dropped, the marks of the entries stay, and the step starts
\* over eagerly with new arrays y.  Nobody calls zeroGrad: a gradient that the
\* capture put into p.grad stays, and the new pass adds to it.
CaptureFails(y, place) ==
    /\ place \in CaptureFailures
    /\ mode = "capture" /\ Idle
    /\ CASE place = "pass"   -> Len(step) > TailLaunches
         [] place = "update" -> Len(step) <= TailLaunches
         [] place = "end"    -> step = << >>
    /\ Fresh(y) /\ y \notin {batch, loss}
    /\ mode' = "disabled"
    /\ capturing' = FALSE /\ tape' = << >> /\ capturePinned' = {}
    /\ graph' = NoGraph
    /\ grad' = IF place = "update" THEN loss ELSE None
    /\ step' = Program(batch, y, grad')
    /\ loss' = y /\ dropped' = dropped \cup ({loss} \ {grad'})
    /\ UNCHANGED << poolVars, entryVars, pinned, alive, dataVars, callVars, ghosts,
                    seen, batch, work >>

-----------------------------------------------------------------------------
\* Variant: the next batch is not copied into the captured buffer.
ReplaySameBatch(x) ==
    /\ Between /\ mode = "replay"
    /\ Fresh(x)
    /\ batch' = x
    /\ work' = graph.tape
    /\ pc' = "replay"
    /\ UNCHANGED << poolVars, entryVars, pinned, captureVars, alive, dataVars, kern, got,
                    scratchPtr, scan, ghosts, mode, seen, step, loss, grad, graph, dropped >>

\* copyHostToDeviceAsync of the next batch, then replay.
ReplayStep(x) ==
    /\ Between /\ mode = "replay"
    /\ Fresh(x)
    /\ batch' = x
    /\ devHas' = [devHas EXCEPT ![graph.inPtr] = x]
    /\ work' = graph.tape
    /\ pc' = "replay"
    /\ UNCHANGED << poolVars, entryVars, pinned, captureVars, alive, hostHas, kern, got,
                    scratchPtr, scan, ghosts, mode, seen, step, loss, grad, graph, dropped >>

\* The recorded launch, reading the new batch where it read the captured one.
OnBatch(k) ==
    [k EXCEPT !.args = [i \in DOMAIN k.args |->
        IF k.args[i].host = graph.input THEN [k.args[i] EXCEPT !.host = batch] ELSE k.args[i]]]

Recorded ==
    LET o == Head(work) IN
    \/ /\ o.op = "copy"
       /\ devHas' = [devHas EXCEPT ![o.ptr] = IF hostHas[o.host] THEN o.host ELSE None]
       /\ UNCHANGED << hostHas, ghosts >>
    \/ /\ o.op = "launch"
       /\ KernelEffect(OnBatch(o.kern), o.ptrs, o.scr)
       /\ spoilt' = (spoilt \/ ~SeesArguments(OnBatch(o.kern), o.ptrs))
       /\ UNCHANGED << lost, abandoned >>

RunRecorded ==
    /\ pc = "replay" /\ work # << >>
    /\ Recorded
    /\ work' = Tail(work)
    /\ UNCHANGED << poolVars, entryVars, pinned, captureVars, alive, callVars,
                    mode, seen, step, batch, loss, grad, graph, dropped >>

\* The host copies the loss out, and the training loop flushes.
ReplayEnds ==
    /\ pc = "replay" /\ work = << >>
    /\ pc' = "flush" /\ scan' = lru
    /\ DropStep
    /\ UNCHANGED << poolVars, entryVars, pinned, captureVars, alive, dataVars, kern, got,
                    scratchPtr, ghosts, mode, seen, step, graph, work >>

\* teardownAfterFit: the graph is destroyed, the cache flushed, the pool drained.
FitEnds ==
    /\ Between /\ batch = None
    /\ mode \in {"warmup", "replay", "disabled"}
    /\ StartWalk("flush")
    /\ mode' = "teardown" /\ seen' = 0
    /\ graph' = NoGraph
    /\ UNCHANGED << step, batch, loss, grad, work, dropped >>

TeardownEnds ==
    /\ Between /\ mode = "teardown"
    /\ drainPool
    /\ mode' = "off"
    /\ UNCHANGED << entryVars, pinned, captureVars, alive, dataVars, callVars, ghosts,
                    seen, step, batch, loss, grad, graph, work, dropped >>

-----------------------------------------------------------------------------
\* Host reads and writes: the step's own (logging), the callbacks', the
\* user's outside a fit.  A capture forbids them (CaptureFails).
GHostAccess(h, write) ==
    /\ h \notin dropped
    /\ h \in Params => CallbacksTouch \/ mode \in {"off", "disabled"}
    /\ mode \notin {"upload", "capture"}
    /\ HostAccess(h, write)
    /\ UNCHANGED graphVars

GCollect(h) ==
    /\ h \in dropped
    /\ Collect(h)
    /\ UNCHANGED graphVars

\* The registry's callbacks.
GFinalize ==
    /\ \/ \E h \in Host : Finalize(h)
       \/ \E e \in late : LateFinalize(e)
    /\ UNCHANGED graphVars

\* A new array never stands in for one the graph still names.
GNewArray(h) ==
    /\ h \notin GraphHosts
    /\ NewArray(h)
    /\ dropped' = dropped \ {h}
    /\ UNCHANGED << mode, seen, step, batch, loss, grad, graph, work >>

CacheStep ==
    /\ \/ AcquireScratch \/ ArgResident \/ ArgMissing \/ CreateEntry
       \/ EvictStep \/ EvictPassEnds
       \/ RunKernel \/ RecordKernel \/ ReleaseScratch
       \/ FlushStep \/ ReleaseAllStep \/ WalkEnds
       \/ TrimStep /\ UNCHANGED << entryVars, pinned, captureVars, alive, dataVars, callVars, ghosts >>
    /\ UNCHANGED graphVars

GNext ==
    \/ \E x, y \in Host : EagerStep(x, y) \/ CaptureUpload(x, y)
    \/ \E y \in Host, place \in CapturePlaces : CaptureFails(y, place)
    \/ \E x \in Host : ReplayStep(x)
    \/ StepLaunch \/ EagerStepEnds \/ BeginCapture \/ EndCapture
    \/ RunRecorded \/ ReplayEnds \/ FitEnds \/ TeardownEnds
    \/ CacheStep
    \/ \E h \in Host, write \in BOOLEAN : GHostAccess(h, write)
    \/ \E h \in Host : GCollect(h) \/ GNewArray(h)
    \/ GFinalize
    \/ mode = "off" /\ StartWalk("releaseAll") /\ UNCHANGED graphVars

GSpec == GInit /\ [][GNext]_gvars
=============================================================================
