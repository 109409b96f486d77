# mlfw: models, checks and proofs

mlfw is a deep-learning framework in TypeScript: tensors and autograd, a
training loop, a compiler from traced programs to kernels, and runtimes for
CPU, WebAssembly, WebGPU and CUDA.  This directory holds TLA+ models of its
stateful core, the TLC configurations that check them and the proofs TLAPS
checks.  `PROJECT.json` maps every definition to the source lines it stands
for and lists the hazards, the runs, the mutants and the findings.

All paths below are relative to the repository's `src/`.

## 1. The system

### 1.1 Components

| Component | State it keeps | Operations | What makes it correct |
|---|---|---|---|
| Size-class pool, `runtime/node/cuda/memory.ts` | free lists by class, class order, pooled and live bytes, limit | `acquire`, `release`, `drainPool`, `setPoolLimit`, trimming, retry on out-of-memory | a buffer has one owner; counters are exact; the limit holds; memory in the pool never makes a request fail |
| Residency cache, `runtime/node/cuda/resident.ts` | entry per host array: device buffer, `deviceFresh`, `hostStale`; LRU order; pins | gather for input, output, in place; evict; flush; release all; host-read hook; finalizer | host and device copies agree with the marks; no write is lost; no two entries share a buffer |
| Kernel launcher, `runtime/node/cuda_runtime.ts` | pointers gathered for the launch, scratch | `runCudaKernelResident`, teardown | every launch runs on the contents of its own arguments |
| Whole-step graphs, `lightning/core/loops/training_loop.ts`, `runtime/node/cuda/eager_graph.ts` | mode, warm-up count, captured input, loss pointer, recorded operations | warm-up, capture, failed capture, replay, teardown | training with replays is training without |
| Plan buffers, `compiler/passes/memory/plan_buffer_assignment.ts` | slot-to-buffer map, owners, free list | live ranges, expiry, donation, placement | no two live slots share a buffer |
| WebGPU plan executor, `runtime/webgpu.ts` | buffer table, carry exchange, read-back | steps, scan loops | steps read what they should; results reach the caller |
| Fusion cycle detector, `compiler/passes/fusion/graph_cycles.ts` | groups (union-find), ranks, edge sets | search for a path, merge, repair of the order | the answer is exact; the ranks stay a topological order |
| CUDA device plan, `runtime/node/cuda/device_plan.ts` | device buffers of a compiled plan, an armed graph | run, replay, release | the same for compiled plans |
| WASM pool, `runtime/node/wasm_pool.ts` | workers and their message handlers | dispatch, run, terminate | every answer reaches the run that asked |
| Autograd engine, `autograd/` | recorded nodes with saved tensors, dependency counts, accumulators, gradient mode | record, backward, release, accumulate | each node once, after all of its consumers; each parameter gets the derivative at the values the forward pass saw, once |
| Dispatcher and eager JIT, `dispatcher/` | operator tables, compiled-kernel cache | dispatch, compile, replay | the kernel found is the one for these shapes |
| Trainer, `lightning/core/` | epoch, step and batch counters, accumulation window, stop flag | fit, validate, the loops and their hooks | every gradient is used once; a fit stops when it should |
| Checkpoints and early stopping, `lightning/callbacks/` | best and latest files, wait count, best score | the hooks at the end of an epoch and of a validation | memory and disk agree; `last.ckpt` survives anything |
| Tracing, graph IR, fusion, pass managers, `compiler/` | SSA graph, use lists, fusion groups | trace, rewrite, fuse, lower | graphs stay well formed and acyclic |
| Schedules, tensor IR, code generation, numeric and classical libraries, tokenizers | mostly none | pure functions | numerical equality, tested numerically |

`PROJECT.json` has all components, with the reason for each one not modelled.

### 1.2 How they interact

The program is one JavaScript thread: a call runs to completion unless it
awaits, and awaits are rare on the CUDA path.  What is hard is therefore not
preemption but what happens *between* calls and *inside* long ones:

* One tensor operation gathers device buffers argument by argument.  Each
  missing buffer may evict others, which releases them to the pool, which may
  trim to the driver, all in the same call.
* `hostReadHook` sits behind the storage's data getter: any read of an
  array, in a callback, a logger or a checkpoint, is a download and changes
  the marks.
* Garbage collection drops arrays between calls; a `FinalizationRegistry`
  callback reclaims their entries at an arbitrary later time.
* `cuMemAlloc` may fail at any acquire; the call unwinds half done.
* A captured graph writes device memory on every replay without going through
  the cache at all.
* A compiled plan maps many slots to few buffers and runs loops over them.
* An optimizer changes parameters in place between the forward pass that
  recorded them and a backward pass that uses them; gradients of one call are
  added to those of the last unless `zeroGrad` came between.
* Any hook of a callback or of the user's module may throw and ends the fit
  where it is; the trainer and its callbacks keep their state for the next one.
* The process may die between two file operations of a checkpoint; a new one
  finds only the files.
* The loops flush the epoch's metrics and call the callbacks, in that order.

### 1.3 Modules

| Module | Models | Extends |
|---|---|---|
| `DevicePool` | the pool and the driver's allocations | |
| `DevicePoolProps` | its properties | `DevicePool` |
| `SumLemmas` | sums over finite sets, for the byte counters | |
| `DevicePool_proof` | theorems about the pool | `DevicePoolProps`, `SumLemmas` |
| `ResidentCache` | the cache and the launcher, on the pool | `DevicePool` |
| `ResidentCacheProps` | its properties | `ResidentCache`, `DevicePoolProps` |
| `ResidentCache_proof` | theorems about it | `ResidentCacheProps`, `DevicePool_proof` |
| `EagerGraph` | whole-step graphs, on the cache | `ResidentCache` |
| `EagerGraphProps` | its properties | both |
| `EagerGraph_proof` | theorems about it | `EagerGraphProps`, `ResidentCache_proof` |
| `PlanBuffers` | plan assignment and the executor on it | |
| `PlanBuffers_proof` | theorems about it | `PlanBuffers` |
| `GraphCycles` | the cycle detector of fusion, under any merges | |
| `GraphCyclesProps` | its comparison with the definition of a cycle | `GraphCycles` |
| `GraphCycles_proof` | theorems about it | `GraphCyclesProps` |
| `Backprop` | abstract: what `backward` promises | |
| `Autograd` | recording, the engine, accumulators, in-place optimizer steps | |
| `AutogradProps` | its properties; that it implements `Backprop` | `Autograd` (instance of `Backprop`) |
| `Autograd_proof` | theorems about it | `AutogradProps` |
| `Checkpoint` | ModelCheckpoint, one file operation at a time | |
| `Trainer` | the fit, training and validation loops, early stopping, accumulation, process death | `Checkpoint` |
| `TrainerProps` | their properties | `Trainer` |
| `Trainer_proof` | theorems about them | `TrainerProps` |
| `MC...` | the instances TLC checks | the above |

## 2. The models

### 2.1 DevicePool

`size`, `order`, `list`, `pooledBytes`, `liveBytes`, `peakLiveBytes` and
`poolCap` are the variables of `memory.ts`, plus what the driver has allocated.
`held[p]` is a ghost: the bytes the holder of `p` asked for.  `Acquire` is the
three ways `acquire` succeeds (free list, driver, driver after a drain),
`AcquireFails` the way it throws.  `Release` enters the trim loop, which is
modelled pointer by pointer (`TrimStep`), since each one goes to the driver and
is taken off the count before the limit is looked at again; `phase` keeps every
other operation out until it ends, since the call runs to completion.  That it
ends is no question: the code's loop walks over a finite map.  Holders release
with the bytes they acquired with: that the cache does so is what its own run
checks (`EntryOwnership`).  `FreeRaw` is the teardown, which gives pool
pointers to `free` directly: `liveBytes` keeps counting them, and `Accounting`
says by exactly how much.

### 2.2 ResidentCache

A launch is a sequence of actions that follows the code's call structure:
`Launch`, `AcquireScratch`, per argument `ArgResident` or `ArgMissing`,
`EvictStep`..., `CreateEntry`, then `RunKernel` and `ReleaseScratch`.
Contents are abstracted to *whose current contents a copy has*: `hostHas[h]`,
`devHas[p]`.  A kernel that sees its inputs makes the outputs' buffers
current; one that does not sets `spoilt`.  The marks `deviceFresh` and
`hostStale` are the code's own and are compared with the contents by `Coherent`.
`Collect`, `Finalize` and `NewArray` are garbage collection; `PoolStep` lets
the trim loop finish.  The registry's callback runs at any time after the array
died.  If the entry is still there it is reclaimed (`Finalize`); if it went
before, by an eviction, a flush or `releaseAllResident`, the callback finds
`freed` set (`LateFinalize`, for the entries in `late`), when the buffer may
have another owner and the array's place another array.

`GatherFails` abandons the call where `acquire` throws, in the same run as
everything else.  The ghost `lost` holds the scratch buffers such a call leaves
without an owner, and `NothingForgotten` allows no other buffer to be without
one.  The outputs it had marked fresh and stale keep the marks over buffers
nobody wrote; they were made for this call, so with the throw nobody refers to
them (`abandoned`), but the cache goes on counting, evicting and writing them
back.  `Coherent` and `NoLostWrite` speak of all other arrays.  A launch has
at most one scratch buffer here where `_acquireScratch` loops over several; a
throw between two loses the first as a throw after the last loses all.

### 2.3 EagerGraph

`mode` is where the runner of `_graphedStep` is.  During a capture uploads and launches
go to `tape`; `RunRecorded` executes it operation by operation on the raw
pointers it names.  `Program(x, y)` gives a step's launches on batch `x` with
loss `y` and gradient, one array for both; with `g`, what `p.grad` refers to
when the step starts, the backward pass adds to it.  `dropped` are arrays no
variable refers to after the step, which the collector may take.  Callbacks are
host accesses between steps (`CallbacksTouch`).

A capture may throw at the places in `CaptureFailures`: before a gradient is in
`p.grad` (`pass`), between then and the last `zeroGrad` (`update`), after it
(`end`).  The step then runs again eagerly, on the marks the capture left.  Nobody
zeroes the gradients first: after `update` the variable `grad` is the array the
captured backward pass would have written, and the retry reads it.

### 2.4 PlanBuffers

`assignPlanBuffers` step by step: `Expire`, `Donate`, `Place`, `StepPlaced`,
then `Assigned`.  `pinned` is the code's set; `LastUse` and `Def` are its live
ranges, stretched over loops.  Then the executor runs the plan on the buffers
it got: `RunStep`, and for a loop `StartLoop`, `NextRound`, `EndRound` (the
exchange of the carry buffers) and `LoopEnds`.  `holds[b]` is the slot whose
contents a buffer has.

### 2.5 GraphCycles

`root`, `rank`, `nodeAtRank`, `out` and `in` are the arrays of `GraphCycles`;
`root[x]` is the value of `find(x)`, so path compression, which changes no
value, does not show.  The depth-first search is stated by what it decides:
`Visited(S, lo, hi)` says that `S` contains everything the search from `lo`
visits, and there is a path through a third node iff every such set has a
node other than `lo` with an edge to `hi`.  (A least fixed point without
recursion: the proofs need it so.)  `Merge` is `wouldCreateCycle`
followed by `merge`, as priority fusion calls them.  It either moves the merged node to the
lower rank or starts the sort of the window, which is modelled node by node
(`PlaceNext`, `ReorderEnds`): the queue of the code is one order in which
nodes can be ready, the model takes all of them.  Priority fusion merges
producers with consumers, the model any two groups: the detector's own test
does the same.

### 2.6 Autograd and Backprop

The program is any sequence of recorded operations (`Forward`), optimizer
steps, `zeroGrad` and calls of `backward`.  Tensor `n` and the node that made
it share the number `n`: every recorded operation here has one output.
Elements of a tensor are equal, so a value is a number; a shape is narrow or
wide, enough to tell a broadcast argument, whose gradient must be summed back,
from one that is not.  Five operations stand for the derivative formulas:
`add` reads nothing, `mul` reads its saved tensors, `sum` reads a saved shape,
`clamp` has an argument without a gradient, `detach` cuts the graph.  What
another formula would add is numerical.

A call of `backward` is three loops: `CountNode` and `CountSkip`
(`_countDeps`), `OrderNode` (the ready stack; the code pops the node pushed
last, the model any ready one, so what is shown does not depend on the
stack), `SkipNode`, `Accumulate`, `ApplyNode` (reduce, release, pass on).
`ApplyThrows` is a node whose saved tensors an earlier call released.

The abstract specification `Backprop` knows nothing of graphs: a call makes
gradients *due*, each is delivered to its parameter once, added to what it
has, and nothing else changes a gradient.  `ImplementsBackprop` maps `due` to
`Owed`, which computes the derivative in the other direction: forward, by
`Tangent`, along the recorded program, with the values the operations read
when they ran (the ghost `seen`).  So the engine's backward sweep over saved
tensors is compared with an independent definition, also after optimizer steps have
changed the parameters in between.  A call on a graph that was released is
exempt (`sound`); the code may throw or pass on a gradient it did not reduce.

### 2.7 Checkpoint and Trainer

`OnTrainEpochEnd` turns the hook of ModelCheckpoint into a list of file
operations, `todo`, in the code's order: open the temporary file, fill it,
rename it, insert or push the entry, delete what drops out.  Each is a step,
may throw (`SaveThrows`; `_tryDelete` swallows its own failure), and the
process may die before any of them (`Crash`), which leaves `disk` and `tmp`
and nothing else.  A checkpoint is known by epoch, step and life of the
process; `whole` says that its last byte was written.  The death is that of a
process: the operating system keeps what was written.  There is no `fsync`, so
nothing here speaks of a power failure.

`Trainer` follows `FitLoop.run`: `StartEpoch` reads the accumulation window
before the scheduler's hook changes it, as the code does; `Batch` is a step
with its optimizer steps at the window's end; `StepThrows` and `UpdateThrows`
end the fit at every place a hook can throw, among them in an optimizer's step
and between the step and its `zeroGrad` (`torn`); `BackwardThrows` ends it in the
backward pass, with the gradients of any of the optimizers accumulated
(`broken`).  Steps and backward passes that stop half way are told apart by
optimizer, not by parameter.  `TrainEpochEnds`, `EpochEnds` and `Validate` follow.
`pending[g]` and `used[g]` say which batches' gradients optimizer `g` has in
its parameters and has stepped on.  The trainer is used for several fits, and
validates on its own between them.

`conf.feed` is whether the monitored metric reaches a callback at all.  The
loops flush `state.epochMetrics` before they call the callbacks, so a callback
finds a value there only if an earlier one in its list has put it back.  No
callback of the repository does; one a user writes can.  `feed` stands for it: TRUE
in the two configurations of `trainer` with a monitored checkpoint, whose
`_bestK` would otherwise stay empty, FALSE everywhere else.  So what the runs and
theorems say of scores (`BestOnDisk`) is about such a program; with the repository's
callbacks alone a monitored ModelCheckpoint saves `last.ckpt` and nothing else, and
EarlyStopping never stops a fit (`trainer_stop`).

## 3. What the runs check

| Run | Question | Result |
|---|---|---|
| `device_pool` | ownership, accounting, limit and out-of-memory behaviour of the pool, in any order of calls | holds |
| `resident_cache` | coherence, ownership, eviction and write-back, also when an `acquire` throws in the middle of a launch and finalizers run late | holds |
| `resident_evict` | does a launch always see its arguments? | **violated** |
| `eager_graph` | does training with replays keep the marks, the loss and the parameters right? | holds |
| `eager_read` | ... also if a callback reads a weight between replays? | **violated** |
| `eager_retry` | ... also if the capture throws with a gradient in `p.grad`? | **violated** |
| `eager_reuse` | ... does a replay touch only allocated memory, whatever is collected? | **violated** |
| `plan_buffers` | are shared buffers safe, and does an execution on them read the right contents? | holds |
| `graph_cycles` | is the detector's answer exact, and does its order survive any sequence of merges? | holds |
| `backward` | does every parameter get its derivative, once, whatever is shared, broadcast, cut, released or changed in place? | holds |
| `trainer` | gradients over accumulation and limits, and checkpoints, with throws, several fits and process death | holds |
| `trainer_stop` | does early stopping stop a fit that only logs its metric? | **violated** |

The five violations are findings:

1. **Eviction inside one launch** (`resident_evict`).  The eviction for a
   later argument may free the buffer just gathered for an earlier one, and
   the pool hands it out again: one pointer for two arguments.  The pins of
   optimizer steps avoid it for the weights; a forward launch has none.
2. **A host read between replays** (`eager_read`).  Replays write weights
   without marking them; `hostReadHook` clears the mark of the captured step,
   and later updates never reach the host.
3. **The eager retry of a capture** (`eager_retry`).  A capture that throws after
   its backward pass leaves in `p.grad` gradients whose launches were only
   recorded; the retry of the step adds to them and trains on what was in the
   buffer.  An optimizer that reads gradients on the host, as SGD does, makes
   every capture throw there.
4. **Collected arrays of a captured step** (`eager_reuse`).  The graph keeps
   raw pointers, the cache keeps weak references; a collected array's buffer goes back
   to the pool, and from there to the driver, while every replay writes it.
5. **Early stopping sees no metric** (`trainer_stop`).  The loops flush and
   reset the epoch's metrics before they call the callbacks
   (`validation_loop.ts:41`, `hooks.ts:131`), and `EarlyStopping._check` reads
   the metrics that were reset.  The test that says it stops a real run asserts
   only that fewer than `maxEpochs + 1` epochs ran.

### 3.1 Bounds

* `device_pool`: four addresses on a device of 2048 bytes, requests in two
  classes (512 with two request sizes, 1024), limits of -1, 512 and 1100.
  Four units are enough for two classes to compete for the device, for a
  drain to free one class for the other, for an exhausted class in the middle
  of the trimming order, and for a retry that still fails.  `MaxRawFreed`
  stops the teardown's leak of the counter after 512 bytes: the counter only
  grows and nothing reads it.
* `resident_cache`: three arrays, room for two in the cache and three on the
  device; a launch that pins and updates a weight, one with scratch whose output
  comes before its input, one with scratch that works in place.  An eviction
  finds pinned, stale and clean entries in every order, and the second launch
  may throw after it has marked its output, once the scratch buffer of an
  earlier one that threw is lost.  `MaxLate` bounds the callbacks that are
  outstanding at a time, eight: one past the bound counts as run at once.
  Pointers are symmetric.
* `eager_graph`: one weight, three other arrays, one warm-up step: the fit, its
  capture, any number of replays, the teardown and a second fit of the same
  model.  A step is three launches (forward, backward, update), so a capture
  throws before, between and after them.  Arrays and pointers are symmetric.
  `MaxLate` is 0 here: a late callback changes nothing but `late`, which
  `resident_cache` checks and the theorems say for every bound.
* `plan_buffers`: 1,608 plans of four steps over slots of one or two units,
  straight or with one loop of one to three steps run twice, with at most one
  donation.  Four steps let a buffer be passed on twice and a free buffer be
  too small, exactly right and too large; two rounds exchange the carry there and back.
* `graph_cycles`: all 1,024 graphs on five operations.  A merge of the first
  and the last leaves a window of three, enough for the sort to interleave
  nodes before and after the merged one, and for a later merge to rely on it.
* `backward`: one narrow and one wide parameter (of two elements), every
  program of up to three operations of the five kinds, two calls of `backward`
  on any nodes and one optimizer step, at any time between them.  Three
  operations make a diamond, a node used twice by one consumer, a shared
  subexpression whose second use is deeper than its first (the order a plain
  search gets wrong), a product of a result with a parameter, and a second
  call that meets nodes the first released.
* `trainer`: five configurations, each the one where a decision of the loops
  or callbacks happens (a window that changes between epochs and is cut by the
  step limit; the two best of three epochs with `last.ckpt`; all, every second
  epoch; the latest one; a validation every second epoch), two optimizers, three
  scores, two fits and two lives of the process.  `MaxWait` bounds the wait
  count when `validate` is called on its own.  `trainer_stop` is the one
  configuration of that test, one fit.

### 3.2 Fairness

`GradientsArrive` needs `WF` on `Engine`.  The three loops of `backward` are
synchronous: once one runs
nothing else does, and the thread does not stop in it.  No other liveness is claimed: nothing
in the code obliges a caller to make the next call, and nothing obliges a
process to live on.

### 3.3 Deadlock

TLC checks deadlock in every run but those of `PlanBuffers`, whose behaviour
ends when the plan has run, and of `GraphCycles`, where it ends when no two groups
are left to merge.  It is off for `Autograd` and `Trainer` too: a program ends when
its tensors, calls and steps are used up, a process after its last fit.

## 4. What is proved

TLAPS checks eight proof modules; the theorems hold for every value of the
constants that meets the named assumptions, where a run checks one small
instance.

| Theorem | Statement | Assumption |
|---|---|---|
| `PoolTypes`, `PoolOwnership` | `Spec => []TypeOK`, `Spec => []Ownership` | `BytesAssumption`, `DeviceAssumption` |
| `PoolNoLeak`, `PoolAccounting`, `PoolWithinLimit`, `PoolNoSpuriousOOM` | `Spec => []` of `NoLeak`, `Accounting`, `WithinLimit`, `NoSpuriousOOM` | the same |
| `PoolNoDoubleHandOut` | `Spec => NoDoubleHandOut` | the same |
| `SizeClass` | the class of a request is no smaller than the request | `BytesAssumption` |
| `CacheTypeOK`, `CacheOwnership`, `CacheForgetsNothing`, `CacheCounts`, `CacheEvicts` | `RSpec => []` of `RTypeOK`, `EntryOwnership`, `NothingForgotten`, `CacheAccounting`, `EvictionSuffices` | the pool's and `HostAssumption` |
| `CachePinnedStays` | `RSpec => PinnedStays` | the same |
| `CacheCoherent`, `CacheNotSpoilt`, `CacheLosesNoWrite` | `RSpec => []Coherent`, `[]NotSpoilt`, `NoLostWrite`, where `GathersSafely` | the same |
| `GraphTypeOK`, `GraphOwnership` | `GSpec => []GTypeOK`, `[]EntryOwnership` | the cache's and `GraphAssumption` |
| `GraphCapturedStays` | `GSpec => CapturedStays` | the same |
| `GraphStaysCoherent`, `GraphNotSpoilt`, `GraphLossIsCurrent`, `GraphFinalParams` | `GSpec => []` of `GraphCoherent`, `NotSpoilt`, `LossIsCurrent`, `FinalParams`, where `TrainsInPlace`, `FailsClean`, `WarmupSteps # 0` and `~CallbacksTouch` | the same |
| `PlanNoOverlap`, `PlanBigEnough`, `PlanTypeOK` | `Spec => []NoOverlap`, `[]BigEnough`, `[]TypeOK` | `PlanAssumption` |
| `PlanReadsOwn` | `Spec => []ReadsOwn`, where `PlansSound` | `PlanAssumption` |
| `CyclesTopoOrder`, `CyclesReorderCompletes`, `CyclesTypeOK`, `CyclesExactAnswer` | `Spec => []` of `TopoOrder`, `ReorderCompletes`, `TypeOK`, `ExactAnswer` | `GraphAssumption` |
| `BackwardIsTopological` | `ASpec => []InOrder` | `AutogradAssumption` |
| `TapeTypeOK` | `ASpec => []ATypeOK` | `AutogradAssumption` |
| `EngineImplementsBackprop` | `ASpec => ImplementsBackprop`, the refinement | `AutogradAssumption` |
| `CountsAreEdges` | `ASpec => [](EngineTypeOK /\ Counts)` | `AutogradAssumption` |
| `GradientsOnce` | `TSpec => []GradientOnce` | `OptimizersAssumption` |
| `LastCheckpointSurvives` | `TSpec => LastSurvives` | `ConfigsAssumption`, `ScoresAssumption` |
| `TrainerTypeOK`, `BestCheckpointsOnDisk` | `TSpec => []TTypeOK`, `[]BestOnDisk` | `ConfigsAssumption`, `ScoresAssumption` |

The assumptions are facts about inputs, and TLC evaluates each of them in the
runs:

* `BytesAssumption`: requests are positive and at most 2^53 bytes, beyond
  which JavaScript's numbers are not exact.
* `DeviceAssumption`: the driver aligns what it allocates to 512 bytes, so it
  does not run out of addresses before it runs out of memory; the constants of
  `_limitBytes` are positive.
* `HostAssumption`: a launch has arguments, each an array of the program with
  a role, and pins arrays; `Cap` is a natural number.
* `GraphAssumption` of `EagerGraph`: parameters are arrays, a step's launches
  are launches.
* `PlanAssumption`: plans have the types the builder gives them, loops do not
  overlap, a donation is from an input to the only output.
* `GraphAssumption` of `GraphCycles`: operations are numbered in topological
  order, so an edge goes from a lower to a higher number (priority fusion
  numbers them by `UseDefAnalysis.topologicalOrder`).
* `AutogradAssumption`: there is a parameter, a wide tensor has elements,
  `None` is no gradient.
* `ConfigsAssumption`, `ScoresAssumption`: limits, windows and patience are
  positive integers; scores are numbers, finitely many (so that those up to
  one can be counted), and `Absent` is none.

Some theorems have hypotheses of their own, because without them they are false:

* `GathersSafely`, of the contents of the cache: a launch writes no array it
  also has as another argument, and either all arrays fit into the cache
  together or a launch has pinned its arguments by the time it gathers the
  last.  Where this fails, `resident_evict` shows a launch whose argument is
  evicted while the next is gathered.  The hypothesis is what the callers do:
  device Adam pins the weight before it gathers it and its moments;
  `training_loop.ts:252` pins the batch it uploads; outputs of operations are
  allocated anew.  The instance of `resident_cache` meets it by the pins (its
  three arrays do not fit), that of `eager_graph` by its limit.
* `PlansSound`, of reading on shared buffers: every plan is of the form
  `emitScanLoop` means to make.  A slot is written by one step and read by
  later ones, what a loop exchanges is written in that loop and known to it
  alone, what a loop starts from is there when it starts, and a loop runs at
  least once.  A body that returns a carry unchanged, or one carry twice
  (`scan_split.ts:204`), and a scan of no iterations are not of this form:
  there the executor reads what nobody wrote, which is listed as a hazard.
  `MCPlanBuffers` lets TLC evaluate `SoundPlan` on each of its plans.
* `TrainsInPlace`, `FailsClean`, `WarmupSteps # 0` and `~CallbacksTouch`, of the
  contents in a fit.  A program trains in place when a step reads its batch, writes
  its loss and gradient before it reads them, passes otherwise only weights, gathers safely (a
  `SafeLaunch`, as above) and pins every weight it passes, as device Adam does
  (`cuda_runtime.ts:385`).  `MCEagerGraph` has TLC evaluate it.  The parts
  one would rather do without are needed, as TLC shows on the instance of
  `eager_graph` without them.  Without a warm-up (`cudaGraphWarmupSteps: 0`, which the trainer
  accepts) or with a weight that is passed and not pinned (a frozen one), a
  weight's upload is recorded and marked done; a capture that then throws
  leaves the mark of an upload that never ran, and without a warm-up every
  replay also uploads the old host bytes again: `GraphCoherent`, `NotSpoilt` and
  `FinalParams` are violated.  Callbacks that touch the weights are the
  finding of `eager_read`.  `FailsClean` says that no capture throws between its first
  gradient in `p.grad` and its last `zeroGrad`: one that does is the finding of
  `eager_retry`.

**Sums.**  The byte counters are sums over functions, which the community
modules define as folds, that is by a recursive function on subsets.  The
library's induction theorems take an operator, which no backend can
instantiate; `SumLemmas` gets its induction from the first-order minimum
principle `WFMin` and the well-foundedness of strict inclusion instead: the
set of subsets on which the claim fails has a minimal member, and that one
is refuted.  `FoldExists` shows so that the recursive function exists;
`SumChange` then says what changing one summand does.  The paths of
`GraphCycles_proof` are handled in the same way.

**Pool.**  `Ownership` is inductive only together with the sizes: that the
pointer `acquire` pops is in no other free list follows because every list
holds only pointers the driver allocated with that list's class.  On
`OwnershipInv` rests the rest of `PoolInv`: every class with a pointer is a
key of the map at or after the place the trim loop has reached (`NoLeak`), the
counters are the sums (`CountInv`; `WithinLimit` needs that the loop ends only
below the limit or with nothing left), and a refused request found the device
full of what callers hold (`NoSpuriousOOM`), since the drain before the retry
has emptied every list.

**Cache.**  `CacheInv` is the bookkeeping: who owns which buffer, what
`_entries` and `_defBytes` say, where the running call stands.  It is not
inductive without `PoolInv` (that the pointer `acquire` returned was nobody's
is the pool's knowledge), and `PoolInv` is kept because every step of the
cache is a step of the pool or leaves it alone; so both are proved together,
action by action.  The steps are stated for `CacheNext`, in which
a launch may also be recorded and its kernel is any launch, so that the
whole-step graphs use the same lemmas.  `ContentInv` is the second invariant, of
the contents: the copies agree with the marks at each point *inside* a call, where a
buffer has been taken and its kernel has not run, and what a launch has
gathered is still its arguments' (`GatheredInv`); this is where
`GathersSafely` is used.

**Whole-step graphs.**  A step of a fit is a step of the cache or one of six
that work behind its back.  `GInv` adds which calls can run in which mode and
that the arrays of a recording are pinned or have no entry (`HostsKept`): a
launch in capture mode gives an array its entry and its pin in one step, and in replay
mode nothing launches, so nothing makes an entry for an array that lost its
pin.  With that no flush, eviction or finalizer can move a recorded buffer.

`GContentInv` follows the contents while marks and contents part: a capture
marks what its launches would write and writes nothing, a replay writes
without marking.  It is six conjuncts, each proved by a lemma over all steps.
`StepArrays`: which arrays the step may use, and that it uses no other.
`ContentsInv`: the settled arrays agree with their marks, that is all but the
dropped ones and the loss of a captured or replayed step; it is the cache's
`ContentInv` with that exception, and outside a capture the cache's lemmas
are cited as they are.  `WarmInv`: after the first step of a fit each weight is pinned
and fresh on the device, or the running step has still to make it so; so a
capture of a warm fit finds its weights there and records no copy.
`CaptureInv`: every recorded launch names the buffers its arrays have
(`StepOp`), and the capture is at one of three places with its loss: no launch has
passed it, the launch under way makes it, or a recorded one does (`MadeFirst`:
before any other reads it, and no launch after it has the loss's buffer as
scratch; the buffer may have been scratch before).  `GraphInv`: in replay
mode the same holds of the graph, whose input and output buffers are no other
array's.  `ReplayInv`: the input buffer has the batch of the replay, and what
is left of the recording makes the loss unless it is made.  A recorded launch
then finds its arguments (`RecordedRuns`), and leaves every settled array as
its marks say: what it writes are weights, whose marks promised that, and the
loss.

**Plan.**  `NoOverlap` is not inductive: it says nothing of buffers that are
free.  `BufferInv` adds that all slots of a free buffer are past their last use
(`FreeIsDead`), and all slots but the owner of one in use
(`DisownedIsDead`), which is what makes donation safe; that a buffer is in use
only if the slot it is named after has it (`NamedAfter`), so a new buffer has
no earlier slots; that pinned slots are alone (`PinnedApart`); and that the outputs
of earlier steps have been placed (`Placed`), so a slot without a buffer has
not been touched.  All step actions keep the conjunction.

The executor's invariant `ExecInv` says which slots' contents are in their
buffers: pinned ones no step writes (`Fixed`), pinned ones already written
(`Results`), those that share a buffer as long as some step, a loop counted
as one, will still read them (`Needed`), and a loop's carries (`CarryIn` of
the values that enter an iteration, `CarryOut` of those already made in it).
`Exchanged` says that a carry has the two buffers made for its slots, in one
order or the other, and any other slot the one it was assigned.  Contents are
lost only to a write of another slot of the same buffer; by `NoOverlap` the
two are not pinned and one is dead before the other (`SlotsApart`,
`StepKeeps`), and the moves of a loop write pinned slots only (`MoveExec`).

**Cycle detector.**  During the sort of a window the ranks are no order, so
`TopoOrder` alone is not inductive.  `CycleInv` describes an order *with a
hole*: the nodes in `left` have no rank, the ranks in `slots` no node, there
are as many of one as of the other (`Balanced`), and an edge between a placed node and
one in `left` respects every rank that is still free (`Ordered`).  That the
hole can always be filled needs the answer of the search: `Sortable` keeps the
set `S` it has left behind, closed under successors and without an edge to
the merged node.  The lowest node of `left` outside `S` is ready, or the merged node
itself is, or the lowest node of `S` (`OneIsReady`).  That a nonempty set of
numbers has a least element is proved from well-foundedness of strict
inclusion of finite sets.

`ExactAnswer` compares the search with paths in the graph of the groups, which
is computed from `edges` and `root`, not from the detector's own sets.  It needs
`LinksAreEdges`: `out` and `in` hold exactly the edges between different
groups.  A path goes up in rank at every edge (`PathsGoUp`), so `n` rounds of
lengthening find them all (`PathsClosed`, the set of paths is closed under one
more edge), and the cut at the rank of the goal drops only nodes no path to it
passes through (`SearchFindsPaths`, `SearchIsPath`).

**Autograd.**  That the order is right says nothing of nodes it does not hold
yet, so `InOrder` is not inductive.  `OrderInv` says what the counters mean:
while counting and ordering, `depCount[c]` is the number of edges into `c`
from nodes that are visited and not yet placed (`Counts`, edges as pairs of a node and a position, so
that a node used twice counts twice), and the ready nodes are the unplaced
ones without such edges (`Ordering`).  `Counting` keeps the visited nodes
closed under edges up to the queue.  The order is complete because an edge
leads to an older node (`Wired`): of the nodes not placed the newest has no
edge left into it, so it is ready (`NewestNode`, `Complete`).  `TypeInv` is the
invariant of the data: a node has the edges its operation has arguments, and a
copy and a shape for each or, once released, for none (`Buffers`); so what
`apply` reads is there unless it throws, and what it passes on is a gradient
(`PassedTyped`).

`EngineImplementsBackprop` says that the engine's reverse sweep gives what the forward
derivative of the recorded program gives.  It rests on `DerivInv`:

* `TapeInv`: the tape is what the operations recorded.  An edge leads to each
  argument that requires grad, and a node that was not released holds copies of
  the values its operation read, whatever the optimizer did to the leaves since.
* `CallInv`: in a call on buffers that were there (`sound`), the gradients that
  wait, each times the derivative of its node and the node's number of
  elements, add up to the derivative of the root (`Balance`); a leaf feeds the
  root exactly when it feeds a node where a gradient waits (`Reaching`); each waits in
  the shape of its tensor (`Waiting`).

`ApplyNode` keeps the balance by one equation for each derivative formula with its
reduction (`OutFacts`), the chain rule at the node (`ChainRule`), and a lemma
for one gradient added to one place (`ReceiveFacts`), used once per edge, so a
node used twice by one operation gets both.  When the engine comes to a leaf,
nothing else that waits depends on that leaf: of the nodes that do, the oldest
would have a child that does, and the order puts all that add to the leaf before it
(`QuietElsewhere`).  So the sum has one summand left, which is what the leaf
is owed (`GatheredIsOwed`).  A leaf with nothing gathered is owed nothing, and
nothing is owed at the end (`NothingGathered`, `NothingLeft`); a sound call
never throws (`ThrowsUnsound`).  Each action is then a step of `Backprop` or a
stutter (`PromiseStep`).

The derivative, `Feeds` and `Under` are recursive functions, that is `CHOOSE`n
by their equation, and a proof may use that equation only once some function
satisfies it.  `RecursionExists` shows this for every equation that looks back
along the tape, again by the minimum principle.

**Trainer.**  `GradientOnce` is inductive with the types.  `StopsEarly` is not
proved: `trainer_stop` refutes it.

**Checkpoint.**  `LastSurvives` is about one step, and needs to know what the
list of operations still to come looks like.  `TodoInv` says so: every
operation is stamped with the present step and life; a rename comes right
after the fill of the same file, a report right after the rename of the file
it reports, and a deletion last (`Chained`); and what the next operation relies
on is on disk (`Ready`).  The file on disk is then never newer than the stamps
(`LastWhole`).

`BestOnDisk` needs three more invariants.  `NamesInv`: no name is reported
twice, so that deleting what falls out of `_bestK` hits no file still reported.  A
new name is new because a hook runs after its epoch has trained a batch, which
moved `globalStep` on since the last report (`MovedOn`); for this
`LoopInv` knows that an epoch that starts has a batch to train.  `DiskInv`:
every reported file is there and whole, and one that is not reported is about
to be reported or deleted (`Awaited`), which is `BestOnDisk` with the place in
the hook.  `CountInv`: the entries with a score up to `s` are the first `Best(s)`
ones, `Best(s)` being the offers up to `s` or `saveTopK` if there were more.
An offer adds one to `Total(s)` from its own score on (`TotalOffer`), and to
the entries in the same way when it is inserted behind the ones as good
(`GrownCounts`); popping the last takes effect only where there are more than
`saveTopK`.

**Only model-checked.**  `GradientsArrive` is a liveness property, out of the
provers' reach.  `ReplayInBounds` and `StopsEarly` are checked only by runs that
refute them, so nothing is proved of them.

## 5. Not modelled, and the plan

Every component without a module is in `PROJECT.json` with its reason.  In
short: numerical content (kernels, derivative formulas, classical learning,
autotuning) and text (code generation, tokenizers, printers) have no state
for TLC to explore; the foreign-function layers are I/O.

Inside the modelled components these are left out: timing on the CUDA streams
(a copy or launch takes effect where it is issued), the JIT compilation of
kernels, logging, and the choice of fusion candidates.

More precisely, of what the modelled components do:

* Autograd: hooks on tensors, `GradMode`'s scopes, views and in-place
  operators other than the optimizer's; the derivative formulas of other
  operators.
* Trainer: manual optimization, the compiled step with gradient accumulation
  (it does not divide the loss, `docs/OUTLINE.md` item 88, and overwrites the
  gradients), learning-rate schedulers, the test and
  predict loops, gradient clipping.
* Checkpoints: what a file contains and how it is read back; a power failure;
  templates other than the default one (`checkpoint.ts:54`), under which two
  checkpoints can have one name (without `{step}`, from two fits; without both, from
  two epochs); `bestModelPath`, the path of the first entry of `_bestK` after the
  last insertion; scores that are NaN, which compare with nothing and so spoil the order
  of `_bestK`; loop limits of 0.
* Plans: whether the caller gets every result.  `runWebGPUPlan` reads back the
  arguments some step writes (lines 361-362 and 471).  The final carries and
  stacked outputs of a scan are written by the loop's copies and no step, so a plan that
  returns one, such as a recurrent layer that is not batch-first, leaves the
  caller's tensor as it was.  `PlanDone` does what the code does; no run asks.
* Gradient scaler: growth and back-off are arithmetic; that it divides in place
  gradients two parameters may share is listed as a hazard.

The models cover a small part of the repository's lines.  Most of it is
numerical kernels, text generation for five backends, rewriting passes whose
correctness is semantic equality of tensor programs, and libraries without state.
What is modelled is where several operations meet on shared state.

Some hazards in `PROJECT.json` have no property.  The one closest to the
models is a graphed fit that a step aborts: `fit` then skips the teardown, the
warm-up count stays used, and a next fit may capture with the weights not yet
on the device.  Their uploads are only recorded, and a capture that then fails leaves
their entries marked fresh with nothing in the buffers.  `EagerGraph` excludes
it by letting every fit complete its warm-up and end in its teardown.

Planned, in this order:

1. `EagerGraph` with fits that a step aborts, and with `Trainer`'s accumulation
   windows on the device: a gradient kept across a flush.
2. `DevicePlan`, on `DevicePool`: acquire a plan's buffers, run, arm and
   replay its graph, release; an acquire that throws half way.  Property: no
   buffer without an owner; a replay touches only the plan's buffers.
3. `WasmPool`: workers, messages and overlapping runs.  Property: a run
   resolves only after the answers to its own parts.
4. `ScanSplit`: loop bodies translated to slots and copies, as the source of
   the plans of `PlanBuffers`.
5. `PriorityFusion`, on `GraphCycles`: heap, versions and legality; and the group builder,
   which pairs groups without asking the detector.
6. `GradMode` and manual optimization, with asynchronous scopes.

Theorem planned: the contents of a fit whose frozen weights the capture
uploads, where no capture throws.
