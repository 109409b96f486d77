------------------------------- MODULE Trainer -------------------------------
(***************************************************************************)
(* Trainer.fit with its loops, src/lightning/core/loops/fit_loop.ts,       *)
(* training_loop.ts and validation_loop.ts, and the callbacks that steer   *)
(* them: EarlyStopping, GradientAccumulationScheduler, ModelCheckpoint.    *)
(*                                                                         *)
(* One trainer, used for several fits, in a process that may die and be    *)
(* started again.  A training step is one action: nothing else runs at its *)
(* awaits.  A batch is a number; pending[g] are the batches whose          *)
(* gradients the parameters of optimizer g hold, used[g] those it has      *)
(* stepped on.  The step is the eager one with automatic optimization.     *)
(***************************************************************************)
EXTENDS Checkpoint

CONSTANTS
    NumOptimizers,
    Configs,      \* the trainers and callbacks a program may construct
    MaxFits,      \* bound on the fits, over all lives of the process
    MaxLives,     \* bound on the lives
    MaxWait       \* bound on waitCount where validate is called on its own

Optimizers == 1..NumOptimizers

ASSUME OptimizersAssumption == NumOptimizers \in Nat
ASSUME ConfigsAssumption == \A c \in Configs :
    /\ c.maxEpochs \in Nat /\ c.limit \in Nat \ {0} /\ c.accum \in Nat \ {0}
    /\ c.maxSteps \in Int                            \* -1: no limit
    /\ DOMAIN c.schedule \subseteq Nat
    /\ \A e \in DOMAIN c.schedule : c.schedule[e] \in Nat \ {0}
    /\ c.interval \in Nat \ {0} /\ c.hasVal \in BOOLEAN
    /\ c.patience \in Nat \ {0} /\ c.onTrainEnd \in BOOLEAN
    /\ c.feed \in BOOLEAN
    /\ c.every \in Nat \ {0} /\ c.topK \in Int
    /\ c.saveLast \in BOOLEAN /\ c.monitor \in BOOLEAN

VARIABLES
    conf,
    pc,           \* "idle", or the place in the fit
    epoch, batchIdx, globalStep,
    accumulate,   \* trainer.accumulateGradBatches
    accumGrad,    \* its value at the start of the epoch
    shouldStop,
    waitCount, bestScore,   \* EarlyStopping
    pending, used,
    trained,      \* ghost: the batches that went through a backward pass
    torn,         \* ghost: torn[g], stepped on, at least in part, without a zeroGrad
                  \* by a throw
    broken,       \* ghost: the batches whose backward pass threw
    fits, life,
    stale, seenBest         \* ghosts: the checks of this fit without progress

stopVars == << shouldStop, waitCount, bestScore, stale, seenBest >>
gradVars == << pending, used, trained, torn, broken >>
loopVars == << epoch, batchIdx, globalStep, accumulate, accumGrad >>
vars == << ckptVars, conf, pc, loopVars, stopVars, gradVars, fits, life >>

TInit ==
    /\ CInit
    /\ conf \in Configs
    /\ pc = "idle"
    /\ epoch = 0 /\ batchIdx = 0 /\ globalStep = 0
    /\ accumulate = conf.accum /\ accumGrad = conf.accum
    /\ shouldStop = FALSE /\ waitCount = 0 /\ bestScore = Absent
    /\ pending = [g \in Optimizers |-> {}] /\ used = [g \in Optimizers |-> {}]
    /\ trained = 0 /\ torn = [g \in Optimizers |-> {}] /\ broken = {}
    /\ fits = 0 /\ life = 1
    /\ stale = 0 /\ seenBest = Absent

-----------------------------------------------------------------------------
\* FitLoop.run

Fit ==
    /\ pc = "idle" /\ fits < MaxFits
    /\ fits' = fits + 1
    /\ epoch' = 0
    /\ shouldStop' = FALSE
    /\ stale' = 0 /\ seenBest' = Absent
    /\ pc' = "epoch"
    /\ UNCHANGED << ckptVars, conf, batchIdx, globalStep, accumulate, accumGrad, waitCount,
                    bestScore, gradVars, life >>

StepLimit == conf.maxSteps > 0 /\ globalStep >= conf.maxSteps
AnotherEpoch == epoch < conf.maxEpochs /\ ~shouldStop /\ ~StepLimit

FitEnds ==
    /\ pc = "epoch" /\ ~AnotherEpoch
    /\ pc' = "idle"
    /\ UNCHANGED << ckptVars, conf, loopVars, stopVars, gradVars, fits, life >>

\* TrainingLoop.run reads accumulateGradBatches before onTrainEpochStart,
\* where GradientAccumulationScheduler sets it.
StartEpoch ==
    /\ pc = "epoch" /\ AnotherEpoch
    /\ accumGrad' = accumulate
    /\ accumulate' = IF epoch \in DOMAIN conf.schedule THEN conf.schedule[epoch] ELSE accumulate
    /\ batchIdx' = 0
    /\ pc' = "batch"
    /\ UNCHANGED << ckptVars, conf, epoch, globalStep, stopVars, gradVars, fits, life >>

-----------------------------------------------------------------------------
\* The body of the batch loop

AnotherBatch == batchIdx < conf.limit /\ ~shouldStop /\ ~StepLimit
Boundary == (batchIdx + 1) % accumGrad = 0
Accumulated == [g \in Optimizers |-> pending[g] \cup {trained + 1}]

\* Variant: the gradients stay after a step.
StepsKeeping(done) ==
    /\ used' = [g \in Optimizers |-> IF g \in done THEN used[g] \cup Accumulated[g] ELSE used[g]]
    /\ pending' = Accumulated

\* optimizerStep and zeroGrad of the optimizers in done
Steps(done) ==
    /\ used' = [g \in Optimizers |-> IF g \in done THEN used[g] \cup Accumulated[g] ELSE used[g]]
    /\ pending' = [g \in Optimizers |-> IF g \in done THEN {} ELSE Accumulated[g]]

Batch ==
    /\ pc = "batch" /\ AnotherBatch
    /\ Steps(IF Boundary THEN Optimizers ELSE {})
    /\ trained' = trained + 1
    /\ globalStep' = globalStep + 1
    /\ batchIdx' = batchIdx + 1
    /\ UNCHANGED << ckptVars, conf, pc, epoch, accumulate, accumGrad, stopVars, torn, broken, fits, life >>

\* trainingStep, or a hook before the backward pass, throws.
StepThrows ==
    /\ pc = "batch" /\ AnotherBatch
    /\ pc' = "idle"
    /\ UNCHANGED << ckptVars, conf, loopVars, stopVars, gradVars, fits, life >>

\* strategy.backward throws: by then it has accumulated the gradients of some
\* parameters of the optimizers in reached.
BackwardThrows(reached) ==
    /\ pc = "batch" /\ AnotherBatch
    /\ pending' = [g \in Optimizers |-> IF g \in reached THEN Accumulated[g] ELSE pending[g]]
    /\ trained' = trained + 1 /\ broken' = broken \cup {trained + 1}
    /\ pc' = "idle"
    /\ UNCHANGED << ckptVars, conf, loopVars, stopVars, used, torn, fits, life >>

\* A hook or a step after the backward pass throws, with n optimizers done:
\* before the next optimizer's step, or with beforeZero in that step, some of
\* its parameters updated, or in onBeforeZeroGrad, between step and zeroGrad.
UpdateThrows(n, beforeZero) ==
    /\ pc = "batch" /\ AnotherBatch
    /\ n > 0 \/ beforeZero => Boundary
    /\ beforeZero => n < NumOptimizers
    /\ IF beforeZero
       THEN /\ used' = [g \in Optimizers |->
                  IF g <= n + 1 THEN used[g] \cup Accumulated[g] ELSE used[g]]
            /\ pending' = [g \in Optimizers |-> IF g <= n THEN {} ELSE Accumulated[g]]
            /\ torn' = [torn EXCEPT ![n + 1] = @ \cup Accumulated[n + 1]]
       ELSE Steps(1..n) /\ UNCHANGED torn
    /\ trained' = trained + 1
    /\ pc' = "idle"
    /\ UNCHANGED << ckptVars, conf, loopVars, stopVars, broken, fits, life >>

-----------------------------------------------------------------------------
\* EarlyStopping._check with what is in state.epochMetrics, and the ghosts
\* with what the epoch logged.
Progress(metric, best) == best = Absent \/ metric < best

OutOfPatience(wait) == wait >= conf.patience

Check(visible, stop) ==
    LET fails == visible # Absent /\ ~Progress(visible, bestScore) IN
    /\ bestScore' = IF visible = Absent \/ fails THEN bestScore ELSE visible
    /\ waitCount' = IF fails THEN waitCount + 1
                    ELSE IF visible = Absent THEN waitCount ELSE 0
    /\ shouldStop' = (stop \/ (fails /\ OutOfPatience(waitCount + 1)))

Watch(metric) ==
    LET fails == metric # Absent /\ ~Progress(metric, seenBest) IN
    /\ seenBest' = IF metric = Absent \/ fails THEN seenBest ELSE metric
    /\ stale' = IF fails THEN stale + 1 ELSE IF metric = Absent THEN stale ELSE 0

\* flushEpochMetrics empties the metrics before the callbacks run: a callback
\* finds a value only if an earlier callback of the hook has put it there.
\* None of the repository does; conf.feed stands for one that a user writes.
Visible(metric) == IF conf.feed THEN metric ELSE Absent

\* The batch loop ends (at the step limit it stops the fit), the metrics are
\* flushed, then EarlyStopping's and ModelCheckpoint's onTrainEpochEnd.
TrainEpochEnds(metric) ==
    LET stop == shouldStop \/ (batchIdx < conf.limit /\ StepLimit) IN
    /\ pc = "batch" /\ ~AnotherBatch
    /\ IF conf.onTrainEnd
       THEN Check(Visible(metric), stop) /\ Watch(metric)
       ELSE shouldStop' = stop /\ UNCHANGED << waitCount, bestScore, stale, seenBest >>
    /\ OnTrainEpochEnd(conf, [epoch |-> epoch, step |-> globalStep, life |-> life],
                       Visible(metric))
    /\ pc' = "hooks"
    /\ UNCHANGED << conf, loopVars, gradVars, fits, life >>

SaveStep ==
    /\ pc = "hooks" /\ HookStep(conf)
    /\ UNCHANGED << conf, pc, loopVars, stopVars, gradVars, fits, life >>

SaveThrows ==
    /\ pc = "hooks" /\ HookFails
    /\ pc' = "idle"
    /\ UNCHANGED << conf, loopVars, stopVars, gradVars, fits, life >>

\* Back in FitLoop.run after the training loop.
EpochEnds ==
    /\ pc = "hooks" /\ todo = << >>
    /\ IF shouldStop
       THEN pc' = "idle" /\ UNCHANGED epoch
       ELSE IF conf.hasVal /\ (epoch + 1) % conf.interval = 0
       THEN pc' = "validate" /\ UNCHANGED epoch
       ELSE pc' = "epoch" /\ epoch' = epoch + 1
    /\ UNCHANGED << ckptVars, conf, batchIdx, globalStep, accumulate, accumGrad, stopVars,
                    gradVars, fits, life >>

-----------------------------------------------------------------------------
\* ValidationLoop.run: the batches, the flush, then onValidationEnd.
ValidationHook(metric) ==
    IF conf.onTrainEnd
    THEN UNCHANGED << shouldStop, waitCount, bestScore >>
    ELSE Check(Visible(metric), shouldStop)

Validate(metric) ==
    /\ pc = "validate"
    /\ ValidationHook(metric)
    /\ IF conf.onTrainEnd THEN UNCHANGED << stale, seenBest >> ELSE Watch(metric)
    /\ pc' = "epoch" /\ epoch' = epoch + 1
    /\ UNCHANGED << ckptVars, conf, batchIdx, globalStep, accumulate, accumGrad, gradVars,
                    fits, life >>

ValidateThrows ==
    /\ pc = "validate"
    /\ pc' = "idle"
    /\ UNCHANGED << ckptVars, conf, loopVars, stopVars, gradVars, fits, life >>

\* Trainer.validate, between fits.
ValidateAlone(metric) ==
    /\ pc = "idle" /\ waitCount < MaxWait
    /\ ValidationHook(metric)
    /\ UNCHANGED << ckptVars, conf, pc, loopVars, stale, seenBest, gradVars, fits, life >>

-----------------------------------------------------------------------------
\* The process dies and is started again: a new trainer, callbacks, model.
Crash ==
    /\ life < MaxLives
    /\ Forgotten
    /\ pc' = "idle" /\ life' = life + 1
    /\ epoch' = 0 /\ batchIdx' = 0 /\ globalStep' = 0
    /\ accumulate' = conf.accum /\ accumGrad' = conf.accum
    /\ shouldStop' = FALSE /\ waitCount' = 0 /\ bestScore' = Absent
    /\ stale' = 0 /\ seenBest' = Absent
    /\ pending' = [g \in Optimizers |-> {}] /\ used' = [g \in Optimizers |-> {}]
    /\ trained' = 0 /\ torn' = [g \in Optimizers |-> {}] /\ broken' = {}
    /\ UNCHANGED << conf, fits >>

Metrics == Scores \cup {Absent}

TNext ==
    \/ Fit \/ FitEnds \/ StartEpoch
    \/ Batch \/ StepThrows
    \/ \E reached \in SUBSET Optimizers : BackwardThrows(reached)
    \/ \E n \in 0..NumOptimizers, beforeZero \in BOOLEAN : UpdateThrows(n, beforeZero)
    \/ \E m \in Metrics : TrainEpochEnds(m)
    \/ SaveStep \/ SaveThrows \/ EpochEnds
    \/ \E m \in Metrics : Validate(m)
    \/ ValidateThrows
    \/ \E m \in Metrics : ValidateAlone(m)
    \/ Crash

TSpec == TInit /\ [][TNext]_vars
=============================================================================
