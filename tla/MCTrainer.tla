------------------------------ MODULE MCTrainer ------------------------------
(* Trainers that differ in what the loops and the callbacks decide on.      *)
EXTENDS TrainerProps

Base == [maxEpochs |-> 3, maxSteps |-> -1, limit |-> 1, accum |-> 1, schedule |-> << >>,
         interval |-> 1, hasVal |-> FALSE, patience |-> 3, onTrainEnd |-> FALSE, feed |-> FALSE,
         every |-> 1, topK |-> 0, saveLast |-> FALSE, monitor |-> FALSE]

\* Where a checkpoint is ranked by a metric, a user's callback has put the
\* metric back (feed).
MCConfigs == {
    \* accumulation that changes between epochs, ended by the step limit
    [Base EXCEPT !.limit = 3, !.accum = 2, !.schedule = (1 :> 3), !.maxSteps = 7],
    \* last.ckpt and the two best of three epochs, stopped by patience
    [Base EXCEPT !.onTrainEnd = TRUE, !.patience = 2, !.topK = 2, !.saveLast = TRUE,
                 !.monitor = TRUE, !.feed = TRUE],
    \* all of them, every second epoch
    [Base EXCEPT !.every = 2, !.topK = -1, !.monitor = TRUE, !.feed = TRUE],
    \* the latest one, beside last.ckpt
    [Base EXCEPT !.topK = 1, !.saveLast = TRUE],
    \* a validation every second epoch, with early stopping that sees no metric
    [Base EXCEPT !.maxEpochs = 5, !.hasVal = TRUE, !.interval = 2, !.patience = 1,
                 !.every = 6] }

\* The metric reaches the flush only, as in any fit with the loops alone.
StopConfigs == { [Base EXCEPT !.hasVal = TRUE, !.patience = 1, !.every = 6] }
=============================================================================
