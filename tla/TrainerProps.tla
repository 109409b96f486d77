----------------------------- MODULE TrainerProps -----------------------------
(* What a fit, its early stopping and its checkpoints must guarantee.       *)
EXTENDS Trainer

Names == { LastCkpt } \cup [epoch : Nat, step : Nat]
Ckpts == [epoch : Nat, step : Nat, life : Nat]

TTypeOK ==
    /\ DOMAIN disk \subseteq Names /\ DOMAIN tmp \subseteq Names
    /\ \A n \in DOMAIN disk : disk[n] \in [ckpt : Ckpts, whole : BOOLEAN]
    /\ \A n \in DOMAIN tmp : tmp[n] \in [ckpt : Ckpts, whole : BOOLEAN]
    /\ bestK \in Seq([score : Scores, name : Names]) /\ recent \in Seq(Names)
    /\ todo \in Seq([do : {"open", "fill", "rename", "push", "insert", "delete"},
                     name : Names, ckpt : Ckpts, score : Scores \cup {Absent}])
    /\ offered \in [Scores -> Nat] /\ orphans \subseteq Names
    /\ conf \in Configs
    /\ pc \in {"idle", "epoch", "batch", "hooks", "validate"}
    /\ epoch \in Nat /\ batchIdx \in Nat /\ globalStep \in Nat
    /\ accumulate \in Nat \ {0} /\ accumGrad \in Nat \ {0}
    /\ shouldStop \in BOOLEAN
    /\ waitCount \in Nat /\ stale \in Nat
    /\ bestScore \in Metrics /\ seenBest \in Metrics
    /\ pending \in [Optimizers -> SUBSET Nat] /\ used \in [Optimizers -> SUBSET Nat]
    /\ torn \in [Optimizers -> SUBSET Nat] /\ trained \in Nat /\ broken \subseteq Nat
    /\ fits \in Nat /\ life \in Nat
    /\ todo # << >> => pc = "hooks"

(* Whatever the accumulation schedule, the limits and the throws: an        *)
(* optimizer steps on the gradient of every batch at most once, and a       *)
(* gradient it has not stepped on is still in the parameters.  The first    *)
(* has one exception, a throw in an optimizer's step or between it and its  *)
(* zeroGrad; the second too, a throw in the backward pass, which leaves the *)
(* gradients of the parameters it reached.                                  *)
GradientOnce ==
    \A g \in Optimizers :
        /\ used[g] \cap pending[g] \subseteq torn[g]
        /\ used[g] \cup pending[g] \subseteq 1..trained
        /\ (1..trained) \ broken \subseteq used[g] \cup pending[g]

Reported == { bestK[i].name : i \in DOMAIN bestK } \cup ToSet(recent)
UpTo(s) == { t \in Scores : t <= s }
Least(a, b) == IF a <= b THEN a ELSE b

(* The callback's memory and the disk agree: every checkpoint it reports is *)
(* a whole file of the epoch and step in its name, written by this process; *)
(* what it reports are the saveTopK best that came up (ties in favour of    *)
(* the older); and a file it no longer reports is deleted, unless deleting  *)
(* failed or the process died first.                                        *)
BestOnDisk ==
    /\ \A n \in Reported :
          /\ n \in DOMAIN disk
          /\ disk[n].whole /\ FileName(disk[n].ckpt) = n /\ disk[n].ckpt.life = life
    /\ conf.topK >= 0 =>
          /\ Len(bestK) <= conf.topK /\ Len(recent) <= conf.topK
          /\ \A i, j \in DOMAIN bestK : i < j => bestK[i].score <= bestK[j].score
          /\ \A s \in Scores :
                Cardinality({ i \in DOMAIN bestK : bestK[i].score <= s })
                    = Least(conf.topK, SumFunctionOnSet(offered, UpTo(s)))
    /\ conf.monitor \/ conf.topK >= 0 =>
          \A n \in DOMAIN disk \ (Reported \cup orphans \cup {LastCkpt}) :
              \/ disk[n].ckpt.life < life
              \/ \E i \in DOMAIN todo : todo[i].name = n

Older(a, b) == a.life < b.life \/ (a.life = b.life /\ a.step < b.step)

(* Once there is a last.ckpt there always is one, whole, and it never goes  *)
(* back to an earlier state: not while it is replaced, not when a save      *)
(* throws, and not when the process dies in the middle of one.              *)
LastSurvives ==
    [][(LastCkpt \in DOMAIN disk) =>
          /\ LastCkpt \in DOMAIN disk' /\ disk'[LastCkpt].whole
          /\ ~Older(disk'[LastCkpt].ckpt, disk[LastCkpt].ckpt)]_vars

(* EarlyStopping keeps its promise: no batch is trained once patience       *)
(* checks of this fit in a row brought no progress in what was logged.      *)
StopsEarly == pc = "batch" /\ AnotherBatch => stale < conf.patience
=============================================================================
