---------------------------- MODULE Trainer_proof ----------------------------
(***************************************************************************)
(* Proofs for every trainer configuration: the variables keep their types, *)
(* an optimizer steps on a batch at most once and no gradient gets lost,   *)
(* last.ckpt survives everything, and the checkpoints the callback reports *)
(* are on disk and the best that came up.                                  *)
(***************************************************************************)
EXTENDS TrainerProps, SumLemmas, SequenceTheorems, FiniteSetTheorems, TLAPS

-----------------------------------------------------------------------------
\* Gradients

GradTypeOK ==
    /\ pending \in [Optimizers -> SUBSET Nat] /\ used \in [Optimizers -> SUBSET Nat]
    /\ torn \in [Optimizers -> SUBSET Nat] /\ trained \in Nat /\ broken \subseteq Nat

GradInv == GradTypeOK /\ GradientOnce

\* The batches so far, and the next one.
LEMMA NextBatch ==
    ASSUME GradInv
    PROVE  /\ trained + 1 \in Nat /\ trained + 1 \notin 1..trained
           /\ 1..(trained + 1) = (1..trained) \cup {trained + 1}
  <1>1. trained \in Nat
    BY DEF GradInv, GradTypeOK
  <1> QED BY <1>1

\* One more batch, and a step and a zeroGrad of some optimizers.
LEMMA StepsKeepOnce ==
    ASSUME GradInv, NEW done, Steps(done), trained' = trained + 1, UNCHANGED << torn, broken >>
    PROVE  GradInv'
  <1> USE DEF GradInv, GradTypeOK, GradientOnce, Steps, Accumulated
  <1>1. /\ trained' \in Nat /\ trained + 1 \notin 1..trained
        /\ 1..trained' = (1..trained) \cup {trained + 1}
    BY NextBatch
  <1>2. GradTypeOK'
    BY <1>1
  <1>3. ASSUME NEW g \in Optimizers
        PROVE  /\ used'[g] \cap pending'[g] \subseteq torn'[g]
               /\ used'[g] \cup pending'[g] \subseteq 1..trained'
               /\ (1..trained') \ broken' \subseteq used'[g] \cup pending'[g]
    <2>1. /\ used[g] \cap pending[g] \subseteq torn[g]
          /\ used[g] \cup pending[g] \subseteq 1..trained
          /\ (1..trained) \ broken \subseteq used[g] \cup pending[g]
      OBVIOUS
    <2>2. CASE g \in done
      <3>1. used'[g] = used[g] \cup pending[g] \cup {trained + 1} /\ pending'[g] = {}
        BY <2>2
      <3> QED BY <2>1, <3>1, <1>1
    <2>3. CASE g \notin done
      <3>1. used'[g] = used[g] /\ pending'[g] = pending[g] \cup {trained + 1}
        BY <2>3
      <3> QED BY <2>1, <3>1, <1>1
    <2> QED BY <2>2, <2>3
  <1> QED BY <1>2, <1>3

\* A backward pass that throws leaves the gradients it has accumulated.
LEMMA BrokenKeepsOnce ==
    ASSUME GradInv, NEW reached, BackwardThrows(reached)
    PROVE  GradInv'
  <1> USE DEF GradInv, GradTypeOK, GradientOnce, Accumulated
  <1>1. /\ pending' = [g \in Optimizers |->
                IF g \in reached THEN Accumulated[g] ELSE pending[g]]
        /\ trained' = trained + 1 /\ broken' = broken \cup {trained + 1}
        /\ used' = used /\ torn' = torn
    BY DEF BackwardThrows
  <1>2. /\ trained' \in Nat /\ trained + 1 \notin 1..trained
        /\ 1..trained' = (1..trained) \cup {trained + 1}
    BY <1>1, NextBatch
  <1>3. GradTypeOK'
    BY <1>1, <1>2
  <1>4. ASSUME NEW g \in Optimizers
        PROVE  /\ used'[g] \cap pending'[g] \subseteq torn'[g]
               /\ used'[g] \cup pending'[g] \subseteq 1..trained'
               /\ (1..trained') \ broken' \subseteq used'[g] \cup pending'[g]
    <2>1. /\ used[g] \cap pending[g] \subseteq torn[g]
          /\ used[g] \cup pending[g] \subseteq 1..trained
          /\ (1..trained) \ broken \subseteq used[g] \cup pending[g]
      OBVIOUS
    <2>2. \/ pending'[g] = pending[g]
          \/ pending'[g] = pending[g] \cup {trained + 1}
      BY <1>1
    <2> QED BY <1>1, <1>2, <2>1, <2>2
  <1> QED BY <1>3, <1>4

\* A throw in an optimizer's step, or between it and its zeroGrad.
LEMMA TearKeepsOnce ==
    ASSUME GradInv, NEW n \in 0..NumOptimizers, UpdateThrows(n, TRUE)
    PROVE  GradInv'
  <1> USE DEF GradInv, GradTypeOK, GradientOnce, Accumulated, Optimizers
  <1>1. /\ used' = [g \in Optimizers |->
                IF g <= n + 1 THEN used[g] \cup Accumulated[g] ELSE used[g]]
        /\ pending' = [g \in Optimizers |-> IF g <= n THEN {} ELSE Accumulated[g]]
        /\ torn' = [torn EXCEPT ![n + 1] = @ \cup Accumulated[n + 1]]
        /\ trained' = trained + 1 /\ n < NumOptimizers /\ broken' = broken
    BY DEF UpdateThrows
  <1>2. /\ trained' \in Nat /\ trained + 1 \notin 1..trained
        /\ 1..trained' = (1..trained) \cup {trained + 1}
    BY <1>1, NextBatch
  <1>3. n + 1 \in Optimizers
    BY <1>1, OptimizersAssumption
  <1>4. GradTypeOK'
    BY <1>1, <1>2, <1>3
  <1>5. ASSUME NEW g \in Optimizers
        PROVE  /\ used'[g] \cap pending'[g] \subseteq torn'[g]
               /\ used'[g] \cup pending'[g] \subseteq 1..trained'
               /\ (1..trained') \ broken' \subseteq used'[g] \cup pending'[g]
    <2>1. /\ used[g] \cap pending[g] \subseteq torn[g]
          /\ used[g] \cup pending[g] \subseteq 1..trained
          /\ (1..trained) \ broken \subseteq used[g] \cup pending[g]
          /\ Accumulated[g] = pending[g] \cup {trained + 1}
      OBVIOUS
    <2>2. CASE g <= n
      <3>1. used'[g] = used[g] \cup Accumulated[g] /\ pending'[g] = {}
        BY <1>1, <2>2
      <3> QED BY <1>1, <1>2, <2>1, <3>1
    <2>3. CASE g = n + 1
      <3>1. /\ used'[g] = used[g] \cup Accumulated[g] /\ pending'[g] = Accumulated[g]
            /\ torn'[g] = torn[g] \cup Accumulated[g]
        BY <1>1, <2>3
      <3> QED BY <1>1, <1>2, <2>1, <3>1
    <2>4. CASE g > n + 1
      <3>1. used'[g] = used[g] /\ pending'[g] = Accumulated[g] /\ torn'[g] = torn[g]
        BY <1>1, <2>4
      <3> QED BY <1>1, <1>2, <2>1, <3>1
    <2> QED BY <2>2, <2>3, <2>4
  <1> QED BY <1>4, <1>5

\* Every other step leaves the gradients alone; a new process has none.
LEMMA GradStep == GradInv /\ [TNext]_vars => GradInv'
  <1> SUFFICES ASSUME GradInv, [TNext]_vars PROVE GradInv'
    OBVIOUS
  <1>1. CASE UNCHANGED gradVars
    BY <1>1 DEF GradInv, GradTypeOK, GradientOnce, gradVars
  <1>2. CASE Batch
    BY <1>2, StepsKeepOnce DEF Batch
  <1>3. ASSUME NEW reached \in SUBSET Optimizers, BackwardThrows(reached)
        PROVE  GradInv'
    BY <1>3, BrokenKeepsOnce
  <1>4. ASSUME NEW n \in 0..NumOptimizers, NEW b \in BOOLEAN, UpdateThrows(n, b)
        PROVE  GradInv'
    <2>1. CASE b
      BY <2>1, <1>4, TearKeepsOnce
    <2>2. CASE ~b
      BY <2>2, <1>4, StepsKeepOnce DEF UpdateThrows
    <2> QED BY <2>1, <2>2
  <1>5. CASE Crash
    BY <1>5 DEF Crash, GradInv, GradTypeOK, GradientOnce
  <1> QED
    BY <1>1, <1>2, <1>3, <1>4, <1>5
    DEF TNext, vars, Fit, FitEnds, StartEpoch, StepThrows, TrainEpochEnds, SaveStep, SaveThrows,
        EpochEnds, Validate, ValidateThrows, ValidateAlone

(* Each optimizer steps at most once on the gradient of a batch, and the    *)
(* gradients it has not stepped on are in the parameters, except after a    *)
(* throw in the backward pass or in an optimizer's update: for every number *)
(* of optimizers, every accumulation schedule and every limit.              *)
THEOREM GradientsOnce == TSpec => []GradientOnce
  <1>1. TInit => GradInv
    BY DEF TInit, GradInv, GradTypeOK, GradientOnce
  <1> QED
    BY <1>1, GradStep, PTL DEF TSpec, GradInv

-----------------------------------------------------------------------------
\* What a hook of the checkpoint callback has left to do

FileNames == [epoch : Nat, step : Nat]
Entries == [score : Scores, name : FileNames]
Whole(ckpt) == [ckpt |-> ckpt, whole |-> TRUE]

\* The operations under config c at (step, now): on last.ckpt, on the
\* checkpoint of this epoch, and the deletion of an earlier one.
Stamps(step, now) == { ckpt \in Ckpts : ckpt.step = step /\ ckpt.life = now }
LastOps(step, now) ==
    [do : {"open", "fill", "rename"}, name : {LastCkpt}, ckpt : Stamps(step, now),
     score : {Absent}]
OwnOps(c, step, now) ==
    { op \in [do : {"open", "fill", "rename", "push", "insert"}, name : FileNames,
              ckpt : Stamps(step, now), score : Metrics] :
        /\ op.name = FileName(op.ckpt)
        /\ op.do = "insert" <=> op.score # Absent
        /\ op.do = "push" => ~c.monitor }
DeleteOps(step, now) ==
    [do : {"delete"}, name : FileNames, ckpt : Stamps(step, now), score : {Absent}]
Ops(c, step, now) == LastOps(step, now) \cup OwnOps(c, step, now) \cup DeleteOps(step, now)

\* The scores that still make it into bestK, and the operations that report a
\* file that has been saved for them.
Kept == { s \in Scores : conf.topK < 0 \/ InsertIdx(s) < conf.topK }
Saved(op, kept) == op.do = "push" \/ (op.do = "insert" /\ op.score \in kept)

\* What comes after what: a rename after the fill of the same file, the report
\* of a file after its rename, and nothing after a report or a deletion.
Same(a, b) == a.name = b.name /\ a.ckpt = b.ckpt
Follows(a, b, kept) ==
    /\ a.do \notin {"push", "insert", "delete"} /\ b.do # "delete"
    /\ b.do = "rename" => a.do = "fill" /\ Same(a, b)
    /\ Saved(b, kept) => a.do = "rename" /\ Same(a, b)
    /\ a.do = "rename" /\ a.name # LastCkpt => Saved(b, kept) /\ Same(a, b)

Linked(ops, kept) == \A i \in 2..Len(ops) : Follows(ops[i - 1], ops[i], kept)
Starts(ops, kept) ==
    ops # << >> => ops[1].do \notin {"rename", "delete"} /\ ~Saved(ops[1], kept)
Ends(ops) ==
    ops # << >> => ~(ops[Len(ops)].do = "rename" /\ ops[Len(ops)].name # LastCkpt)
Chained(ops, kept) == Linked(ops, kept) /\ Ends(ops)

\* What the next operation relies on.
Ready ==
    /\ todo[1].do = "rename" =>
          todo[1].name \in DOMAIN tmp /\ tmp[todo[1].name] = Whole(todo[1].ckpt)
    /\ Saved(todo[1], Kept) =>
          todo[1].name \in DOMAIN disk /\ disk[todo[1].name] = Whole(todo[1].ckpt)

MemoryOK ==
    /\ conf \in Configs
    /\ epoch \in Nat /\ globalStep \in Nat /\ life \in Nat
    /\ bestK \in Seq(Entries) /\ recent \in Seq(FileNames)
    /\ offered \in [Scores -> Nat]

FilesOK ==
    /\ DOMAIN disk \subseteq Names /\ DOMAIN tmp \subseteq Names /\ orphans \subseteq Names
    /\ \A n \in DOMAIN disk : disk[n] \in [ckpt : Ckpts, whole : BOOLEAN]
    /\ \A n \in DOMAIN disk : disk[n].ckpt.life <= life
    /\ \A n \in DOMAIN tmp : tmp[n] \in [ckpt : Ckpts, whole : BOOLEAN]

HookInv ==
    /\ todo \in Seq(Ops(conf, globalStep, life))
    /\ Chained(todo, Kept)
    /\ todo # << >> => pc = "hooks" /\ Ready

TodoInv == MemoryOK /\ FilesOK /\ HookInv

LEMMA OtherNames == LastCkpt \notin FileNames /\ FileNames \subseteq Names /\ LastCkpt \in Names
  BY DEF LastCkpt, FileNames, Names

\* Two pieces of a hook, one after the other.
LEMMA ChainsJoin ==
    ASSUME NEW S, NEW kept, NEW s \in Seq(S), NEW t \in Seq(S),
           Linked(s, kept), Linked(t, kept),
           s # << >> /\ t # << >> => Follows(s[Len(s)], t[1], kept)
    PROVE  /\ s \o t \in Seq(S) /\ Linked(s \o t, kept)
           /\ t # << >> => s \o t # << >> /\ (s \o t)[Len(s \o t)] = t[Len(t)]
           /\ s # << >> => s \o t # << >> /\ (s \o t)[1] = s[1]
           /\ t = << >> => s \o t = s
           /\ s = << >> => s \o t = t
  <1>1. /\ s \o t \in Seq(S) /\ Len(s \o t) = Len(s) + Len(t)
        /\ \A i \in 1..(Len(s) + Len(t)) :
              (s \o t)[i] = IF i <= Len(s) THEN s[i] ELSE t[i - Len(s)]
    BY ConcatProperties
  <1>2. /\ Len(s) \in Nat /\ Len(t) \in Nat
        /\ s # << >> => Len(s) >= 1
        /\ t # << >> => Len(t) >= 1
    OBVIOUS
  <1>3. ASSUME NEW i \in 2..Len(s \o t)
        PROVE  Follows((s \o t)[i - 1], (s \o t)[i], kept)
    <2>1. CASE i <= Len(s)
      <3>1. (s \o t)[i] = s[i] /\ (s \o t)[i - 1] = s[i - 1] /\ i \in 2..Len(s)
        BY <1>1, <1>2, <2>1
      <3> QED BY <3>1 DEF Linked
    <2>2. CASE i = Len(s) + 1
      <3>1. /\ (s \o t)[i] = t[1] /\ (s \o t)[i - 1] = s[Len(s)]
            /\ s # << >> /\ t # << >>
        BY <1>1, <1>2, <2>2
      <3> QED BY <3>1
    <2>3. CASE i > Len(s) + 1
      <3>1. /\ (s \o t)[i] = t[i - Len(s)] /\ (s \o t)[i - 1] = t[(i - Len(s)) - 1]
            /\ i - Len(s) \in 2..Len(t)
        BY <1>1, <1>2, <2>3
      <3> QED BY <3>1 DEF Linked
    <2> QED BY <1>2, <2>1, <2>2, <2>3
  <1>4. t # << >> => s \o t # << >> /\ (s \o t)[Len(s \o t)] = t[Len(t)]
    BY <1>1, <1>2
  <1>5. s # << >> => s \o t # << >> /\ (s \o t)[1] = s[1]
    BY <1>1, <1>2
  <1>6. (t = << >> => s \o t = s) /\ (s = << >> => s \o t = t)
    BY ConcatEmptySeq
  <1> QED BY <1>1, <1>3, <1>4, <1>5, <1>6 DEF Linked

\* What is left of a chain after its first operation.
LEMMA ChainTail ==
    ASSUME NEW S, NEW kept, NEW s \in Seq(S), s # << >>, Chained(s, kept)
    PROVE  /\ Tail(s) \in Seq(S) /\ Chained(Tail(s), kept)
           /\ Tail(s) # << >> => Follows(s[1], Tail(s)[1], kept)
           /\ Tail(s) = << >> => ~(s[1].do = "rename" /\ s[1].name # LastCkpt)
  <1>1. /\ Tail(s) \in Seq(S) /\ Len(Tail(s)) = Len(s) - 1 /\ Len(s) \in Nat
        /\ \A i \in 1..Len(Tail(s)) : Tail(s)[i] = s[i + 1]
    BY HeadTailProperties
  <1>2. Linked(Tail(s), kept)
    <2> SUFFICES ASSUME NEW i \in 2..Len(Tail(s))
                 PROVE  Follows(Tail(s)[i - 1], Tail(s)[i], kept)
      BY DEF Linked
    <2>1. Tail(s)[i] = s[i + 1] /\ Tail(s)[i - 1] = s[(i + 1) - 1] /\ i + 1 \in 2..Len(s)
      BY <1>1
    <2> QED BY <2>1 DEF Chained, Linked
  <1>3. CASE Tail(s) = << >>
    <2>1. Len(s) = 1
      BY <1>1, <1>3
    <2> QED BY <1>1, <1>2, <1>3, <2>1 DEF Chained, Ends
  <1>4. CASE Tail(s) # << >>
    <2>1. /\ Len(Tail(s)) >= 1 /\ 2 \in 2..Len(s) /\ Tail(s)[1] = s[2]
          /\ Tail(s)[Len(Tail(s))] = s[Len(s)]
      BY <1>1, <1>4
    <2>2. Follows(s[2 - 1], s[2], kept)
      BY <2>1 DEF Chained, Linked
    <2>3. 2 - 1 = 1
      OBVIOUS
    <2>4. Ends(Tail(s))
      BY <2>1 DEF Chained, Ends
    <2> QED BY <1>1, <1>2, <1>4, <2>1, <2>2, <2>3, <2>4 DEF Chained
  <1> QED BY <1>3, <1>4

\* _saveCheckpoint fills the file before it renames it.
LEMMA SaveChained ==
    ASSUME MemoryOK, NEW ckpt \in Stamps(globalStep, life),
           NEW name \in { LastCkpt, FileName(ckpt) }
    PROVE  /\ Save(name, ckpt) \in Seq(Ops(conf, globalStep, life)) /\ Linked(Save(name, ckpt), Kept)
           /\ Starts(Save(name, ckpt), Kept) /\ Save(name, ckpt) # << >>
           /\ Save(name, ckpt)[Len(Save(name, ckpt))].do = "rename"
           /\ Save(name, ckpt)[Len(Save(name, ckpt))].name = name
           /\ Save(name, ckpt)[Len(Save(name, ckpt))].ckpt = ckpt
  <1> DEFINE op(do) == [do |-> do, name |-> name, ckpt |-> ckpt, score |-> Absent]
  <1>1. Save(name, ckpt) = << op("open"), op("fill"), op("rename") >>
    BY DEF Save, Op
  <1>2. op("open") \in Ops(conf, globalStep, life) /\ op("fill") \in Ops(conf, globalStep, life)
        /\ op("rename") \in Ops(conf, globalStep, life)
    BY DEF Ops, LastOps, OwnOps, FileName, FileNames, Stamps, Ckpts, Metrics
  <1> HIDE DEF op
  <1>3. Save(name, ckpt) \in Seq(Ops(conf, globalStep, life)) /\ Len(Save(name, ckpt)) = 3
    BY <1>1, <1>2
  <1>4. /\ Save(name, ckpt)[1] = op("open") /\ Save(name, ckpt)[2] = op("fill")
        /\ Save(name, ckpt)[3] = op("rename") /\ Save(name, ckpt) # << >>
    BY <1>1
  <1>5. Starts(Save(name, ckpt), Kept)
    BY <1>4 DEF Starts, Saved, op
  <1>6. Linked(Save(name, ckpt), Kept)
    <2> SUFFICES ASSUME NEW i \in 2..3
                 PROVE  Follows(Save(name, ckpt)[i - 1], Save(name, ckpt)[i], Kept)
      BY <1>3 DEF Linked
    <2>1. CASE i = 2
      BY <1>4, <2>1 DEF Follows, Same, Saved, op
    <2>2. CASE i = 3
      BY <1>4, <2>2 DEF Follows, Same, Saved, op
    <2> QED BY <2>1, <2>2
  <1> QED BY <1>3, <1>4, <1>5, <1>6 DEF op

\* A single operation, and none at all.
LEMMA OneLinked ==
    ASSUME NEW S, NEW op \in S
    PROVE  /\ << op >> \in Seq(S) /\ \A kept : Linked(<< op >>, kept)
           /\ Len(<< op >>) = 1 /\ << op >>[1] = op /\ << op >> # << >>
  BY DEF Linked

LEMMA NoneChained ==
    \A S, kept : << >> \in Seq(S) /\ Chained(<< >>, kept) /\ Starts(<< >>, kept)
  BY DEF Chained, Starts, Linked, Ends

\* What onTrainEpochEnd does for the checkpoint of the epoch.
LEMMA TrackedChained ==
    ASSUME MemoryOK, NEW metric \in Metrics, NEW ckpt \in Stamps(globalStep, life)
    PROVE  /\ Tracked(conf, ckpt, metric) \in Seq(Ops(conf, globalStep, life))
           /\ Chained(Tracked(conf, ckpt, metric), Kept)
           /\ Starts(Tracked(conf, ckpt, metric), Kept)
  <1> DEFINE S == Ops(conf, globalStep, life)
             name == FileName(ckpt)
             save == Save(name, ckpt)
             Good(s) == s \in Seq(S) /\ Chained(s, Kept) /\ Starts(s, Kept)
  <1>1. ckpt \in Ckpts /\ name \in FileNames /\ globalStep \in Nat /\ life \in Nat
    BY DEF Stamps, FileName, FileNames, Ckpts, MemoryOK
  <1>2. conf.monitor \in BOOLEAN /\ conf.topK \in Int
    BY ConfigsAssumption DEF MemoryOK
  <1>3. /\ save \in Seq(S) /\ Linked(save, Kept) /\ Starts(save, Kept) /\ save # << >>
        /\ save[Len(save)].do = "rename" /\ save[Len(save)].name = name
        /\ save[Len(save)].ckpt = ckpt
    BY <1>1, SaveChained
  <1> HIDE DEF save, S
  <1>4. ASSUME NEW op \in S, Saved(op, Kept), op.name = name, op.ckpt = ckpt
        PROVE  Good(save \o << op >>)
    <2> DEFINE one == << op >>
    <2>1. one \in Seq(S) /\ Linked(one, Kept) /\ one[1] = op /\ Len(one) = 1 /\ one # << >>
      BY OneLinked
    <2> HIDE DEF one
    <2>2. Follows(save[Len(save)], one[1], Kept)
      BY <1>3, <1>4, <2>1 DEF Follows, Same, Saved
    <2>3. /\ save \o one \in Seq(S) /\ Linked(save \o one, Kept) /\ save \o one # << >>
          /\ (save \o one)[Len(save \o one)] = op /\ (save \o one)[1] = save[1]
      BY <1>3, <2>1, <2>2, ChainsJoin
    <2>4. op.do # "rename"
      BY <1>4 DEF Saved
    <2> QED BY <1>3, <2>3, <2>4 DEF Chained, Ends, Starts, one
  <1>5. ASSUME NEW op \in S, op.do = "insert", ~Saved(op, Kept)
        PROVE  Good(<< op >>)
    <2>1. << op >> \in Seq(S) /\ Linked(<< op >>, Kept) /\ << op >>[1] = op
          /\ Len(<< op >>) = 1 /\ << op >> # << >>
      BY OneLinked
    <2> QED BY <1>5, <2>1 DEF Chained, Ends, Starts
  <1>6. CASE ~conf.monitor
    <2>1. Op("push", name, ckpt, Absent) \in S
      BY <1>1, <1>6 DEF Op, S, Ops, OwnOps, Metrics
    <2>2. Saved(Op("push", name, ckpt, Absent), Kept)
      BY DEF Op, Saved
    <2>3. Tracked(conf, ckpt, metric) = save \o << Op("push", name, ckpt, Absent) >>
      BY <1>6 DEF Tracked, save
    <2>4. Op("push", name, ckpt, Absent).name = name /\ Op("push", name, ckpt, Absent).ckpt = ckpt
      BY DEF Op
    <2> QED BY <1>4, <2>1, <2>2, <2>3, <2>4 DEF S
  <1>7. CASE conf.monitor /\ metric = Absent
    <2>1. Tracked(conf, ckpt, metric) = << >>
      BY <1>7 DEF Tracked
    <2> QED BY <2>1, NoneChained
  <1>8. CASE conf.monitor /\ metric # Absent
    <2> DEFINE op == Op("insert", name, ckpt, metric)
    <2>1. op \in S /\ op.do = "insert" /\ op.name = name /\ op.ckpt = ckpt /\ op.score = metric
          /\ metric \in Scores
      BY <1>1, <1>8 DEF Op, S, Ops, OwnOps, Metrics
    <2>2. Saved(op, Kept) <=> conf.topK < 0 \/ InsertIdx(metric) < conf.topK
      BY <2>1 DEF Saved, Kept
    <2>3. Tracked(conf, ckpt, metric) =
             (IF conf.topK < 0 \/ InsertIdx(metric) < conf.topK THEN save ELSE << >>) \o << op >>
      BY <1>8 DEF Tracked, save
    <2> HIDE DEF op
    <2>4. CASE Saved(op, Kept)
      <3>1. Tracked(conf, ckpt, metric) = save \o << op >>
        BY <2>2, <2>3, <2>4
      <3> QED BY <1>4, <2>1, <2>4, <3>1 DEF S
    <2>5. CASE ~Saved(op, Kept)
      <3>1. Tracked(conf, ckpt, metric) = << >> \o << op >>
        BY <2>2, <2>3, <2>5
      <3>2. << op >> \in Seq(S)
        BY <2>1
      <3>3. << >> \o << op >> = << op >>
        BY <3>2, ConcatEmptySeq
      <3> QED BY <1>5, <2>1, <2>5, <3>1, <3>3 DEF S
    <2> QED BY <2>4, <2>5
  <1> QED BY <1>2, <1>6, <1>7, <1>8

LEMMA HookChained ==
    ASSUME MemoryOK, NEW metric \in Metrics, NEW ckpt \in Stamps(globalStep, life),
           OnTrainEpochEnd(conf, ckpt, metric)
    PROVE  /\ todo' \in Seq(Ops(conf, globalStep, life))
           /\ Chained(todo', Kept) /\ Starts(todo', Kept)
  <1> DEFINE S == Ops(conf, globalStep, life)
             t == Tracked(conf, ckpt, metric)
             save == Save(LastCkpt, ckpt)
  <1>1. globalStep \in Nat /\ life \in Nat /\ conf.saveLast \in BOOLEAN
    BY ConfigsAssumption DEF MemoryOK
  <1>2. t \in Seq(S) /\ Chained(t, Kept) /\ Starts(t, Kept)
    BY TrackedChained
  <1>3. /\ save \in Seq(S) /\ Linked(save, Kept) /\ Starts(save, Kept) /\ save # << >>
        /\ save[Len(save)].do = "rename" /\ save[Len(save)].name = LastCkpt
    BY <1>1, SaveChained
  <1>4. /\ << >> \in Seq(S) /\ Chained(<< >>, Kept) /\ Starts(<< >>, Kept)
    BY NoneChained
  <1> HIDE DEF t, save, S
  <1>5. CASE (ckpt.epoch + 1) % conf.every # 0
    BY <1>4, <1>5 DEF OnTrainEpochEnd, S
  <1>6. CASE ~((ckpt.epoch + 1) % conf.every # 0) /\ ~conf.saveLast
    <2>1. todo' = << >> \o t
      BY <1>6 DEF OnTrainEpochEnd, t
    <2>2. << >> \o t = t
      BY <1>2, ConcatEmptySeq
    <2> QED BY <1>2, <2>1, <2>2 DEF S
  <1>7. CASE ~((ckpt.epoch + 1) % conf.every # 0) /\ conf.saveLast
    <2>1. todo' = save \o t
      BY <1>7 DEF OnTrainEpochEnd, t, save
    <2>2. t # << >> => Follows(save[Len(save)], t[1], Kept)
      BY <1>2, <1>3 DEF Follows, Starts
    <2>3. /\ save \o t \in Seq(S) /\ Linked(save \o t, Kept)
          /\ t # << >> => (save \o t)[Len(save \o t)] = t[Len(t)]
          /\ save \o t # << >> /\ (save \o t)[1] = save[1]
          /\ t = << >> => save \o t = save
      BY <1>2, <1>3, <2>2, ChainsJoin DEF Chained
    <2>4. Ends(save \o t)
      <3>1. CASE t = << >>
        BY <1>3, <2>3, <3>1 DEF Ends
      <3>2. CASE t # << >>
        BY <1>2, <2>3, <3>2 DEF Ends, Chained
      <3> QED BY <3>1, <3>2
    <2>5. Starts(save \o t, Kept)
      BY <1>3, <2>3 DEF Starts
    <2> QED BY <2>1, <2>3, <2>4, <2>5 DEF Chained, S
  <1> QED BY <1>1, <1>5, <1>6, <1>7

\* The operation under way, and what it leaves to do.
LEMMA NowFacts ==
    ASSUME TodoInv, todo # << >>
    PROVE  /\ Now = todo[1] /\ Now \in Ops(conf, globalStep, life) /\ pc = "hooks"
           /\ Now.ckpt \in Stamps(globalStep, life) /\ Now.ckpt.step = globalStep
           /\ Now.ckpt.life = life /\ Now.ckpt \in Ckpts /\ Now.name \in Names
           /\ Now.name = LastCkpt => Now.do \in {"open", "fill", "rename"}
           /\ Now.name # LastCkpt => Now.name \in FileNames
           /\ Now.name # LastCkpt /\ Now.do # "delete" => Now.name = FileName(Now.ckpt)
           /\ Now.do = "insert" => Now.score \in Scores
           /\ Now.do = "push" => ~conf.monitor
           /\ Tail(todo) \in Seq(Ops(conf, globalStep, life)) /\ Chained(Tail(todo), Kept)
           /\ Tail(todo) # << >> => Follows(Now, Tail(todo)[1], Kept)
           /\ Tail(todo) = << >> => ~(Now.do = "rename" /\ Now.name # LastCkpt)
           /\ Now.do \in {"push", "insert", "delete"} => Tail(todo) = << >>
  <1> DEFINE S == Ops(conf, globalStep, life)
  <1>1. todo \in Seq(S) /\ Chained(todo, Kept) /\ pc = "hooks"
    BY DEF TodoInv, HookInv
  <1>2. Now \in S /\ Now = todo[1] /\ Tail(todo) \in Seq(S)
    BY <1>1, HeadTailProperties DEF Now
  <1>3. /\ Chained(Tail(todo), Kept)
        /\ Tail(todo) # << >> => Follows(Now, Tail(todo)[1], Kept)
        /\ Tail(todo) = << >> => ~(Now.do = "rename" /\ Now.name # LastCkpt)
    BY <1>1, <1>2, ChainTail
  <1>4. /\ Now.ckpt \in Stamps(globalStep, life)
        /\ Now.name = LastCkpt \/ Now.name \in FileNames
    BY <1>2 DEF Ops, LastOps, OwnOps, DeleteOps
  <1>5. Now.name = LastCkpt => Now.do \in {"open", "fill", "rename"}
    BY <1>2, OtherNames DEF Ops, LastOps, OwnOps, DeleteOps
  <1>6. Now.name # LastCkpt /\ Now.do # "delete" => Now \in OwnOps(conf, globalStep, life)
    BY <1>2 DEF Ops, LastOps, OwnOps, DeleteOps
  <1>7. /\ Now.do = "insert" => Now.score \in Scores
        /\ Now.do = "push" => ~conf.monitor
        /\ Now.name # LastCkpt /\ Now.do # "delete" => Now.name = FileName(Now.ckpt)
    BY <1>5, <1>6 DEF OwnOps, Metrics
  <1>8. Now.ckpt \in Ckpts /\ Now.ckpt.step = globalStep /\ Now.ckpt.life = life
    BY <1>4 DEF Stamps
  <1>9. Now.do \in {"push", "insert", "delete"} => Tail(todo) = << >>
    BY <1>3 DEF Follows
  <1> QED BY <1>1, <1>2, <1>3, <1>4, <1>5, <1>7, <1>8, <1>9, OtherNames

-----------------------------------------------------------------------------
\* The steps, as the files and the callback's memory see them

Others == << conf, epoch, globalStep, life, pc, batchIdx, shouldStop >>

\* A step outside the file operations of a hook.
Quiet ==
    /\ UNCHANGED << conf, life, disk, tmp, bestK, recent, offered, orphans >>
    /\ epoch' \in Nat /\ globalStep' \in Nat /\ globalStep' >= globalStep
    /\ pc' = "batch" /\ batchIdx' # 0 => globalStep' > globalStep
    /\ todo' = << >>
    /\ todo # << >> => Now.do \in {"open", "fill", "rename"}

LEMMA StepKinds ==
    ASSUME TodoInv, [TNext]_vars
    PROVE  \/ Quiet
           \/ UNCHANGED vars
           \/ \E m \in Metrics : TrainEpochEnds(m)
           \/ SaveStep
           \/ Crash
  <1>1. epoch \in Nat /\ globalStep \in Nat /\ (pc # "hooks" => todo = << >>)
    BY DEF TodoInv, MemoryOK, HookInv
  <1> USE DEF Quiet, ckptVars, ckptMemory, loopVars
  <1>2. CASE Fit \/ FitEnds \/ StartEpoch \/ StepThrows \/ ValidateThrows
    BY <1>1, <1>2 DEF Fit, FitEnds, StartEpoch, StepThrows, ValidateThrows
  <1>3. CASE Batch
    BY <1>1, <1>3 DEF Batch
  <1>4. ASSUME NEW n \in 0..NumOptimizers, NEW b \in BOOLEAN, UpdateThrows(n, b)
        PROVE  Quiet
    BY <1>1, <1>4 DEF UpdateThrows
  <1>9. ASSUME NEW reached \in SUBSET Optimizers, BackwardThrows(reached)
        PROVE  Quiet
    BY <1>1, <1>9 DEF BackwardThrows
  <1>5. CASE SaveThrows
    BY <1>1, <1>5 DEF SaveThrows, HookFails
  <1>6. CASE EpochEnds
    BY <1>1, <1>6 DEF EpochEnds
  <1>7. ASSUME NEW m \in Metrics, Validate(m)
        PROVE  Quiet
    BY <1>1, <1>7 DEF Validate
  <1>8. ASSUME NEW m \in Metrics, ValidateAlone(m)
        PROVE  Quiet
    BY <1>1, <1>8 DEF ValidateAlone
  <1> QED BY <1>2, <1>3, <1>4, <1>5, <1>6, <1>7, <1>8, <1>9 DEF TNext

\* The end of an epoch writes no file yet.
LEMMA EpochEndStep ==
    ASSUME TodoInv, NEW m \in Metrics, TrainEpochEnds(m)
    PROVE  /\ UNCHANGED << conf, epoch, globalStep, life, batchIdx, disk, tmp, bestK, recent, offered, orphans >>
           /\ todo = << >> /\ pc = "batch" /\ ~AnotherBatch /\ pc' = "hooks"
           /\ todo' \in Seq(Ops(conf, globalStep, life))
           /\ Chained(todo', Kept) /\ Starts(todo', Kept)
  <1> DEFINE ckpt == [epoch |-> epoch, step |-> globalStep, life |-> life]
  <1>1. /\ OnTrainEpochEnd(conf, ckpt, Visible(m))
        /\ UNCHANGED << conf, epoch, globalStep, life, batchIdx >>
        /\ pc = "batch" /\ pc' = "hooks" /\ ~AnotherBatch
    BY DEF TrainEpochEnds, loopVars
  <1>2. ckpt \in Stamps(globalStep, life) /\ Visible(m) \in Metrics
    BY DEF Stamps, Ckpts, Visible, Metrics, TodoInv, MemoryOK
  <1>3. MemoryOK /\ todo = << >>
    BY <1>1 DEF TodoInv, HookInv
  <1>4. todo' \in Seq(Ops(conf, globalStep, life)) /\ Chained(todo', Kept) /\ Starts(todo', Kept)
    BY <1>1, <1>2, <1>3, HookChained
  <1> QED BY <1>1, <1>3, <1>4 DEF OnTrainEpochEnd

LEMMA SaveStepCases ==
    ASSUME SaveStep
    PROVE  /\ todo # << >> /\ UNCHANGED Others
           /\ Open \/ Fill \/ Rename \/ Push(conf) \/ Insert(conf) \/ Delete
  BY DEF SaveStep, HookStep, loopVars, stopVars, Others

\* What _recent and the rest of the hook are after a push.
Dropped(name) == << Op("delete", name, Now.ckpt, Absent) >>

LEMMA PushCases ==
    ASSUME TodoInv, todo # << >>, Push(conf)
    PROVE  /\ Now.name \in FileNames /\ Now.do = "push"
           /\ recent' \in Seq(FileNames) /\ UNCHANGED << disk, tmp, bestK, offered, orphans >>
           /\ \/ conf.topK < 0 /\ recent' = recent /\ todo' = << >>
              \/ /\ conf.topK >= 0 /\ Len(recent) < conf.topK /\ todo' = << >>
                 /\ Len(recent') = Len(recent) + 1
                 /\ \A i \in 1..Len(recent) : recent'[i] = recent[i]
                 /\ recent'[Len(recent) + 1] = Now.name
              \/ /\ conf.topK >= 0 /\ Len(recent) >= conf.topK
                 /\ Len(recent') = Len(recent)
                 /\ \E name \in FileNames :
                       /\ todo' = Dropped(name)
                       /\ name = IF recent = << >> THEN Now.name ELSE recent[1]
                 /\ \A i \in 1..Len(recent) :
                       recent'[i] = IF i = Len(recent) THEN Now.name ELSE recent[i + 1]
  <1> DEFINE grown == Append(recent, Now.name)
  <1>1. /\ Now.do = "push" /\ Now.name \in FileNames /\ Tail(todo) = << >>
        /\ conf.topK \in Int /\ recent \in Seq(FileNames) /\ Len(recent) \in Nat
    BY NowFacts, ConfigsAssumption DEF Push, TodoInv, MemoryOK
  <1>2. /\ grown \in Seq(FileNames) /\ grown # << >> /\ Len(grown) = Len(recent) + 1
        /\ \A i \in 1..Len(recent) : grown[i] = recent[i]
        /\ grown[Len(recent) + 1] = Now.name
    BY <1>1, AppendProperties
  <1> HIDE DEF grown
  <1>3. /\ Head(grown) \in FileNames /\ Tail(grown) \in Seq(FileNames)
        /\ Len(Tail(grown)) = Len(recent) /\ Head(grown) = grown[1]
        /\ \A i \in 1..Len(recent) : Tail(grown)[i] = grown[i + 1]
    BY <1>1, <1>2, HeadTailProperties
  <1>4. UNCHANGED << disk, tmp, bestK, offered, orphans >>
    BY DEF Push
  <1>5. CASE conf.topK < 0
    <2>1. recent' = recent /\ todo' = Tail(todo)
      BY <1>1, <1>5 DEF Push
    <2> QED BY <1>1, <1>4, <1>5, <2>1
  <1>6. CASE conf.topK >= 0 /\ Len(recent) < conf.topK
    <2>1. recent' = grown /\ todo' = Tail(todo)
      BY <1>1, <1>2, <1>6 DEF Push, grown
    <2> QED BY <1>1, <1>2, <1>4, <1>6, <2>1
  <1>7. CASE conf.topK >= 0 /\ Len(recent) >= conf.topK
    <2>1. /\ recent' = Tail(grown)
          /\ todo' = << Op("delete", Head(grown), Now.ckpt, Absent) >> \o Tail(todo)
      BY <1>1, <1>2, <1>7 DEF Push, grown
    <2>2. todo' = Dropped(Head(grown))
      <3> DEFINE one == << Op("delete", Head(grown), Now.ckpt, Absent) >>
      <3>1. one \in Seq({Op("delete", Head(grown), Now.ckpt, Absent)})
        OBVIOUS
      <3> HIDE DEF one
      <3>2. one \o << >> = one
        BY <3>1, ConcatEmptySeq
      <3> QED BY <1>1, <2>1, <3>2 DEF Dropped, one
    <2>3. Head(grown) = IF recent = << >> THEN Now.name ELSE recent[1]
      BY <1>1, <1>2, <1>3
    <2>4. \A i \in 1..Len(recent) :
             recent'[i] = IF i = Len(recent) THEN Now.name ELSE recent[i + 1]
      BY <1>1, <1>2, <1>3, <2>1
    <2> QED BY <1>1, <1>3, <1>4, <1>7, <2>1, <2>2, <2>3, <2>4
  <1> QED BY <1>1, <1>5, <1>6, <1>7

\* bestK with an entry at position k + 1.
Grows(b, g, k, entry) ==
    /\ k \in 0..Len(b) /\ g \in Seq(Entries) /\ Len(g) = Len(b) + 1
    /\ \A i \in 1..Len(g) :
          g[i] = IF i <= k THEN b[i] ELSE IF i = k + 1 THEN entry ELSE b[i - 1]

LEMMA InsertAtGrows ==
    ASSUME NEW b \in Seq(Entries), NEW entry \in Entries, NEW k \in 0..Len(b)
    PROVE  Grows(b, InsertAt(b, k + 1, entry), k, entry)
  <1> DEFINE left == SubSeq(b, 1, k)
             right == SubSeq(b, k + 1, Len(b))
             one == << entry >>
  <1>1. Len(b) \in Nat /\ k \in Nat /\ k <= Len(b) /\ \A i \in 1..Len(b) : b[i] \in Entries
    BY ElementOfSeq
  <1>2. left \in Seq(Entries) /\ Len(left) = k /\ \A i \in 1..k : left[i] = b[i]
    BY <1>1, SubSeqProperties
  <1>3. /\ right \in Seq(Entries) /\ Len(right) = Len(b) - k
        /\ \A i \in 1..(Len(b) - k) : right[i] = b[k + i]
    <2>1. /\ right \in Seq(Entries)
          /\ Len(right) = IF k + 1 <= Len(b) THEN Len(b) - (k + 1) + 1 ELSE 0
          /\ \A i \in 1..(Len(b) - (k + 1) + 1) : right[i] = b[k + 1 + i - 1]
      BY <1>1, SubSeqProperties
    <2>2. Len(right) = Len(b) - k
      BY <1>1, <2>1
    <2>3. ASSUME NEW i \in 1..(Len(b) - k) PROVE right[i] = b[k + i]
      <3>1. i \in 1..(Len(b) - (k + 1) + 1) /\ k + 1 + i - 1 = k + i
        BY <1>1
      <3>2. right[i] = b[k + 1 + i - 1]
        BY <2>1, <3>1
      <3> QED BY <3>1, <3>2
    <2> QED BY <2>1, <2>2, <2>3
  <1>4. one \in Seq(Entries) /\ Len(one) = 1 /\ one[1] = entry
    OBVIOUS
  <1>5. InsertAt(b, k + 1, entry) = (left \o one) \o right
    <2>1. (k + 1) - 1 = k
      BY <1>1
    <2> QED BY <2>1 DEF InsertAt
  <1> HIDE DEF left, right, one
  <1> DEFINE lo == left \o one
  <1>6. /\ lo \in Seq(Entries) /\ Len(lo) = k + 1
        /\ \A i \in 1..k : lo[i] = b[i]
        /\ lo[k + 1] = entry
    <2>1. /\ lo \in Seq(Entries) /\ Len(lo) = Len(left) + Len(one)
          /\ \A i \in 1..(Len(left) + Len(one)) :
                lo[i] = IF i <= Len(left) THEN left[i] ELSE one[i - Len(left)]
      BY <1>2, <1>4, ConcatProperties
    <2> HIDE DEF lo
    <2>2. ASSUME NEW i \in 1..k PROVE lo[i] = b[i]
      BY <1>1, <1>2, <1>4, <2>1
    <2>3. lo[k + 1] = entry
      <3>1. k + 1 \in 1..(Len(left) + Len(one)) /\ ~(k + 1 <= Len(left)) /\ (k + 1) - Len(left) = 1
        BY <1>1, <1>2, <1>4
      <3> QED BY <1>4, <2>1, <3>1
    <2> QED BY <1>1, <1>2, <1>4, <2>1, <2>2, <2>3
  <1> HIDE DEF lo
  <1> DEFINE g == lo \o right
  <1>7. /\ g \in Seq(Entries) /\ Len(g) = Len(lo) + Len(right)
        /\ \A i \in 1..(Len(lo) + Len(right)) :
              g[i] = IF i <= Len(lo) THEN lo[i] ELSE right[i - Len(lo)]
    BY <1>3, <1>6, ConcatProperties
  <1> HIDE DEF g
  <1>8. Len(g) = Len(b) + 1
    BY <1>1, <1>3, <1>6, <1>7
  <1>9. ASSUME NEW i \in 1..Len(g)
        PROVE  g[i] = IF i <= k THEN b[i] ELSE IF i = k + 1 THEN entry ELSE b[i - 1]
    <2>0. i \in 1..(Len(lo) + Len(right)) /\ i \in Int
      BY <1>7
    <2>1. CASE i <= k
      <3>1. i <= Len(lo) /\ i \in 1..k
        BY <1>1, <1>6, <2>0, <2>1
      <3> QED BY <1>6, <1>7, <2>0, <2>1, <3>1
    <2>2. CASE i = k + 1
      <3>1. i <= Len(lo) /\ ~(i <= k)
        BY <1>1, <1>6, <2>2
      <3> QED BY <1>6, <1>7, <2>0, <2>2, <3>1
    <2>3. CASE i > k + 1
      <3>1. ~(i <= Len(lo)) /\ ~(i <= k) /\ i # k + 1
        BY <1>1, <1>6, <2>0, <2>3
      <3>2. i - Len(lo) \in 1..(Len(b) - k) /\ k + (i - Len(lo)) = i - 1
        BY <1>1, <1>6, <1>8, <2>0, <2>3
      <3>3. right[i - Len(lo)] = b[k + (i - Len(lo))]
        BY <1>3, <3>2
      <3> QED BY <1>7, <2>0, <3>1, <3>2, <3>3
    <2> QED BY <1>1, <2>0, <2>1, <2>2, <2>3
  <1>10. Grows(b, g, k, entry)
    BY <1>1, <1>7, <1>8, <1>9 DEF Grows
  <1> QED BY <1>5, <1>10 DEF g, lo

LEMMA AppendGrows ==
    ASSUME NEW b \in Seq(Entries), NEW entry \in Entries
    PROVE  Grows(b, Append(b, entry), Len(b), entry)
  BY AppendProperties DEF Grows

LEMMA InsertIdxRange ==
    ASSUME bestK \in Seq(Entries), NEW score
    PROVE  InsertIdx(score) \in 0..Len(bestK)
  <1>1. IsFiniteSet(DOMAIN bestK) /\ Cardinality(DOMAIN bestK) = Len(bestK) /\ Len(bestK) \in Nat
    <2>1. DOMAIN bestK = 1..Len(bestK) /\ Len(bestK) \in Nat
      OBVIOUS
    <2> QED BY <2>1, FS_Interval
  <1>2. { i \in DOMAIN bestK : bestK[i].score <= score } \in SUBSET (DOMAIN bestK)
    OBVIOUS
  <1> QED BY <1>1, <1>2, FS_Subset, FS_CardinalityType DEF InsertIdx

\* What _bestK and the rest of the hook are after an insertion.
Place == IF conf.topK < 0 THEN Len(bestK) ELSE InsertIdx(Now.score)
Entry == [score |-> Now.score, name |-> Now.name]

LEMMA InsertCases ==
    ASSUME TodoInv, todo # << >>, Insert(conf)
    PROVE  /\ Entry \in Entries /\ Now.do = "insert" /\ Now.score \in Scores
           /\ bestK' \in Seq(Entries) /\ UNCHANGED << recent, disk, tmp, orphans >>
           /\ offered' = [offered EXCEPT ![Now.score] = @ + 1]
           /\ \/ /\ conf.topK >= 0 /\ InsertIdx(Now.score) >= conf.topK /\ Now.score \notin Kept
                 /\ bestK' = bestK /\ todo' = << >>
              \/ /\ conf.topK < 0 \/ InsertIdx(Now.score) < conf.topK
                 /\ Now.score \in Kept
                 /\ conf.topK < 0 \/ Len(bestK) < conf.topK
                 /\ Grows(bestK, bestK', Place, Entry) /\ todo' = << >>
              \/ /\ conf.topK >= 0 /\ InsertIdx(Now.score) < conf.topK
                 /\ Now.score \in Kept /\ Len(bestK) >= conf.topK
                 /\ \E g : /\ Grows(bestK, g, Place, Entry)
                           /\ Len(bestK') = Len(bestK)
                           /\ \A i \in 1..Len(bestK) : bestK'[i] = g[i]
                           /\ todo' = Dropped(g[Len(g)].name) /\ g[Len(g)] \in Entries
  <1> DEFINE idx == InsertIdx(Now.score)
             grown == IF conf.topK < 0 THEN Append(bestK, Entry) ELSE InsertAt(bestK, idx + 1, Entry)
  <1>1. /\ Now.do = "insert" /\ Now.score \in Scores /\ Now.name \in FileNames
        /\ Tail(todo) = << >> /\ conf.topK \in Int
        /\ bestK \in Seq(Entries) /\ Len(bestK) \in Nat
    BY NowFacts, ConfigsAssumption DEF Insert, TodoInv, MemoryOK
  <1>2. Entry \in Entries /\ idx \in 0..Len(bestK)
    BY <1>1, InsertIdxRange DEF Entry, Entries
  <1>3. Now.score \in Kept <=> conf.topK < 0 \/ idx < conf.topK
    BY <1>1 DEF Kept
  <1>4. Grows(bestK, grown, Place, Entry)
    BY <1>1, <1>2, AppendGrows, InsertAtGrows DEF Place
  <1>5. /\ UNCHANGED << recent, disk, tmp, orphans >>
        /\ offered' = [offered EXCEPT ![Now.score] = @ + 1]
    BY DEF Insert
  <1>6. /\ grown \in Seq(Entries) /\ Len(grown) = Len(bestK) + 1
        /\ \A i \in 1..Len(grown) : grown[i] \in Entries
    BY <1>4, ElementOfSeq DEF Grows
  <1>7. CASE conf.topK >= 0 /\ idx >= conf.topK
    <2>1. bestK' = bestK /\ todo' = Tail(todo)
      BY <1>7 DEF Insert, idx
    <2> QED BY <1>1, <1>2, <1>3, <1>5, <1>7, <2>1
  <1>8. CASE ~(conf.topK >= 0 /\ idx >= conf.topK) /\ ~(conf.topK >= 0 /\ Len(grown) > conf.topK)
    <2>1. bestK' = grown /\ todo' = Tail(todo)
      BY <1>8 DEF Insert, idx, grown, Entry
    <2>2. /\ conf.topK < 0 \/ idx < conf.topK
          /\ conf.topK < 0 \/ Len(bestK) < conf.topK
      BY <1>1, <1>2, <1>6, <1>8
    <2> HIDE DEF grown, idx
    <2> QED BY <1>1, <1>2, <1>3, <1>4, <1>5, <1>6, <2>1, <2>2 DEF idx
  <1>9. CASE ~(conf.topK >= 0 /\ idx >= conf.topK) /\ conf.topK >= 0 /\ Len(grown) > conf.topK
    <2>1. /\ bestK' = SubSeq(grown, 1, Len(grown) - 1)
          /\ todo' = << Op("delete", grown[Len(grown)].name, Now.ckpt, Absent) >> \o Tail(todo)
      BY <1>9 DEF Insert, idx, grown, Entry, Pop, Front
    <2> HIDE DEF grown, idx
    <2>2. /\ idx < conf.topK /\ Len(bestK) >= conf.topK /\ Len(grown) - 1 = Len(bestK)
          /\ Len(grown) \in 1..Len(grown)
      BY <1>1, <1>2, <1>6, <1>9
    <2>3. /\ bestK' \in Seq(Entries) /\ Len(bestK') = Len(bestK)
          /\ \A i \in 1..Len(bestK) : bestK'[i] = grown[i]
      <3>1. \A i \in 1..Len(bestK) : grown[i] \in Entries
        BY <1>1, <1>6
      <3> DEFINE short == SubSeq(grown, 1, Len(bestK))
      <3>2. /\ short \in Seq(Entries)
            /\ Len(short) = IF 1 <= Len(bestK) THEN Len(bestK) - 1 + 1 ELSE 0
            /\ \A i \in 1..(Len(bestK) - 1 + 1) : short[i] = grown[1 + i - 1]
        BY <1>1, <3>1, SubSeqProperties
      <3>3. Len(bestK) - 1 + 1 = Len(bestK) /\ \A i \in Int : 1 + i - 1 = i
        BY <1>1
      <3>4. bestK' = short
        BY <2>1, <2>2
      <3> HIDE DEF short
      <3> QED BY <1>1, <3>2, <3>3, <3>4
    <2>4. todo' = Dropped(grown[Len(grown)].name)
      <3> DEFINE one == << Op("delete", grown[Len(grown)].name, Now.ckpt, Absent) >>
      <3>1. one \in Seq({Op("delete", grown[Len(grown)].name, Now.ckpt, Absent)})
        OBVIOUS
      <3> HIDE DEF one
      <3>2. one \o << >> = one
        BY <3>1, ConcatEmptySeq
      <3> QED BY <1>1, <2>1, <3>2 DEF Dropped, one
    <2> QED BY <1>1, <1>2, <1>3, <1>4, <1>5, <1>6, <1>9, <2>2, <2>3, <2>4 DEF idx
  <1> QED BY <1>7, <1>8, <1>9

-----------------------------------------------------------------------------
\* A hook's operations stay well formed, whatever happens

LEMMA KeptSame == UNCHANGED << conf, bestK >> => Kept' = Kept
  BY DEF Kept, InsertIdx

\* A step to the next operation of _saveCheckpoint.
LEMMA NextOperation ==
    ASSUME TodoInv, todo # << >>, todo' = Tail(todo), UNCHANGED Others,
           UNCHANGED << bestK, recent, offered >>, FilesOK',
           Tail(todo) # << >> => Ready'
    PROVE  TodoInv'
  <1>1. MemoryOK'
    BY DEF TodoInv, MemoryOK, Others
  <1>2. Kept' = Kept
    BY KeptSame DEF Others
  <1>3. Ops(conf, globalStep, life)' = Ops(conf, globalStep, life)
    BY DEF Ops, LastOps, OwnOps, DeleteOps, Others
  <1>4. HookInv'
    BY <1>2, <1>3, NowFacts DEF HookInv, Others
  <1> QED BY <1>1, <1>4 DEF TodoInv

\* An operation that ends the hook, or leaves a file to be deleted.
LEMMA LastOperation ==
    ASSUME TodoInv, todo # << >>, UNCHANGED Others, MemoryOK', FilesOK',
           todo' = << >> \/ \E name \in FileNames : todo' = Dropped(name)
    PROVE  TodoInv'
  <1>1. Ops(conf, globalStep, life)' = Ops(conf, globalStep, life)
    BY DEF Ops, LastOps, OwnOps, DeleteOps, Others
  <1>2. CASE todo' = << >>
    BY <1>2, NoneChained DEF TodoInv, HookInv
  <1>3. ASSUME NEW name \in FileNames, todo' = Dropped(name)
        PROVE  TodoInv'
    <2> DEFINE op == Op("delete", name, Now.ckpt, Absent)
    <2>1. op \in Ops(conf, globalStep, life) /\ op.do = "delete"
      BY NowFacts DEF Op, Ops, DeleteOps
    <2> HIDE DEF op
    <2>2. todo' = << op >>
      BY <1>3 DEF Dropped, op
    <2>3. /\ todo' \in Seq(Ops(conf, globalStep, life)) /\ todo' # << >>
          /\ todo'[1] = op /\ Len(todo') = 1 /\ \A kept : Linked(todo', kept)
      BY <2>1, <2>2, OneLinked
    <2>4. Chained(todo', Kept') /\ Ready'
      BY <2>1, <2>3 DEF Chained, Ends, Ready, Saved
    <2>5. pc' = "hooks"
      BY NowFacts DEF Others
    <2> QED BY <1>1, <2>3, <2>4, <2>5 DEF TodoInv, HookInv
  <1> QED BY <1>2, <1>3

LEMMA TodoHookStep ==
    ASSUME TodoInv, SaveStep
    PROVE  TodoInv'
  <1>0. todo # << >> /\ UNCHANGED Others
    BY SaveStepCases
  <1> USE DEF Others
  <1>1. /\ Now.name \in Names /\ Now.ckpt \in Ckpts /\ Now.ckpt.life <= life
        /\ Now = todo[1] /\ life \in Nat
    BY <1>0, NowFacts DEF TodoInv, MemoryOK
  <1>2. Tail(todo) # << >> => Follows(Now, Tail(todo)[1], Kept)
    BY <1>0, NowFacts
  <1>3. CASE Open
    <2>1. todo' = Tail(todo) /\ UNCHANGED << disk, bestK, recent, offered, orphans >>
      BY <1>3 DEF Open
    <2>2. FilesOK'
      BY <1>0, <1>1, <1>3 DEF Open, With, TodoInv, FilesOK
    <2>3. Tail(todo) # << >> => Ready'
      <3>1. Kept' = Kept
        BY <1>0, <2>1, KeptSame
      <3> QED BY <1>2, <1>3, <2>1, <3>1 DEF Ready, Follows, Open
    <2> QED BY <1>0, <2>1, <2>2, <2>3, NextOperation
  <1>4. CASE Fill
    <2>1. todo' = Tail(todo) /\ UNCHANGED << disk, bestK, recent, offered, orphans >>
      BY <1>4 DEF Fill
    <2>2. /\ DOMAIN tmp' = DOMAIN tmp \cup {Now.name}
          /\ tmp'[Now.name] = Whole(Now.ckpt)
          /\ \A n \in DOMAIN tmp : n # Now.name => tmp'[n] = tmp[n]
      BY <1>4 DEF Fill, With, Whole
    <2>3. FilesOK'
      <3>1. Whole(Now.ckpt) \in [ckpt : Ckpts, whole : BOOLEAN]
        BY <1>1 DEF Whole
      <3> QED BY <1>0, <1>1, <2>1, <2>2, <3>1 DEF TodoInv, FilesOK
    <2>4. Tail(todo) # << >> => Ready'
      <3>1. Kept' = Kept
        BY <1>0, <2>1, KeptSame
      <3> QED BY <1>2, <1>4, <2>1, <2>2, <3>1 DEF Ready, Follows, Fill, Same
    <2> QED BY <1>0, <2>1, <2>3, <2>4, NextOperation
  <1>5. CASE Rename
    <2>1. /\ todo' = Tail(todo) /\ UNCHANGED << bestK, recent, offered >>
          /\ orphans' = orphans \ {Now.name} /\ Now.do = "rename"
      BY <1>5 DEF Rename
    <2>2. Now.name \in DOMAIN tmp /\ tmp[Now.name] = Whole(Now.ckpt)
      BY <1>0, <1>1, <2>1 DEF TodoInv, HookInv, Ready
    <2>3. /\ DOMAIN disk' = DOMAIN disk \cup {Now.name}
          /\ disk'[Now.name] = Whole(Now.ckpt)
          /\ \A n \in DOMAIN disk : n # Now.name => disk'[n] = disk[n]
          /\ DOMAIN tmp' = DOMAIN tmp \ {Now.name}
          /\ \A n \in DOMAIN tmp' : tmp'[n] = tmp[n]
      BY <1>5, <2>2 DEF Rename, With, Restrict
    <2>4. FilesOK'
      <3>1. /\ Whole(Now.ckpt) \in [ckpt : Ckpts, whole : BOOLEAN]
            /\ Whole(Now.ckpt).ckpt = Now.ckpt
        BY <1>1 DEF Whole
      <3>2. life' = life
        BY <1>0
      <3> QED BY <1>1, <2>1, <2>3, <3>1, <3>2 DEF TodoInv, FilesOK
    <2>5. Tail(todo) # << >> => Ready'
      <3>1. Kept' = Kept
        BY <1>0, <2>1, KeptSame
      <3> QED BY <1>2, <2>1, <2>3, <3>1 DEF Ready, Follows, Same
    <2> QED BY <1>0, <2>1, <2>4, <2>5, NextOperation
  <1>6. CASE Push(conf)
    <2>1. /\ recent' \in Seq(FileNames) /\ UNCHANGED << disk, tmp, bestK, offered, orphans >>
          /\ todo' = << >> \/ \E name \in FileNames : todo' = Dropped(name)
      BY <1>0, <1>6, PushCases
    <2>2. MemoryOK' /\ FilesOK'
      BY <1>0, <2>1 DEF TodoInv, MemoryOK, FilesOK
    <2> QED BY <1>0, <2>1, <2>2, LastOperation
  <1>7. CASE Insert(conf)
    <2>1. /\ bestK' \in Seq(Entries) /\ UNCHANGED << recent, disk, tmp, orphans >>
          /\ offered' = [offered EXCEPT ![Now.score] = @ + 1] /\ Now.score \in Scores
          /\ todo' = << >> \/ \E name \in FileNames : todo' = Dropped(name)
      BY <1>0, <1>7, InsertCases DEF Entries
    <2>2. MemoryOK' /\ FilesOK'
      BY <1>0, <2>1 DEF TodoInv, MemoryOK, FilesOK
    <2> QED BY <1>0, <2>1, <2>2, LastOperation
  <1>8. CASE Delete
    <2>1. /\ todo' = << >> /\ UNCHANGED << tmp, bestK, recent, offered >>
      BY <1>0, <1>8, NowFacts DEF Delete
    <2>2. FilesOK'
      BY <1>0, <1>1, <1>8 DEF Delete, Restrict, TodoInv, FilesOK
    <2>3. MemoryOK'
      BY <1>0, <2>1 DEF TodoInv, MemoryOK
    <2> QED BY <1>0, <2>1, <2>2, <2>3, LastOperation
  <1> QED BY <1>3, <1>4, <1>5, <1>6, <1>7, <1>8, SaveStepCases

LEMMA TodoStep == TodoInv /\ [TNext]_vars => TodoInv'
  <1> SUFFICES ASSUME TodoInv, [TNext]_vars PROVE TodoInv'
    OBVIOUS
  <1>1. CASE Quiet
    <2>1. MemoryOK' /\ FilesOK'
      BY <1>1 DEF Quiet, TodoInv, MemoryOK, FilesOK
    <2>2. HookInv'
      BY <1>1, NoneChained DEF Quiet, HookInv
    <2> QED BY <2>1, <2>2 DEF TodoInv
  <1>2. CASE UNCHANGED vars
    <2>1. Kept' = Kept
      BY <1>2, KeptSame DEF vars, ckptVars, ckptMemory
    <2>2. MemoryOK' /\ FilesOK'
      BY <1>2 DEF vars, ckptVars, ckptMemory, loopVars, TodoInv, MemoryOK, FilesOK
    <2>3. HookInv'
      <3>1. Ops(conf, globalStep, life)' = Ops(conf, globalStep, life)
        BY <1>2 DEF vars, loopVars, Ops, LastOps, OwnOps, DeleteOps
      <3> QED BY <1>2, <2>1, <3>1 DEF vars, ckptVars, ckptMemory, TodoInv, HookInv, Ready
    <2> QED BY <2>2, <2>3 DEF TodoInv
  <1>3. ASSUME NEW m \in Metrics, TrainEpochEnds(m)
        PROVE  TodoInv'
    <2>1. /\ UNCHANGED << conf, epoch, globalStep, life, disk, tmp, bestK, recent, offered, orphans >>
          /\ pc' = "hooks"
          /\ todo' \in Seq(Ops(conf, globalStep, life))
          /\ Chained(todo', Kept) /\ Starts(todo', Kept)
      BY <1>3, EpochEndStep
    <2>2. MemoryOK' /\ FilesOK'
      BY <2>1 DEF TodoInv, MemoryOK, FilesOK
    <2>3. Kept' = Kept
      BY <2>1, KeptSame
    <2>4. Ops(conf, globalStep, life)' = Ops(conf, globalStep, life)
      BY <2>1 DEF Ops, LastOps, OwnOps, DeleteOps
    <2>5. todo' # << >> => Ready'
      BY <2>1, <2>3 DEF Starts, Ready
    <2> QED BY <2>1, <2>2, <2>3, <2>4, <2>5 DEF TodoInv, HookInv
  <1>4. CASE SaveStep
    BY <1>4, TodoHookStep
  <1>5. CASE Crash
    <2>1. /\ life' = life + 1 /\ globalStep' = 0 /\ epoch' = 0 /\ conf' = conf
          /\ bestK' = << >> /\ recent' = << >> /\ todo' = << >> /\ orphans' = {}
          /\ offered' = [s \in Scores |-> 0] /\ UNCHANGED << disk, tmp >>
      BY <1>5 DEF Crash, Forgotten
    <2>2. MemoryOK'
      BY <2>1 DEF TodoInv, MemoryOK
    <2>3. FilesOK'
      BY <2>1 DEF TodoInv, MemoryOK, FilesOK, Ckpts
    <2>4. HookInv'
      BY <2>1, NoneChained DEF HookInv
    <2> QED BY <2>2, <2>3, <2>4 DEF TodoInv
  <1> QED BY <1>1, <1>2, <1>3, <1>4, <1>5, StepKinds

LEMMA TodoInit == TInit => TodoInv
  BY NoneChained DEF TInit, CInit, TodoInv, MemoryOK, FilesOK, HookInv, NoFile

-----------------------------------------------------------------------------
\* last.ckpt

LastWhole ==
    LastCkpt \in DOMAIN disk =>
        /\ disk[LastCkpt].whole
        /\ disk[LastCkpt].ckpt \in Ckpts
        /\ ~Older([life |-> life, step |-> globalStep], disk[LastCkpt].ckpt)

LastStep ==
    (LastCkpt \in DOMAIN disk) =>
        /\ LastCkpt \in DOMAIN disk' /\ disk'[LastCkpt].whole
        /\ ~Older(disk'[LastCkpt].ckpt, disk[LastCkpt].ckpt)

LEMMA LastWholeStep == TodoInv /\ LastWhole /\ [TNext]_vars => LastWhole' /\ LastStep
  <1> SUFFICES ASSUME TodoInv, LastWhole, [TNext]_vars PROVE LastWhole' /\ LastStep
    OBVIOUS
  <1>0. globalStep \in Nat /\ life \in Nat
    BY DEF TodoInv, MemoryOK
  <1>1. CASE /\ LastCkpt \in DOMAIN disk' <=> LastCkpt \in DOMAIN disk
             /\ LastCkpt \in DOMAIN disk => disk'[LastCkpt] = disk[LastCkpt]
             /\ life' = life /\ globalStep' \in Nat /\ globalStep' >= globalStep
    BY <1>0, <1>1 DEF LastWhole, LastStep, Older, Ckpts
  <1>2. CASE SaveStep
    <2>1. todo # << >> /\ UNCHANGED Others
      BY <1>2, SaveStepCases
    <2>2. CASE Rename /\ Now.name = LastCkpt
      <3>1. /\ tmp[LastCkpt] = Whole(Now.ckpt)
            /\ Now.ckpt \in Ckpts /\ Now.ckpt.step = globalStep /\ Now.ckpt.life = life
        BY <2>1, <2>2, NowFacts DEF Rename, TodoInv, HookInv, Ready
      <3>2. LastCkpt \in DOMAIN disk' /\ disk'[LastCkpt] = Whole(Now.ckpt)
        BY <2>2, <3>1 DEF Rename, With
      <3> QED BY <1>0, <2>1, <3>1, <3>2 DEF LastWhole, LastStep, Older, Ckpts, Others, Whole
    <2>3. CASE Rename /\ Now.name # LastCkpt
      <3>1. /\ LastCkpt \in DOMAIN disk' <=> LastCkpt \in DOMAIN disk
            /\ LastCkpt \in DOMAIN disk => disk'[LastCkpt] = disk[LastCkpt]
        BY <2>3 DEF Rename, With
      <3> QED BY <1>0, <1>1, <2>1, <3>1 DEF Others
    <2>4. CASE Delete
      <3>1. Now.name # LastCkpt
        BY <2>1, <2>4, NowFacts DEF Delete
      <3>2. /\ LastCkpt \in DOMAIN disk' <=> LastCkpt \in DOMAIN disk
            /\ LastCkpt \in DOMAIN disk => disk'[LastCkpt] = disk[LastCkpt]
        BY <2>4, <3>1 DEF Delete, Restrict
      <3> QED BY <1>0, <1>1, <2>1, <3>2 DEF Others
    <2>5. CASE Open \/ Fill \/ Push(conf) \/ Insert(conf)
      BY <1>0, <1>1, <2>1, <2>5 DEF Open, Fill, Push, Insert, Others
    <2> QED BY <1>2, <2>2, <2>3, <2>4, <2>5, SaveStepCases
  <1>3. CASE Crash
    BY <1>0, <1>3 DEF Crash, Forgotten, LastWhole, LastStep, Older, Ckpts
  <1>4. CASE Quiet
    BY <1>1, <1>4 DEF Quiet
  <1>5. CASE UNCHANGED vars
    BY <1>0, <1>1, <1>5 DEF vars, ckptVars, loopVars
  <1>6. ASSUME NEW m \in Metrics, TrainEpochEnds(m)
        PROVE  LastWhole' /\ LastStep
    BY <1>0, <1>1, <1>6, EpochEndStep
  <1> QED BY <1>2, <1>3, <1>4, <1>5, <1>6, StepKinds

(* last.ckpt, once there, is always there and whole and never older than    *)
(* before, whatever fails and whenever the process dies.                    *)
THEOREM LastCheckpointSurvives == TSpec => LastSurvives
  <1>1. TInit => LastWhole
    BY DEF TInit, CInit, LastWhole, NoFile
  <1> QED
    BY <1>1, TodoInit, TodoStep, LastWholeStep, PTL DEF TSpec, LastSurvives, LastStep

-----------------------------------------------------------------------------
\* Types, and a batch loop that starts has a batch to train

LoopInv ==
    /\ conf \in Configs /\ epoch \in Nat /\ batchIdx \in Nat
    /\ pc \in {"idle", "epoch", "batch", "hooks", "validate"}
    /\ accumulate \in Nat \ {0} /\ accumGrad \in Nat \ {0}
    /\ shouldStop \in BOOLEAN
    /\ waitCount \in Nat /\ stale \in Nat
    /\ bestScore \in Metrics /\ seenBest \in Metrics
    /\ fits \in Nat
    /\ pc = "batch" /\ batchIdx = 0 => ~shouldStop /\ ~StepLimit

LEMMA CheckWatchTypes ==
    ASSUME LoopInv, NEW metric \in Metrics, NEW seen \in Metrics, NEW stop
    PROVE  /\ Check(metric, stop) =>
                 waitCount' \in Nat /\ bestScore' \in Metrics /\ shouldStop' \in BOOLEAN
           /\ Watch(seen) => stale' \in Nat /\ seenBest' \in Metrics
  <1>1. Check(metric, stop) => waitCount' \in Nat /\ bestScore' \in Metrics
    BY DEF LoopInv, Check
  <1>2. Check(metric, stop) => shouldStop' \in BOOLEAN
    <2>1. \A a, b, c : (a = (b \/ c)) => a \in BOOLEAN
      BY Zenon
    <2> QED BY <2>1, Zenon DEF Check
  <1>3. Watch(seen) => stale' \in Nat /\ seenBest' \in Metrics
    BY DEF LoopInv, Watch
  <1> QED BY <1>1, <1>2, <1>3

LEMMA LoopStep == LoopInv /\ [TNext]_vars => LoopInv'
  <1> SUFFICES ASSUME LoopInv, [TNext]_vars PROVE LoopInv'
    OBVIOUS
  <1> USE DEF loopVars, stopVars
  <1>1. /\ conf.accum \in Nat \ {0} /\ conf.onTrainEnd \in BOOLEAN
        /\ \A e \in DOMAIN conf.schedule : conf.schedule[e] \in Nat \ {0}
        /\ conf.limit \in Nat \ {0}
    BY ConfigsAssumption DEF LoopInv
  <1>2. CASE Fit
    <2>1. shouldStop' \in BOOLEAN /\ pc' = "epoch"
      BY <1>2, Zenon DEF Fit
    <2>2. seenBest' \in Metrics
      BY <1>2 DEF Fit, Metrics
    <2> QED BY <1>2, <2>1, <2>2 DEF Fit, LoopInv
  <1>3. CASE FitEnds \/ StepThrows \/ ValidateThrows \/ EpochEnds
    BY <1>3 DEF FitEnds, StepThrows, ValidateThrows, EpochEnds, LoopInv
  <1>4. CASE StartEpoch
    <2>1. ~shouldStop' /\ ~StepLimit'
      BY <1>4 DEF StartEpoch, AnotherEpoch, StepLimit
    <2> QED BY <1>1, <1>4, <2>1 DEF StartEpoch, LoopInv
  <1>5. CASE Batch
    <2>1. batchIdx' = batchIdx + 1 /\ batchIdx' # 0 /\ batchIdx' \in Nat
      BY <1>5 DEF Batch, LoopInv
    <2> QED BY <1>5, <2>1 DEF Batch, LoopInv
  <1>6. ASSUME NEW n \in 0..NumOptimizers, NEW b \in BOOLEAN, UpdateThrows(n, b)
        PROVE  LoopInv'
    BY <1>6 DEF UpdateThrows, LoopInv
  <1>12. ASSUME NEW reached \in SUBSET Optimizers, BackwardThrows(reached)
        PROVE  LoopInv'
    BY <1>12 DEF BackwardThrows, LoopInv
  <1>7. ASSUME NEW m \in Metrics, TrainEpochEnds(m)
        PROVE  LoopInv'
    <2> DEFINE stop == shouldStop \/ (batchIdx < conf.limit /\ StepLimit)
    <2>1. Visible(m) \in Metrics
      BY DEF Visible, Metrics
    <2>2. /\ waitCount' \in Nat /\ stale' \in Nat /\ bestScore' \in Metrics /\ seenBest' \in Metrics
          /\ shouldStop' \in BOOLEAN
      <3>1. CASE conf.onTrainEnd
        <4>1. Check(Visible(m), stop) /\ Watch(m)
          BY <1>7, <3>1 DEF TrainEpochEnds
        <4> QED BY <2>1, <4>1, CheckWatchTypes
      <3>2. CASE ~conf.onTrainEnd
        <4>1. shouldStop' = stop /\ UNCHANGED << waitCount, bestScore, stale, seenBest >>
          BY <1>7, <3>2 DEF TrainEpochEnds
        <4>2. shouldStop' \in BOOLEAN
          <5>1. \A a, b, c : (a = (b \/ c)) => a \in BOOLEAN
            BY Zenon
          <5> QED BY <4>1, <5>1, Zenon
        <4> QED BY <4>1, <4>2 DEF LoopInv
      <3> QED BY <3>1, <3>2
    <2>3. pc' = "hooks" /\ UNCHANGED << conf, loopVars, fits >>
      BY <1>7 DEF TrainEpochEnds
    <2> QED BY <2>2, <2>3 DEF LoopInv
  <1>8. CASE SaveStep \/ SaveThrows
    BY <1>8 DEF SaveStep, SaveThrows, HookFails, LoopInv, StepLimit
  <1>9. ASSUME NEW m \in Metrics, Validate(m) \/ ValidateAlone(m)
        PROVE  LoopInv'
    <2>1. Visible(m) \in Metrics
      BY DEF Visible, Metrics
    <2>2. waitCount' \in Nat /\ bestScore' \in Metrics /\ shouldStop' \in BOOLEAN
      <3>1. CASE conf.onTrainEnd
        BY <1>9, <3>1 DEF Validate, ValidateAlone, ValidationHook, LoopInv
      <3>2. CASE ~conf.onTrainEnd
        <4>1. Check(Visible(m), shouldStop)
          BY <1>9, <3>2 DEF Validate, ValidateAlone, ValidationHook
        <4> QED BY <2>1, <4>1, CheckWatchTypes
      <3> QED BY <3>1, <3>2
    <2>3. stale' \in Nat /\ seenBest' \in Metrics
      <3>1. UNCHANGED << stale, seenBest >> \/ Watch(m)
        BY <1>1, <1>9 DEF Validate, ValidateAlone
      <3> QED BY <3>1, CheckWatchTypes DEF LoopInv
    <2>4. /\ conf' = conf /\ epoch' \in Nat /\ fits' = fits
          /\ UNCHANGED << batchIdx, globalStep, accumulate, accumGrad >>
          /\ pc' \in {"epoch", "idle"}
      BY <1>9 DEF Validate, ValidateAlone, LoopInv
    <2> QED BY <2>2, <2>3, <2>4 DEF LoopInv
  <1>10. CASE Crash
    BY <1>1, <1>10 DEF Crash, LoopInv, Metrics
  <1>11. CASE UNCHANGED vars
    BY <1>11 DEF vars, LoopInv, StepLimit
  <1> QED BY <1>2, <1>3, <1>4, <1>5, <1>6, <1>7, <1>8, <1>9, <1>10, <1>11, <1>12 DEF TNext

LEMMA LoopInit == TInit => LoopInv
  <1> SUFFICES ASSUME TInit PROVE LoopInv
    OBVIOUS
  <1>1. shouldStop \in BOOLEAN /\ pc = "idle"
    BY Zenon DEF TInit
  <1>2. bestScore \in Metrics /\ seenBest \in Metrics
    BY DEF TInit, Metrics
  <1>3. accumulate \in Nat \ {0} /\ accumGrad \in Nat \ {0}
    BY ConfigsAssumption DEF TInit
  <1> QED BY <1>1, <1>2, <1>3 DEF TInit, LoopInv

(* The trainer's and the callback's variables keep their types; a hook has  *)
(* file operations left only while the fit waits for it.                    *)
THEOREM TrainerTypeOK == TSpec => []TTypeOK
  <1>1. TodoInv /\ LoopInv /\ GradInv => TTypeOK
    <2> SUFFICES ASSUME TodoInv, LoopInv, GradInv PROVE TTypeOK
      OBVIOUS
    <2>1. todo \in Seq([do : {"open", "fill", "rename", "push", "insert", "delete"},
                        name : Names, ckpt : Ckpts, score : Scores \cup {Absent}])
      <3> DEFINE R == [do : {"open", "fill", "rename", "push", "insert", "delete"},
                       name : Names, ckpt : Ckpts, score : Scores \cup {Absent}]
      <3>1. Ops(conf, globalStep, life) \subseteq R
        BY OtherNames DEF Ops, LastOps, OwnOps, DeleteOps, Stamps, Metrics
      <3>2. todo \in Seq(Ops(conf, globalStep, life))
        BY DEF TodoInv, HookInv
      <3> HIDE DEF R
      <3>3. todo \in Seq(R)
        BY <3>1, <3>2
      <3> QED BY <3>3 DEF R
    <2>2. bestK \in Seq([score : Scores, name : Names]) /\ recent \in Seq(Names)
      <3> DEFINE R == [score : Scores, name : Names]
      <3>1. Entries \subseteq R /\ FileNames \subseteq Names
        BY OtherNames DEF Entries
      <3>2. bestK \in Seq(Entries) /\ recent \in Seq(FileNames)
        BY DEF TodoInv, MemoryOK
      <3> HIDE DEF R
      <3>3. bestK \in Seq(R) /\ recent \in Seq(Names)
        BY <3>1, <3>2
      <3> QED BY <3>3 DEF R
    <2> QED
      BY <2>1, <2>2
      DEF TTypeOK, TodoInv, MemoryOK, FilesOK, HookInv, LoopInv, GradInv, GradTypeOK
  <1>2. TInit => GradInv
    BY DEF TInit, GradInv, GradTypeOK, GradientOnce
  <1> QED
    BY <1>1, <1>2, TodoInit, TodoStep, LoopInit, LoopStep, GradStep, PTL DEF TSpec

-----------------------------------------------------------------------------
\* The checkpoints the callback reports

\* No name is reported twice.
DistinctNames ==
    /\ \A i, j \in DOMAIN recent : recent[i] = recent[j] => i = j
    /\ \A i, j \in DOMAIN bestK : bestK[i].name = bestK[j].name => i = j
    /\ \A i \in DOMAIN recent, j \in DOMAIN bestK : recent[i] # bestK[j].name

\* globalStep has moved on since the last report.
MovedOn == (pc = "batch" /\ batchIdx # 0) \/ (todo # << >> /\ todo[1].do # "delete")

NamesInv ==
    /\ DistinctNames
    /\ \A n \in Reported :
          /\ n.step <= globalStep
          /\ MovedOn => n.step < globalStep
          /\ todo # << >> /\ todo[1].do = "delete" => todo[1].name # n

\* A reported checkpoint is a whole file, and one that is not reported is from
\* an earlier life, is about to be reported or deleted, or could not be deleted.
OnDisk(n) ==
    n \in DOMAIN disk /\ disk[n].whole /\ FileName(disk[n].ckpt) = n /\ disk[n].ckpt.life = life

Awaited(n) ==
    /\ todo # << >> /\ todo[1].name = n
    /\ Saved(todo[1], Kept) \/ todo[1].do = "delete"

DiskInv ==
    /\ \A n \in Reported : OnDisk(n)
    /\ conf.monitor \/ conf.topK >= 0 =>
          \A n \in DOMAIN disk \ (Reported \cup orphans \cup {LastCkpt}) :
              disk[n].ckpt.life < life \/ Awaited(n)

\* The names in a _bestK and a _recent.
NamesIn(b, r) == { b[i].name : i \in DOMAIN b } \cup ToSet(r)

LEMMA NamesInFacts ==
    ASSUME NEW b \in Seq(Entries), NEW r \in Seq(FileNames)
    PROVE  /\ Len(b) \in Nat /\ Len(r) \in Nat
           /\ DOMAIN b = 1..Len(b) /\ DOMAIN r = 1..Len(r)
           /\ \A i \in 1..Len(b) : b[i].name \in FileNames
           /\ \A i \in 1..Len(r) : r[i] \in FileNames
           /\ \A n : n \in NamesIn(b, r) <=> \/ \E i \in 1..Len(b) : n = b[i].name
                                            \/ \E i \in 1..Len(r) : n = r[i]
           /\ \A n \in NamesIn(b, r) : n \in FileNames /\ n.step \in Nat /\ n # LastCkpt
  <1>1. /\ Len(b) \in Nat /\ Len(r) \in Nat
        /\ DOMAIN b = 1..Len(b) /\ DOMAIN r = 1..Len(r)
    BY LenProperties
  <1>2. /\ \A i \in 1..Len(b) : b[i].name \in FileNames
        /\ \A i \in 1..Len(r) : r[i] \in FileNames
    <2>1. \A i \in 1..Len(b) : b[i] \in Entries
      BY ElementOfSeq
    <2>2. \A i \in 1..Len(r) : r[i] \in FileNames
      BY ElementOfSeq
    <2> QED BY <2>1, <2>2 DEF Entries
  <1>3. \A n : n \in NamesIn(b, r) <=> \/ \E i \in 1..Len(b) : n = b[i].name
                                      \/ \E i \in 1..Len(r) : n = r[i]
    BY <1>1 DEF NamesIn, ToSet
  <1>4. \A n \in FileNames : n.step \in Nat /\ n # LastCkpt
    BY OtherNames DEF FileNames
  <1> QED BY <1>1, <1>2, <1>3, <1>4

LEMMA ReportedTypes ==
    ASSUME MemoryOK
    PROVE  /\ Reported = NamesIn(bestK, recent)
           /\ bestK \in Seq(Entries) /\ recent \in Seq(FileNames)
           /\ \A n \in Reported : n \in FileNames /\ n.step \in Nat /\ n # LastCkpt
  <1>1. /\ Reported = NamesIn(bestK, recent)
        /\ bestK \in Seq(Entries) /\ recent \in Seq(FileNames)
    BY DEF Reported, NamesIn, MemoryOK
  <1> QED BY <1>1, NamesInFacts

LEMMA ReportedSame == UNCHANGED << bestK, recent >> => Reported' = Reported
  BY DEF Reported, ToSet

\* The file a hook is about to report has a new name.
LEMMA NewName ==
    ASSUME TodoInv, NamesInv, todo # << >>, Now.do \in {"push", "insert"}
    PROVE  /\ Now.name \in FileNames /\ Now.name \notin Reported
           /\ \A i \in 1..Len(bestK) : bestK[i].name # Now.name
           /\ \A i \in 1..Len(recent) : recent[i] # Now.name
  <1>1. /\ Now.name \in FileNames /\ Now.name.step = globalStep /\ Now = todo[1]
        /\ globalStep \in Nat /\ MemoryOK
    BY NowFacts DEF FileName, TodoInv, MemoryOK
  <1>2. \A n \in Reported : n.step < globalStep
    BY <1>1 DEF NamesInv, MovedOn
  <1>3. Now.name \notin Reported
    BY <1>1, <1>2
  <1> QED BY <1>1, <1>3, ReportedTypes, NamesInFacts

\* What a push or an insertion does to the reported names.
Report ==
    \/ Saved(Now, Kept) /\ todo' = << >> /\ Reported' = Reported \cup {Now.name}
    \/ /\ (conf.topK < 0 /\ ~conf.monitor) \/ ~Saved(Now, Kept)
       /\ todo' = << >> /\ Reported' = Reported
    \/ /\ Saved(Now, Kept)
       /\ \E name \in FileNames :
             todo' = Dropped(name) /\ Reported' = (Reported \cup {Now.name}) \ {name}

LEMMA PushReports ==
    ASSUME TodoInv, NamesInv, todo # << >>, Push(conf), UNCHANGED Others, MemoryOK'
    PROVE  DistinctNames' /\ Report
  <1>0. /\ MemoryOK /\ Now.do = "push" /\ ~conf.monitor /\ bestK' = bestK /\ conf' = conf
        /\ DistinctNames
    BY NowFacts DEF TodoInv, Push, Others, NamesInv
  <1>1. /\ \A i \in 1..Len(bestK) : bestK[i].name # Now.name
        /\ \A i \in 1..Len(recent) : recent[i] # Now.name
        /\ Now.name \in FileNames
    BY <1>0, NewName
  <1>2. Saved(Now, Kept)
    BY <1>0 DEF Saved
  <1>3. /\ bestK \in Seq(Entries) /\ recent \in Seq(FileNames) /\ recent' \in Seq(FileNames)
        /\ Reported = NamesIn(bestK, recent) /\ Reported' = NamesIn(bestK, recent')
        /\ recent = << >> <=> Len(recent) = 0
    BY <1>0, ReportedTypes DEF MemoryOK, Reported, NamesIn
  <1>4. Len(recent) \in Nat /\ Len(recent') \in Nat
    BY <1>3, NamesInFacts
  <1>8. /\ \A n : n \in Reported <=> \/ \E i \in 1..Len(bestK) : n = bestK[i].name
                                     \/ \E i \in 1..Len(recent) : n = recent[i]
        /\ DOMAIN bestK = 1..Len(bestK) /\ DOMAIN recent = 1..Len(recent)
    BY <1>3, NamesInFacts
  <1>9. /\ \A n : n \in Reported' <=> \/ \E i \in 1..Len(bestK) : n = bestK[i].name
                                      \/ \E i \in 1..Len(recent') : n = recent'[i]
        /\ DOMAIN recent' = 1..Len(recent')
    BY <1>3, NamesInFacts
  <1>10. /\ \A i, j \in 1..Len(recent) : recent[i] = recent[j] => i = j
         /\ \A i \in 1..Len(recent), j \in 1..Len(bestK) : recent[i] # bestK[j].name
    BY <1>0, <1>8 DEF DistinctNames
  <1> HIDE DEF Reported
  <1>5. CASE conf.topK < 0 /\ recent' = recent /\ todo' = << >>
    BY <1>0, <1>5, ReportedSame DEF Report, DistinctNames
  <1>6. CASE /\ todo' = << >>
             /\ Len(recent') = Len(recent) + 1
             /\ \A i \in 1..Len(recent) : recent'[i] = recent[i]
             /\ recent'[Len(recent) + 1] = Now.name
    <2>0. \A i \in 1..Len(recent') : i \in 1..Len(recent) \/ i = Len(recent) + 1
      BY <1>4, <1>6
    <2>1. DistinctNames'
      BY <1>0, <1>1, <1>8, <1>9, <1>6, <2>0 DEF DistinctNames
    <2>2. Reported' = Reported \cup {Now.name}
      <3>1. Len(recent) + 1 \in 1..Len(recent') /\ \A i \in 1..Len(recent) : i \in 1..Len(recent')
        BY <1>4, <1>6
      <3> QED BY <1>8, <1>9, <1>6, <2>0, <3>1
    <2> QED BY <1>2, <1>6, <2>1, <2>2 DEF Report
  <1>7. ASSUME NEW name \in FileNames,
               todo' = Dropped(name), name = IF recent = << >> THEN Now.name ELSE recent[1],
               Len(recent') = Len(recent),
               \A i \in 1..Len(recent) :
                  recent'[i] = IF i = Len(recent) THEN Now.name ELSE recent[i + 1]
        PROVE  DistinctNames' /\ Report
    <2>1. DistinctNames'
      <3>1. \A i \in 1..Len(recent) : i # Len(recent) => i + 1 \in 1..Len(recent)
        BY <1>4
      <3>2. \A i \in 1..Len(recent) :
               IF i = Len(recent) THEN recent'[i] = Now.name
               ELSE i + 1 \in 1..Len(recent) /\ recent'[i] = recent[i + 1]
        BY <1>7, <3>1
      <3>3. ASSUME NEW i \in 1..Len(recent), NEW j \in 1..Len(recent), recent'[i] = recent'[j]
            PROVE  i = j
        <4>1. CASE i = Len(recent)
          <5>1. recent'[i] = Now.name
            BY <3>2, <4>1
          <5> QED BY <1>1, <3>2, <3>3, <4>1, <5>1
        <4>2. CASE j = Len(recent)
          <5>1. recent'[j] = Now.name
            BY <3>2, <4>2
          <5> QED BY <1>1, <3>2, <3>3, <4>2, <5>1
        <4>3. CASE i # Len(recent) /\ j # Len(recent)
          <5>1. /\ i + 1 \in 1..Len(recent) /\ j + 1 \in 1..Len(recent)
                /\ recent[i + 1] = recent[j + 1]
            BY <3>2, <3>3, <4>3
          <5>2. i + 1 = j + 1
            BY <1>10, <5>1
          <5> QED BY <1>4, <5>2
        <4> QED BY <4>1, <4>2, <4>3
      <3>4. ASSUME NEW i \in 1..Len(recent), NEW j \in 1..Len(bestK)
            PROVE  recent'[i] # bestK[j].name
        <4>1. CASE i = Len(recent)
          BY <1>1, <3>2, <4>1
        <4>2. CASE i # Len(recent)
          <5>1. i + 1 \in 1..Len(recent) /\ recent'[i] = recent[i + 1]
            BY <3>2, <4>2
          <5> QED BY <1>10, <5>1
        <4> QED BY <4>1, <4>2
      <3> QED BY <1>0, <1>7, <1>8, <1>9, <3>3, <3>4 DEF DistinctNames
    <2>2. CASE Len(recent) = 0
      <3>1. recent = << >>
        BY <1>3, <2>2
      <3>2. Reported' = (Reported \cup {Now.name}) \ {name}
        BY <1>1, <1>8, <1>9, <1>7, <2>2, <3>1
      <3> QED BY <1>2, <1>7, <2>1, <3>2 DEF Report
    <2>3. CASE Len(recent) # 0
      <3>1. name = recent[1] /\ 1 \in 1..Len(recent) /\ Len(recent) \in 1..Len(recent)
        BY <1>3, <1>4, <1>7, <2>3
      <3>2. ASSUME NEW n \in Reported' PROVE n \in Reported \cup {Now.name} /\ n # name
        <4>1. CASE \E i \in 1..Len(bestK) : n = bestK[i].name
          BY <1>0, <1>8, <3>1, <4>1 DEF DistinctNames
        <4>2. ASSUME NEW i \in 1..Len(recent), n = recent'[i] PROVE n \in Reported \cup {Now.name} /\ n # name
          <5>1. CASE i = Len(recent)
            BY <1>1, <1>7, <3>1, <4>2, <5>1
          <5>2. CASE i # Len(recent)
            <6>1. i + 1 \in 1..Len(recent) /\ i + 1 # 1 /\ n = recent[i + 1]
              BY <1>4, <1>7, <4>2, <5>2
            <6> QED BY <1>0, <1>8, <3>1, <6>1 DEF DistinctNames
          <5> QED BY <5>1, <5>2
        <4> QED BY <1>9, <1>7, <4>1, <4>2
      <3>3. ASSUME NEW n \in Reported \cup {Now.name}, n # name PROVE n \in Reported'
        <4>1. CASE n = Now.name
          <5>1. recent'[Len(recent)] = n
            BY <1>7, <3>1, <4>1
          <5> QED BY <1>9, <1>7, <3>1, <5>1
        <4>2. CASE \E i \in 1..Len(bestK) : n = bestK[i].name
          BY <1>9, <4>2
        <4>3. ASSUME NEW i \in 1..Len(recent), n = recent[i] PROVE n \in Reported'
          <5>1. i # 1 /\ i - 1 \in 1..Len(recent) /\ i - 1 # Len(recent) /\ (i - 1) + 1 = i
            BY <1>4, <3>1, <3>3, <4>3
          <5>2. recent'[i - 1] = n
            BY <1>7, <4>3, <5>1
          <5> QED BY <1>9, <1>7, <5>1, <5>2
        <4> QED BY <1>8, <3>3, <4>1, <4>2, <4>3
      <3>4. Reported' = (Reported \cup {Now.name}) \ {name}
        BY <3>2, <3>3
      <3> QED BY <1>2, <1>7, <2>1, <3>4 DEF Report
    <2> QED BY <2>2, <2>3
  <1> QED BY <1>5, <1>6, <1>7, PushCases

LEMMA GrownNames ==
    ASSUME NEW b, NEW g, NEW k, NEW entry, Grows(b, g, k, entry), Len(b) \in Nat
    PROVE  /\ Len(g) \in Nat /\ k \in Nat /\ k + 1 \in 1..Len(g) /\ g[k + 1] = entry
           /\ \A i \in 1..Len(b) : \E j \in 1..Len(g) : g[j] = b[i] /\ j # k + 1
           /\ \A j \in 1..Len(g) : j # k + 1 => \E i \in 1..Len(b) :
                 g[j] = b[i] /\ i = IF j <= k THEN j ELSE j - 1
  <1>1. /\ k \in 0..Len(b) /\ Len(g) = Len(b) + 1
        /\ \A i \in 1..Len(g) :
              g[i] = IF i <= k THEN b[i] ELSE IF i = k + 1 THEN entry ELSE b[i - 1]
    BY DEF Grows
  <1>2. k + 1 \in 1..Len(g) /\ g[k + 1] = entry /\ Len(g) \in Nat /\ k \in Nat
    BY <1>1
  <1>3. ASSUME NEW i \in 1..Len(b) PROVE \E j \in 1..Len(g) : g[j] = b[i] /\ j # k + 1
    <2>1. CASE i <= k
      <3>1. i \in 1..Len(g) /\ g[i] = b[i] /\ i # k + 1
        BY <1>1, <1>2, <2>1
      <3> QED BY <3>1
    <2>2. CASE ~(i <= k)
      <3>1. i + 1 \in 1..Len(g) /\ ~(i + 1 <= k) /\ i + 1 # k + 1 /\ (i + 1) - 1 = i
        BY <1>1, <1>2, <2>2
      <3>2. g[i + 1] = b[i]
        BY <1>1, <3>1
      <3> QED BY <3>1, <3>2
    <2> QED BY <2>1, <2>2
  <1>4. ASSUME NEW j \in 1..Len(g), j # k + 1
        PROVE  \E i \in 1..Len(b) : g[j] = b[i] /\ i = IF j <= k THEN j ELSE j - 1
    <2>1. CASE j <= k
      <3>1. j \in 1..Len(b) /\ g[j] = b[j]
        BY <1>1, <1>2, <2>1
      <3> QED BY <2>1, <3>1
    <2>2. CASE ~(j <= k)
      <3>1. j - 1 \in 1..Len(b) /\ g[j] = b[j - 1]
        BY <1>1, <1>2, <1>4, <2>2
      <3> QED BY <2>2, <3>1
    <2> QED BY <2>1, <2>2
  <1> QED BY <1>2, <1>3, <1>4

LEMMA GrownDistinct ==
    ASSUME NEW b, NEW g, NEW k, NEW entry, Grows(b, g, k, entry), Len(b) \in Nat,
           \A i, j \in 1..Len(b) : b[i].name = b[j].name => i = j,
           \A i \in 1..Len(b) : b[i].name # entry.name
    PROVE  /\ \A i, j \in 1..Len(g) : g[i].name = g[j].name => i = j
           /\ \A n : (\E j \in 1..Len(g) : n = g[j].name) <=>
                     n = entry.name \/ \E i \in 1..Len(b) : n = b[i].name
  <1>1. /\ Len(g) \in Nat /\ k \in Nat /\ k + 1 \in 1..Len(g) /\ g[k + 1] = entry
        /\ \A i \in 1..Len(b) : \E j \in 1..Len(g) : g[j] = b[i] /\ j # k + 1
        /\ \A j \in 1..Len(g) : j # k + 1 => \E i \in 1..Len(b) :
              g[j] = b[i] /\ i = IF j <= k THEN j ELSE j - 1
    BY GrownNames
  <1>2. ASSUME NEW i \in 1..Len(g), NEW j \in 1..Len(g), g[i].name = g[j].name
        PROVE  i = j
    <2>0. ASSUME NEW x \in 1..Len(g), x # k + 1 PROVE g[x].name # entry.name
      <3>1. PICK p \in 1..Len(b) : g[x] = b[p]
        BY <1>1, <2>0
      <3> QED BY <3>1
    <2>1. CASE i = k + 1
      BY <1>1, <1>2, <2>0, <2>1
    <2>2. CASE j = k + 1
      BY <1>1, <1>2, <2>0, <2>2
    <2>3. CASE i # k + 1 /\ j # k + 1
      <3>1. PICK p \in 1..Len(b) : g[i] = b[p] /\ p = IF i <= k THEN i ELSE i - 1
        BY <1>1, <2>3
      <3>2. PICK q \in 1..Len(b) : g[j] = b[q] /\ q = IF j <= k THEN j ELSE j - 1
        BY <1>1, <2>3
      <3>3. p = q
        BY <1>2, <3>1, <3>2
      <3>4. i \in Int /\ j \in Int /\ k \in Int
        BY <1>1
      <3> QED BY <2>3, <3>1, <3>2, <3>3, <3>4
    <2> QED BY <2>1, <2>2, <2>3
  <1>3. ASSUME NEW n
        PROVE  (\E j \in 1..Len(g) : n = g[j].name) <=>
                   n = entry.name \/ \E i \in 1..Len(b) : n = b[i].name
    <2>1. ASSUME NEW j \in 1..Len(g), n = g[j].name
          PROVE  n = entry.name \/ \E i \in 1..Len(b) : n = b[i].name
      <3>1. CASE j = k + 1
        BY <1>1, <2>1, <3>1
      <3>2. CASE j # k + 1
        <4>1. PICK i \in 1..Len(b) : g[j] = b[i]
          BY <1>1, <3>2
        <4> QED BY <2>1, <4>1
      <3> QED BY <3>1, <3>2
    <2>2. CASE n = entry.name
      BY <1>1, <2>2
    <2>3. ASSUME NEW i \in 1..Len(b), n = b[i].name
          PROVE  \E j \in 1..Len(g) : n = g[j].name
      <3>1. PICK j \in 1..Len(g) : g[j] = b[i]
        BY <1>1
      <3> QED BY <2>3, <3>1
    <2> QED BY <2>1, <2>2, <2>3
  <1> QED BY <1>2, <1>3

LEMMA InsertReports ==
    ASSUME TodoInv, NamesInv, todo # << >>, Insert(conf), UNCHANGED Others, MemoryOK'
    PROVE  DistinctNames' /\ Report
  <1>0. /\ MemoryOK /\ Now.do = "insert" /\ recent' = recent /\ conf' = conf
        /\ DistinctNames
    BY DEF TodoInv, Insert, Others, NamesInv
  <1>1. /\ \A i \in 1..Len(bestK) : bestK[i].name # Now.name
        /\ \A i \in 1..Len(recent) : recent[i] # Now.name
        /\ Now.name \in FileNames
    BY <1>0, NewName
  <1>2. Saved(Now, Kept) <=> Now.score \in Kept
    BY <1>0 DEF Saved
  <1>3. /\ bestK \in Seq(Entries) /\ recent \in Seq(FileNames) /\ bestK' \in Seq(Entries)
        /\ Reported = NamesIn(bestK, recent) /\ Reported' = NamesIn(bestK', recent)
    BY <1>0, ReportedTypes DEF MemoryOK, Reported, NamesIn
  <1>4. Len(bestK) \in Nat /\ Len(bestK') \in Nat
    BY <1>3, NamesInFacts
  <1>5. /\ \A n : n \in Reported <=> \/ \E i \in 1..Len(bestK) : n = bestK[i].name
                                     \/ \E i \in 1..Len(recent) : n = recent[i]
        /\ DOMAIN bestK = 1..Len(bestK) /\ DOMAIN recent = 1..Len(recent)
    BY <1>3, NamesInFacts
  <1>6. /\ \A n : n \in Reported' <=> \/ \E i \in 1..Len(bestK') : n = bestK'[i].name
                                      \/ \E i \in 1..Len(recent) : n = recent[i]
        /\ DOMAIN bestK' = 1..Len(bestK')
    BY <1>3, NamesInFacts
  <1>7. /\ \A i, j \in 1..Len(bestK) : bestK[i].name = bestK[j].name => i = j
        /\ \A i, j \in 1..Len(recent) : recent[i] = recent[j] => i = j
        /\ \A i \in 1..Len(recent), j \in 1..Len(bestK) : recent[i] # bestK[j].name
    BY <1>0, <1>5 DEF DistinctNames
  <1>8. Entry.name = Now.name
    BY DEF Entry
  <1> HIDE DEF Reported
  <1>9. CASE Now.score \notin Kept /\ bestK' = bestK /\ todo' = << >>
    BY <1>0, <1>2, <1>9, ReportedSame DEF Report, DistinctNames
  <1>10. ASSUME NEW g, Grows(bestK, g, Place, Entry)
         PROVE  /\ \A i, j \in 1..Len(g) : g[i].name = g[j].name => i = j
                /\ \A n : (\E j \in 1..Len(g) : n = g[j].name) <=>
                          n = Now.name \/ \E i \in 1..Len(bestK) : n = bestK[i].name
    BY <1>1, <1>4, <1>7, <1>8, <1>10, GrownDistinct
  <1>11. CASE Now.score \in Kept /\ Grows(bestK, bestK', Place, Entry) /\ todo' = << >>
    <2>1. /\ \A i, j \in 1..Len(bestK') : bestK'[i].name = bestK'[j].name => i = j
          /\ \A n : (\E j \in 1..Len(bestK') : n = bestK'[j].name) <=>
                    n = Now.name \/ \E i \in 1..Len(bestK) : n = bestK[i].name
      BY <1>10, <1>11
    <2>2. ASSUME NEW i \in 1..Len(recent), NEW j \in 1..Len(bestK')
          PROVE  recent[i] # bestK'[j].name
      <3>1. bestK'[j].name = Now.name \/ \E p \in 1..Len(bestK) : bestK'[j].name = bestK[p].name
        BY <2>1
      <3> QED BY <1>1, <1>7, <3>1
    <2>3. DistinctNames'
      BY <1>0, <1>5, <1>6, <1>7, <2>1, <2>2 DEF DistinctNames
    <2>4. Reported' = Reported \cup {Now.name}
      <3>1. ASSUME NEW n
            PROVE  n \in Reported' <=> n \in Reported \/ n = Now.name
        <4>1. n \in Reported' <=> \/ \E i \in 1..Len(bestK') : n = bestK'[i].name
                                 \/ \E i \in 1..Len(recent) : n = recent[i]
          BY <1>6
        <4>2. n \in Reported <=> \/ \E i \in 1..Len(bestK) : n = bestK[i].name
                                \/ \E i \in 1..Len(recent) : n = recent[i]
          BY <1>5
        <4> QED BY <2>1, <4>1, <4>2
      <3> QED BY <3>1
    <2> QED BY <1>2, <1>11, <2>3, <2>4 DEF Report
  <1>12. ASSUME NEW g, Grows(bestK, g, Place, Entry), Len(bestK') = Len(bestK),
                \A i \in 1..Len(bestK) : bestK'[i] = g[i],
                todo' = Dropped(g[Len(g)].name), g[Len(g)] \in Entries, Now.score \in Kept
         PROVE  DistinctNames' /\ Report
    <2> DEFINE name == g[Len(g)].name
    <2>1. /\ \A i, j \in 1..Len(g) : g[i].name = g[j].name => i = j
          /\ \A n : (\E j \in 1..Len(g) : n = g[j].name) <=>
                    n = Now.name \/ \E i \in 1..Len(bestK) : n = bestK[i].name
      BY <1>10, <1>12
    <2>2. Len(g) = Len(bestK) + 1
      BY <1>12 DEF Grows
    <2>3. /\ \A i \in 1..Len(bestK) : i \in 1..Len(g) /\ i # Len(g)
          /\ \A i \in 1..Len(g) : i # Len(g) => i \in 1..Len(bestK)
          /\ Len(g) \in 1..Len(g)
      BY <1>4, <2>2
    <2>4. /\ \A n : (\E j \in 1..Len(bestK') : n = bestK'[j].name) <=>
                    (\E j \in 1..Len(g) : n = g[j].name) /\ n # name
      <3>1. ASSUME NEW j \in 1..Len(bestK')
            PROVE  bestK'[j].name = g[j].name /\ j \in 1..Len(g) /\ g[j].name # name
        BY <1>12, <2>1, <2>3
      <3>2. ASSUME NEW j \in 1..Len(g), g[j].name # name
            PROVE  j \in 1..Len(bestK') /\ bestK'[j].name = g[j].name
        BY <1>12, <2>3, <3>2
      <3> QED BY <3>1, <3>2
    <2>5. \A i, j \in 1..Len(bestK') : bestK'[i].name = bestK'[j].name => i = j
      BY <1>12, <2>1, <2>3
    <2>6. ASSUME NEW i \in 1..Len(recent), NEW j \in 1..Len(g)
          PROVE  recent[i] # g[j].name
      <3>1. g[j].name = Now.name \/ \E p \in 1..Len(bestK) : g[j].name = bestK[p].name
        BY <2>1
      <3> QED BY <1>1, <1>7, <3>1
    <2>7. DistinctNames'
      <3>1. \A i \in 1..Len(recent), j \in 1..Len(bestK') : recent[i] # bestK'[j].name
        BY <1>12, <2>3, <2>6
      <3> QED BY <1>0, <1>5, <1>6, <1>7, <2>5, <3>1 DEF DistinctNames
    <2>8. \A i \in 1..Len(recent) : recent[i] # name
      BY <2>3, <2>6
    <2>9. Reported' = (Reported \cup {Now.name}) \ {name}
      <3> HIDE DEF name
      <3>1. ASSUME NEW n PROVE n \in Reported' <=> n \in Reported \cup {Now.name} /\ n # name
        <4>1. (\E j \in 1..Len(bestK') : n = bestK'[j].name) <=>
                 (n = Now.name \/ \E i \in 1..Len(bestK) : n = bestK[i].name) /\ n # name
          <5>1. (\E j \in 1..Len(g) : n = g[j].name) <=>
                   n = Now.name \/ \E i \in 1..Len(bestK) : n = bestK[i].name
            BY <2>1
          <5>2. (\E j \in 1..Len(bestK') : n = bestK'[j].name) <=>
                   (\E j \in 1..Len(g) : n = g[j].name) /\ n # name
            BY <2>4
          <5> QED BY <5>1, <5>2
        <4>2. (\E i \in 1..Len(recent) : n = recent[i]) => n # name
          BY <2>8
        <4>3. /\ n \in Reported <=> \/ \E i \in 1..Len(bestK) : n = bestK[i].name
                                    \/ \E i \in 1..Len(recent) : n = recent[i]
              /\ n \in Reported' <=> \/ \E i \in 1..Len(bestK') : n = bestK'[i].name
                                     \/ \E i \in 1..Len(recent) : n = recent[i]
          BY <1>5, <1>6
        <4> QED BY <4>1, <4>2, <4>3
      <3> QED BY <3>1
    <2>10. name \in FileNames
      BY <1>12 DEF Entries
    <2> QED BY <1>2, <1>12, <2>7, <2>9, <2>10 DEF Report
  <1>13. \/ Now.score \notin Kept /\ bestK' = bestK /\ todo' = << >>
         \/ Now.score \in Kept /\ Grows(bestK, bestK', Place, Entry) /\ todo' = << >>
         \/ \E g : /\ Grows(bestK, g, Place, Entry)
                   /\ Len(bestK') = Len(bestK)
                   /\ \A i \in 1..Len(bestK) : bestK'[i] = g[i]
                   /\ todo' = Dropped(g[Len(g)].name) /\ g[Len(g)] \in Entries
                   /\ Now.score \in Kept
    BY InsertCases
  <1> QED BY <1>9, <1>11, <1>12, <1>13

\* The rest of the hook after the file has been reported.
LEMMA DroppedHead ==
    ASSUME NEW name
    PROVE  /\ Dropped(name) # << >> /\ Dropped(name)[1].do = "delete"
           /\ Dropped(name)[1].name = name
  BY DEF Dropped, Op

LEMMA NamesReport ==
    ASSUME TodoInv, NamesInv, todo # << >>, Now.do \in {"push", "insert"},
           UNCHANGED Others, DistinctNames', Report
    PROVE  NamesInv'
  <1>1. /\ Now.name \in FileNames /\ Now.name.step = globalStep /\ Now = todo[1]
        /\ globalStep \in Nat /\ pc = "hooks"
    BY NowFacts, NewName DEF FileName, TodoInv, MemoryOK
  <1>2. \A n \in Reported : n.step <= globalStep
    BY DEF NamesInv
  <1>3. \A n \in Reported \cup {Now.name} : n.step <= globalStep
    BY <1>1, <1>2
  <1>4. globalStep' = globalStep /\ pc' = "hooks"
    BY <1>1 DEF Others
  <1> HIDE DEF Reported
  <1>5. CASE todo' = << >> /\ Reported' \subseteq Reported \cup {Now.name}
    BY <1>3, <1>4, <1>5 DEF NamesInv, MovedOn
  <1>6. ASSUME NEW name, todo' = Dropped(name), Reported' = (Reported \cup {Now.name}) \ {name}
        PROVE  NamesInv'
    <2>1. todo' # << >> /\ todo'[1].do = "delete" /\ todo'[1].name = name
      BY <1>6, DroppedHead
    <2> QED BY <1>3, <1>4, <1>6, <2>1 DEF NamesInv, MovedOn
  <1> QED BY <1>5, <1>6 DEF Report

LEMMA DistinctSame == UNCHANGED << bestK, recent >> /\ DistinctNames => DistinctNames'
  BY DEF DistinctNames

LEMMA NamesStep == TodoInv /\ LoopInv /\ NamesInv /\ [TNext]_vars /\ TodoInv' => NamesInv'
  <1> SUFFICES ASSUME TodoInv, LoopInv, NamesInv, [TNext]_vars, TodoInv' PROVE NamesInv'
    OBVIOUS
  <1>0. /\ globalStep \in Nat /\ MemoryOK /\ MemoryOK' /\ DistinctNames
        /\ \A n \in Reported : n.step \in Nat /\ n.step <= globalStep
        /\ MovedOn => \A n \in Reported : n.step < globalStep
    BY ReportedTypes DEF TodoInv, MemoryOK, NamesInv
  <1>1. CASE Quiet
    <2>1. Reported' = Reported /\ DistinctNames'
      BY <1>0, <1>1, ReportedSame, DistinctSame DEF Quiet
    <2> HIDE DEF Reported
    <2>2. /\ todo' = << >> /\ globalStep' \in Nat /\ globalStep' >= globalStep
          /\ pc' = "batch" /\ batchIdx' # 0 => globalStep' > globalStep
      BY <1>1 DEF Quiet
    <2>3. ASSUME NEW n \in Reported
          PROVE  n.step <= globalStep' /\ (MovedOn' => n.step < globalStep')
      BY <1>0, <2>2 DEF MovedOn
    <2> QED BY <2>1, <2>2, <2>3 DEF NamesInv
  <1>2. CASE UNCHANGED vars
    <2>1. Reported' = Reported /\ DistinctNames'
      BY <1>0, <1>2, ReportedSame, DistinctSame DEF vars, ckptVars, ckptMemory
    <2>2. UNCHANGED << todo, pc, batchIdx, globalStep >>
      BY <1>2 DEF vars, ckptVars, ckptMemory, loopVars
    <2> HIDE DEF Reported
    <2> QED BY <2>1, <2>2 DEF NamesInv, MovedOn
  <1>3. ASSUME NEW m \in Metrics, TrainEpochEnds(m)
        PROVE  NamesInv'
    <2>1. /\ UNCHANGED << conf, globalStep, bestK, recent >> /\ pc = "batch" /\ ~AnotherBatch
          /\ Starts(todo', Kept)
      BY <1>3, EpochEndStep
    <2>2. Reported' = Reported /\ DistinctNames'
      BY <1>0, <2>1, ReportedSame, DistinctSame
    <2>3. batchIdx # 0
      BY <2>1, ConfigsAssumption DEF LoopInv, AnotherBatch
    <2>4. \A n \in Reported : n.step < globalStep
      BY <1>0, <2>1, <2>3 DEF MovedOn
    <2> HIDE DEF Reported
    <2>5. ~(todo' # << >> /\ todo'[1].do = "delete")
      BY <2>1 DEF Starts
    <2> QED BY <1>0, <2>1, <2>2, <2>4, <2>5 DEF NamesInv
  <1>4. CASE SaveStep
    <2>1. todo # << >> /\ UNCHANGED Others
      BY <1>4, SaveStepCases
    <2>2. Now = todo[1] /\ pc = "hooks"
      BY <2>1, NowFacts
    <2>3. CASE Open \/ Fill \/ Rename
      <3>1. /\ UNCHANGED << bestK, recent >> /\ todo' = Tail(todo)
            /\ Now.do \in {"open", "fill", "rename"}
        BY <2>3 DEF Open, Fill, Rename
      <3>2. Reported' = Reported /\ DistinctNames'
        BY <1>0, <3>1, ReportedSame, DistinctSame
      <3>3. \A n \in Reported : n.step < globalStep
        BY <1>0, <2>1, <2>2, <3>1 DEF MovedOn
      <3>4. Tail(todo) # << >> => Tail(todo)[1].do # "delete"
        BY <2>1, NowFacts DEF Follows
      <3> HIDE DEF Reported
      <3> QED BY <1>0, <2>1, <3>1, <3>2, <3>3, <3>4 DEF NamesInv, Others
    <2>4. CASE Push(conf)
      BY <1>0, <2>1, <2>4, PushReports, NamesReport DEF Push
    <2>5. CASE Insert(conf)
      BY <1>0, <2>1, <2>5, InsertReports, NamesReport DEF Insert
    <2>6. CASE Delete
      <3>1. UNCHANGED << bestK, recent >> /\ todo' = << >>
        BY <2>1, <2>6, NowFacts DEF Delete
      <3>2. Reported' = Reported /\ DistinctNames'
        BY <1>0, <3>1, ReportedSame, DistinctSame
      <3> HIDE DEF Reported
      <3> QED BY <1>0, <2>1, <2>2, <3>1, <3>2 DEF NamesInv, MovedOn, Others
    <2> QED BY <1>4, <2>3, <2>4, <2>5, <2>6, SaveStepCases
  <1>5. CASE Crash
    <2>1. bestK' = << >> /\ recent' = << >>
      BY <1>5 DEF Crash, Forgotten
    <2>2. Reported' = {} /\ DistinctNames'
      BY <2>1 DEF Reported, ToSet, DistinctNames
    <2> QED BY <2>2 DEF NamesInv
  <1> QED BY <1>1, <1>2, <1>3, <1>4, <1>5, StepKinds

LEMMA DiskStep ==
    TodoInv /\ NamesInv /\ DiskInv /\ [TNext]_vars /\ TodoInv' => DiskInv'
  <1> SUFFICES ASSUME TodoInv, NamesInv, DiskInv, [TNext]_vars, TodoInv' PROVE DiskInv'
    OBVIOUS
  <1> DEFINE Left == DOMAIN disk \ (Reported \cup orphans \cup {LastCkpt})
  <1>0. /\ MemoryOK /\ MemoryOK' /\ life \in Nat
        /\ \A n \in Reported : OnDisk(n) /\ n # LastCkpt
        /\ todo # << >> => Now = todo[1] /\ Ready
        /\ \A n \in DOMAIN disk : disk[n].ckpt.life \in Nat /\ disk[n].ckpt.life <= life
    <2>1. \A n \in DOMAIN disk : disk[n].ckpt.life \in Nat /\ disk[n].ckpt.life <= life
      BY DEF TodoInv, FilesOK, Ckpts
    <2>2. MemoryOK /\ MemoryOK' /\ life \in Nat
      BY DEF TodoInv, MemoryOK
    <2>3. \A n \in Reported : OnDisk(n) /\ n # LastCkpt
      BY <2>2, ReportedTypes DEF DiskInv
    <2>4. todo # << >> => Now = todo[1] /\ Ready
      BY NowFacts DEF TodoInv, HookInv
    <2> QED BY <2>1, <2>2, <2>3, <2>4
  <1> HIDE DEF Reported
  <1>1. CASE /\ UNCHANGED << conf, life, disk, orphans >> /\ Reported' = Reported
             /\ todo # << >> => Now.do \in {"open", "fill", "rename"}
    <2>1. \A n : ~Awaited(n)
      BY <1>0, <1>1 DEF Awaited, Saved
    <2> QED BY <1>1, <2>1 DEF DiskInv, OnDisk
  <1>2. CASE Quiet
    BY <1>1, <1>2, ReportedSame DEF Quiet
  <1>3. CASE UNCHANGED vars
    <2>1. Reported' = Reported /\ Kept' = Kept
      BY <1>3, ReportedSame, KeptSame DEF vars, ckptVars, ckptMemory
    <2>2. UNCHANGED << conf, life, disk, orphans, todo >>
      BY <1>3 DEF vars, ckptVars, ckptMemory
    <2> QED BY <2>1, <2>2 DEF DiskInv, OnDisk, Awaited
  <1>4. ASSUME NEW m \in Metrics, TrainEpochEnds(m)
        PROVE  DiskInv'
    BY <1>1, <1>4, EpochEndStep, ReportedSame
  <1>5. CASE SaveStep
    <2>1. todo # << >> /\ UNCHANGED << conf, life >>
      BY <1>5, SaveStepCases DEF Others
    <2>2. CASE Open \/ Fill
      <3>1. UNCHANGED << disk, bestK, recent, orphans >> /\ Now.do \in {"open", "fill"}
        BY <2>2 DEF Open, Fill
      <3> QED BY <1>1, <2>1, <3>1, ReportedSame
    <2>3. CASE Rename
      <3>1. /\ UNCHANGED << bestK, recent >> /\ orphans' = orphans \ {Now.name} /\ Now.do = "rename"
            /\ todo' = Tail(todo)
        BY <2>3 DEF Rename
      <3>2. Now.name \in DOMAIN tmp /\ tmp[Now.name] = Whole(Now.ckpt)
        BY <1>0, <2>1, <3>1 DEF Ready
      <3>3. /\ DOMAIN disk' = DOMAIN disk \cup {Now.name}
            /\ disk'[Now.name] = Whole(Now.ckpt)
            /\ \A n \in DOMAIN disk : n # Now.name => disk'[n] = disk[n]
        BY <2>3, <3>2 DEF Rename, With
      <3>4. Reported' = Reported /\ Kept' = Kept
        BY <2>1, <3>1, ReportedSame, KeptSame
      <3>5. /\ Now.ckpt.life = life
            /\ Now.name # LastCkpt => /\ Now.name = FileName(Now.ckpt)
                                      /\ Tail(todo) # << >>
                                      /\ Saved(Tail(todo)[1], Kept) /\ Same(Now, Tail(todo)[1])
        BY <2>1, <3>1, NowFacts DEF Follows
      <3>6. ASSUME NEW n \in Reported PROVE OnDisk(n)'
        <4>1. CASE n = Now.name
          BY <1>0, <2>1, <3>3, <3>5, <4>1 DEF OnDisk, Whole
        <4>2. CASE n # Now.name
          BY <1>0, <2>1, <3>3, <4>2 DEF OnDisk
        <4> QED BY <4>1, <4>2
      <3>7. ASSUME conf.monitor \/ conf.topK >= 0,
                   NEW n \in DOMAIN disk' \ (Reported \cup orphans' \cup {LastCkpt})
            PROVE  disk'[n].ckpt.life < life' \/ Awaited(n)'
        <4>1. CASE n = Now.name
          BY <3>1, <3>4, <3>5, <3>7, <4>1 DEF Awaited, Same
        <4>2. CASE n # Now.name
          <5>1. n \in Left /\ ~Awaited(n)
            BY <1>0, <2>1, <3>1, <3>3, <3>7, <4>2 DEF Awaited, Saved
          <5> QED BY <2>1, <3>3, <3>7, <4>2, <5>1 DEF DiskInv
        <4> QED BY <4>1, <4>2
      <3> QED BY <2>1, <3>4, <3>6, <3>7 DEF DiskInv
    <2>4. CASE Push(conf) \/ Insert(conf)
      <3>1. /\ UNCHANGED << disk, orphans >> /\ Report
            /\ Now.do \in {"push", "insert"}
        BY <1>0, <2>1, <2>4, <1>5, SaveStepCases, PushReports, InsertReports DEF Push, Insert
      <3>2. Saved(Now, Kept) => OnDisk(Now.name)
        <4>1. SUFFICES ASSUME Saved(Now, Kept) PROVE OnDisk(Now.name)
          OBVIOUS
        <4>2. Now.name \in DOMAIN disk /\ disk[Now.name] = Whole(Now.ckpt)
          BY <1>0, <2>1, <4>1 DEF Ready
        <4>3. Now.name = FileName(Now.ckpt) /\ Now.ckpt.life = life
          BY <2>1, <3>1, NowFacts
        <4> QED BY <4>2, <4>3 DEF OnDisk, Whole
      <3>3. \A n : Awaited(n) <=> n = Now.name /\ Saved(Now, Kept)
        BY <1>0, <2>1, <3>1 DEF Awaited
      <3>4. \A n : OnDisk(n)' <=> OnDisk(n)
        BY <2>1, <3>1 DEF OnDisk
      <3>5. CASE Saved(Now, Kept) /\ Reported' = Reported \cup {Now.name}
        BY <1>0, <2>1, <3>1, <3>2, <3>3, <3>4, <3>5 DEF DiskInv
      <3>6. CASE ((conf.topK < 0 /\ ~conf.monitor) \/ ~Saved(Now, Kept)) /\ Reported' = Reported
        <4>1. CASE ~Saved(Now, Kept)
          BY <1>0, <2>1, <3>1, <3>3, <3>4, <3>6, <4>1 DEF DiskInv
        <4>2. CASE conf.topK < 0 /\ ~conf.monitor
          <5>1. ~(conf.monitor \/ conf.topK >= 0)
            BY <1>0, <4>2, ConfigsAssumption DEF MemoryOK
          <5> QED BY <1>0, <2>1, <3>4, <3>6, <5>1 DEF DiskInv
        <4> QED BY <3>6, <4>1, <4>2
      <3>7. ASSUME Saved(Now, Kept), NEW name \in FileNames, todo' = Dropped(name),
                   Reported' = (Reported \cup {Now.name}) \ {name}
            PROVE  DiskInv'
        <4>1. Awaited(name)'
          BY <3>7, DroppedHead DEF Awaited
        <4> QED BY <1>0, <2>1, <3>1, <3>2, <3>3, <3>4, <3>7, <4>1 DEF DiskInv
      <3> QED BY <3>1, <3>5, <3>6, <3>7 DEF Report
    <2>5. CASE Delete
      <3>1. UNCHANGED << bestK, recent >> /\ Now.do = "delete"
        BY <2>5 DEF Delete
      <3>2. Reported' = Reported /\ Now.name \notin Reported
        BY <1>0, <2>1, <3>1, ReportedSame DEF NamesInv
      <3>3. \/ /\ DOMAIN disk' = DOMAIN disk \ {Now.name} /\ orphans' = orphans
               /\ \A n \in DOMAIN disk' : disk'[n] = disk[n]
            \/ disk' = disk /\ orphans' = orphans \cup {Now.name}
        BY <2>5 DEF Delete, Restrict
      <3>4. \A n : Awaited(n) => n = Now.name
        BY <1>0, <2>1 DEF Awaited
      <3>5. \A n \in Reported : OnDisk(n)'
        BY <1>0, <2>1, <3>2, <3>3 DEF OnDisk
      <3>6. ASSUME conf.monitor \/ conf.topK >= 0,
                   NEW n \in DOMAIN disk' \ (Reported \cup orphans' \cup {LastCkpt})
            PROVE  disk'[n].ckpt.life < life'
        <4>1. n \in Left /\ n # Now.name /\ disk'[n] = disk[n]
          BY <3>3, <3>6
        <4> QED BY <2>1, <3>4, <3>6, <4>1 DEF DiskInv
      <3> QED BY <2>1, <3>2, <3>5, <3>6 DEF DiskInv
    <2> QED BY <1>5, <2>2, <2>3, <2>4, <2>5, SaveStepCases
  <1>6. CASE Crash
    <2>1. /\ bestK' = << >> /\ recent' = << >> /\ disk' = disk /\ life' = life + 1
      BY <1>6 DEF Crash, Forgotten
    <2>2. Reported' = {}
      BY <2>1 DEF Reported, ToSet
    <2>3. \A n \in DOMAIN disk : disk[n].ckpt.life < life + 1
      BY <1>0
    <2> QED BY <2>1, <2>2, <2>3 DEF DiskInv
  <1> QED BY <1>2, <1>3, <1>4, <1>5, <1>6, StepKinds

-----------------------------------------------------------------------------
\* The checkpoints kept are the best ones

\* The offers with a score up to s, and how many of them bestK has room for.
Total(s) == SumFunctionOnSet(offered, UpTo(s))
Best(s) == Least(conf.topK, Total(s))

\* bestK is in order of score, and up to every score has as many as it could.
CountInv ==
    conf.topK >= 0 =>
        /\ Len(bestK) <= conf.topK /\ Len(recent) <= conf.topK
        /\ \A s \in Scores :
              /\ Best(s) <= Len(bestK)
              /\ \A i \in 1..Len(bestK) : bestK[i].score <= s <=> i <= Best(s)

LEMMA TotalSum ==
    ASSUME NEW f \in [Scores -> Nat], NEW s \in Scores
    PROVE  /\ IsFiniteSet(UpTo(s)) /\ UpTo(s) \subseteq Scores
           /\ [x \in UpTo(s) |-> f[x]] \in [UpTo(s) -> Nat]
           /\ SumFunctionOnSet(f, UpTo(s)) = SumFunction([x \in UpTo(s) |-> f[x]])
           /\ SumFunctionOnSet(f, UpTo(s)) \in Nat
  <1>1. UpTo(s) \subseteq Scores
    BY DEF UpTo
  <1>2. IsFiniteSet(UpTo(s))
    BY <1>1, ScoresAssumption, FS_Subset
  <1> HIDE DEF UpTo
  <1>3. [x \in UpTo(s) |-> f[x]] \in [UpTo(s) -> Nat]
    BY <1>1
  <1>4. SumFunctionOnSet(f, UpTo(s)) = SumFunction([x \in UpTo(s) |-> f[x]])
    BY <1>2, SumOnSet
  <1>5. SumFunction([x \in UpTo(s) |-> f[x]]) \in Nat
    BY <1>2, <1>3, SumType
  <1> QED BY <1>1, <1>2, <1>3, <1>4, <1>5

\* One more offer of score t.
LEMMA TotalOffer ==
    ASSUME offered \in [Scores -> Nat], NEW t \in Scores, NEW s \in Scores,
           offered' = [offered EXCEPT ![t] = @ + 1]
    PROVE  SumFunctionOnSet(offered', UpTo(s)) = Total(s) + (IF t <= s THEN 1 ELSE 0)
  <1> DEFINE f == offered
             g == offered'
             U == UpTo(s)
             p == [x \in U |-> f[x]]
             q == [x \in U |-> g[x]]
  <1>0. f \in [Scores -> Nat] /\ Total(s) = SumFunctionOnSet(f, U)
    BY DEF Total
  <1>1. g \in [Scores -> Nat] /\ g[t] = f[t] + 1 /\ \A x \in Scores : x # t => g[x] = f[x]
    OBVIOUS
  <1> HIDE DEF f, g
  <1>2. /\ IsFiniteSet(U) /\ U \subseteq Scores /\ p \in [U -> Nat] /\ q \in [U -> Nat]
        /\ SumFunctionOnSet(f, U) = SumFunction(p) /\ SumFunctionOnSet(f, U) \in Nat
        /\ SumFunctionOnSet(g, U) = SumFunction(q)
    BY <1>0, <1>1, TotalSum
  <1>3. t \in U <=> t <= s
    BY DEF UpTo
  <1> HIDE DEF U
  <1>4. \A x \in U : p[x] = f[x] /\ q[x] = g[x]
    OBVIOUS
  <1> HIDE DEF p, q
  <1>5. CASE t \in U
    <2>1. \A x \in U : x # t => q[x] = p[x]
      BY <1>1, <1>2, <1>4
    <2>2. p \in [U -> Int] /\ q \in [U -> Int]
      BY <1>2
    <2>3. SumFunction(q) = SumFunction(p) - p[t] + q[t]
      BY <1>2, <1>5, <2>1, <2>2, SumChange
    <2>4. p[t] \in Nat /\ q[t] = p[t] + 1
      BY <1>1, <1>2, <1>4, <1>5
    <2>5. SumFunction(q) = SumFunction(p) + 1
      BY <1>2, <2>3, <2>4
    <2> QED BY <1>0, <1>2, <1>3, <1>5, <2>5 DEF U, g
  <1>6. CASE t \notin U
    <2>1. q = p
      <3>1. \A x \in U : q[x] = p[x]
        BY <1>1, <1>2, <1>4, <1>6
      <3> QED BY <1>2, <3>1
    <2> QED BY <1>0, <1>2, <1>3, <1>6, <2>1 DEF U, g
  <1> QED BY <1>5, <1>6

LEMMA LeastFacts ==
    ASSUME NEW k \in Nat, NEW n \in Nat
    PROVE  /\ Least(k, n) \in Nat /\ Least(k, n) <= k /\ Least(k, n) <= n
           /\ Least(k, n) < k => Least(k, n) = n
           /\ \A d \in {0, 1} : Least(k, n + d) = Least(k, Least(k, n) + d)
  BY DEF Least

\* bestK with the offer in its place: the counts with one more from its score on.
LEMMA GrownCounts ==
    ASSUME NEW b, NEW g, NEW k, NEW entry, Grows(b, g, k, entry), Len(b) \in Nat,
           entry.score \in Int, NEW s \in Int, NEW j \in Nat, j <= Len(b),
           \A i \in 1..Len(b) : b[i].score \in Int,
           \A i \in 1..Len(b) : b[i].score <= s <=> i <= j,
           \A i \in 1..Len(b) : b[i].score <= entry.score <=> i <= k
    PROVE  \A i \in 1..Len(g) :
              g[i].score <= s <=> i <= j + (IF entry.score <= s THEN 1 ELSE 0)
  <1>1. /\ Len(g) \in Nat /\ k \in Nat /\ k + 1 \in 1..Len(g) /\ g[k + 1] = entry
        /\ \A i \in 1..Len(g) : i # k + 1 => \E p \in 1..Len(b) :
              g[i] = b[p] /\ p = IF i <= k THEN i ELSE i - 1
    BY GrownNames
  <1>2. k <= Len(b)
    BY DEF Grows
  <1>3. ASSUME entry.score <= s PROVE k <= j
    <2>1. SUFFICES ASSUME k # 0 PROVE k <= j
      BY <1>1
    <2>2. k \in 1..Len(b)
      BY <1>1, <1>2, <2>1
    <2>3. b[k].score <= entry.score
      BY <1>1, <2>2
    <2>4. b[k].score <= s
      BY <1>3, <2>2, <2>3
    <2> QED BY <2>2, <2>4
  <1>4. ASSUME ~(entry.score <= s) PROVE j <= k
    <2>1. SUFFICES ASSUME j # 0 PROVE j <= k
      BY <1>1
    <2>2. j \in 1..Len(b)
      BY <2>1
    <2>3. b[j].score <= s
      BY <2>2
    <2>4. b[j].score <= entry.score
      BY <1>4, <2>2, <2>3
    <2> QED BY <2>2, <2>4
  <1>5. ASSUME NEW i \in 1..Len(g)
        PROVE  g[i].score <= s <=> i <= j + (IF entry.score <= s THEN 1 ELSE 0)
    <2>0. i \in Int
      OBVIOUS
    <2>1. CASE i = k + 1
      <3>1. g[i].score = entry.score
        BY <1>1, <2>1
      <3> QED BY <1>1, <1>3, <1>4, <2>1, <3>1
    <2>2. CASE i # k + 1
      <3>1. PICK p \in 1..Len(b) : g[i] = b[p] /\ p = IF i <= k THEN i ELSE i - 1
        BY <1>1, <2>2
      <3>2. g[i].score <= s <=> p <= j
        BY <3>1
      <3>3. CASE i <= k
        BY <1>1, <1>3, <1>4, <2>0, <3>1, <3>2, <3>3
      <3>4. CASE ~(i <= k)
        <4>1. p = i - 1 /\ i > k + 1
          BY <1>1, <2>0, <2>2, <3>1, <3>4
        <4> QED BY <1>1, <1>3, <1>4, <2>0, <3>2, <4>1
      <3> QED BY <3>3, <3>4
    <2> QED BY <2>1, <2>2
  <1> QED BY <1>5

LEMMA BestTypes ==
    ASSUME MemoryOK, conf.topK >= 0, NEW s \in Scores
    PROVE  /\ Total(s) \in Nat /\ Best(s) \in Nat /\ conf.topK \in Nat /\ s \in Int
           /\ Best(s) <= conf.topK
  <1>1. conf.topK \in Nat /\ s \in Int
    BY ConfigsAssumption, ScoresAssumption DEF MemoryOK
  <1>2. Total(s) \in Nat
    BY TotalSum DEF MemoryOK, Total
  <1> QED BY <1>1, <1>2, LeastFacts DEF Best

\* _findInsertIndex returns the number of better or equal scores in bestK.
LEMMA PlaceIsBest ==
    ASSUME MemoryOK, CountInv, conf.topK >= 0, NEW s \in Scores
    PROVE  InsertIdx(s) = Best(s)
  <1>1. /\ Best(s) \in Nat /\ Best(s) <= Len(bestK)
        /\ \A i \in 1..Len(bestK) : bestK[i].score <= s <=> i <= Best(s)
    BY BestTypes DEF CountInv
  <1>2. Len(bestK) \in Nat /\ DOMAIN bestK = 1..Len(bestK)
    BY DEF MemoryOK
  <1>3. { i \in DOMAIN bestK : bestK[i].score <= s } = 1..Best(s)
    BY <1>1, <1>2
  <1>4. Cardinality(1..Best(s)) = Best(s)
    BY <1>1, FS_Interval
  <1> QED BY <1>3, <1>4 DEF InsertIdx

LEMMA CountInsert ==
    ASSUME TodoInv, CountInv, todo # << >>, Insert(conf), conf' = conf, conf.topK >= 0
    PROVE  CountInv'
  <1> DEFINE t == Now.score
             d(s) == IF t <= s THEN 1 ELSE 0
             next(s) == Least(conf.topK, SumFunctionOnSet(offered', UpTo(s)))
  <1>1. /\ MemoryOK /\ t \in Scores /\ t \in Int /\ conf.topK \in Nat
        /\ bestK \in Seq(Entries) /\ offered \in [Scores -> Nat]
        /\ offered' = [offered EXCEPT ![t] = @ + 1] /\ recent' = recent
    <2>1. /\ MemoryOK /\ conf \in Configs
          /\ bestK \in Seq(Entries) /\ offered \in [Scores -> Nat]
      BY DEF TodoInv, MemoryOK
    <2>2. /\ t \in Scores /\ offered' = [offered EXCEPT ![t] = @ + 1]
          /\ recent' = recent
      BY InsertCases
    <2>3. conf.topK \in Nat
      BY <2>1, ConfigsAssumption
    <2>4. t \in Int
      BY <2>2, ScoresAssumption
    <2> QED BY <2>1, <2>2, <2>3, <2>4
  <1>2. Len(bestK) \in Nat /\ \A i \in 1..Len(bestK) : bestK[i].score \in Int
    <2>1. \A i \in 1..Len(bestK) : bestK[i] \in Entries
      BY <1>1, ElementOfSeq
    <2>2. Len(bestK) \in Nat
      BY <1>1, LenProperties
    <2>3. \A e \in Entries : e.score \in Int
      BY ScoresAssumption DEF Entries
    <2> QED BY <2>1, <2>2, <2>3
  <1>3. /\ Len(bestK) <= conf.topK /\ Len(recent) <= conf.topK
        /\ \A s \in Scores : /\ Best(s) <= Len(bestK)
                             /\ \A i \in 1..Len(bestK) : bestK[i].score <= s <=> i <= Best(s)
    BY DEF CountInv
  <1>4. \A s \in Scores : s \in Int /\ Best(s) \in Nat /\ Best(s) <= conf.topK
    BY <1>1, BestTypes
  <1>5. ASSUME NEW s \in Scores
        PROVE  next(s) = Least(conf.topK, Best(s) + d(s))
    <2>1. SumFunctionOnSet(offered', UpTo(s)) = Total(s) + d(s)
      BY <1>1, TotalOffer
    <2>2. d(s) \in {0, 1} /\ Total(s) \in Nat
      BY <1>1, BestTypes
    <2> HIDE DEF d
    <2>3. Least(conf.topK, Total(s) + d(s)) = Least(conf.topK, Best(s) + d(s))
      BY <1>1, <2>2, LeastFacts DEF Best
    <2> QED BY <2>1, <2>3
  <1>6. InsertIdx(t) = Best(t)
    BY <1>1, PlaceIsBest
  <1>7. SUFFICES /\ Len(bestK') <= conf.topK
                 /\ \A s \in Scores :
                       /\ next(s) <= Len(bestK')
                       /\ \A i \in 1..Len(bestK') : bestK'[i].score <= s <=> i <= next(s)
    BY <1>1, <1>3 DEF CountInv, Best, Total
  <1> HIDE DEF next
  <1>8. CASE InsertIdx(t) >= conf.topK /\ bestK' = bestK
    <2>1. Best(t) = conf.topK /\ conf.topK <= Len(bestK)
      BY <1>1, <1>3, <1>4, <1>6, <1>8
    <2>2. ASSUME NEW s \in Scores, t <= s PROVE Best(s) = conf.topK
      <3>1. CASE conf.topK = 0
        BY <1>4, <3>1
      <3>2. CASE conf.topK # 0
        <4>1. conf.topK \in 1..Len(bestK)
          BY <1>1, <1>2, <2>1, <3>2
        <4>2. bestK[conf.topK].score <= t
          BY <1>1, <1>3, <2>1, <4>1
        <4>3. bestK[conf.topK].score <= s
          BY <1>1, <1>2, <1>4, <2>2, <4>1, <4>2
        <4>4. conf.topK <= Best(s)
          BY <1>3, <4>1, <4>3
        <4> QED BY <1>1, <1>4, <4>4
      <3> QED BY <3>1, <3>2
    <2>3. ASSUME NEW s \in Scores PROVE next(s) = Best(s)
      <3>1. CASE t <= s
        <4>1. next(s) = Least(conf.topK, conf.topK + 1)
          BY <1>5, <2>2, <3>1
        <4> QED BY <1>1, <2>2, <3>1, <4>1 DEF Least
      <3>2. CASE ~(t <= s)
        <4>1. next(s) = Least(conf.topK, Best(s))
          BY <1>4, <1>5, <3>2
        <4> QED BY <1>1, <1>4, <4>1 DEF Least
      <3> QED BY <3>1, <3>2
    <2> QED BY <1>3, <1>8, <2>3
  <1>9. ASSUME NEW g, Grows(bestK, g, Place, Entry), NEW s \in Scores
        PROVE  /\ \A i \in 1..Len(g) : g[i].score <= s <=> i <= Best(s) + d(s)
               /\ Len(g) = Len(bestK) + 1 /\ Best(s) + d(s) \in Nat /\ Best(s) + d(s) <= Len(g)
    <2>1. Place = Best(t) /\ Entry.score = t
      BY <1>1, <1>6 DEF Place, Entry
    <2>2. \A i \in 1..Len(bestK) : bestK[i].score <= Entry.score <=> i <= Place
      BY <1>1, <1>3, <2>1
    <2>3. Best(s) \in Nat /\ Best(s) <= Len(bestK) /\ s \in Int
      BY <1>3, <1>4
    <2>4. \A i \in 1..Len(bestK) : bestK[i].score <= s <=> i <= Best(s)
      BY <1>3
    <2>5. Entry.score \in Int
      BY <1>1, <2>1
    <2>6. \A i \in 1..Len(g) :
             g[i].score <= s <=> i <= Best(s) + (IF Entry.score <= s THEN 1 ELSE 0)
      BY <1>2, <1>9, <2>2, <2>3, <2>4, <2>5, GrownCounts
    <2>7. Len(g) = Len(bestK) + 1
      BY <1>9 DEF Grows
    <2> QED BY <1>2, <2>1, <2>3, <2>6, <2>7
  <1>10. \A s \in Scores : next(s) = IF Best(s) + d(s) <= conf.topK THEN Best(s) + d(s)
                                     ELSE conf.topK
    BY <1>1, <1>4, <1>5 DEF Least
  <1>11. CASE Len(bestK) < conf.topK /\ Grows(bestK, bestK', Place, Entry)
    <2>1. ASSUME NEW s \in Scores
          PROVE  /\ next(s) <= Len(bestK')
                 /\ \A i \in 1..Len(bestK') : bestK'[i].score <= s <=> i <= next(s)
      <3>1. /\ \A i \in 1..Len(bestK') : bestK'[i].score <= s <=> i <= Best(s) + d(s)
            /\ Len(bestK') = Len(bestK) + 1 /\ Best(s) + d(s) \in Nat
            /\ Best(s) + d(s) <= Len(bestK')
        BY <1>9, <1>11
      <3>2. next(s) = Best(s) + d(s)
        BY <1>1, <1>2, <1>10, <1>11, <3>1
      <3> QED BY <3>1, <3>2
    <2>2. Len(bestK') <= conf.topK
      BY <1>1, <1>2, <1>11 DEF Grows
    <2> QED BY <2>1, <2>2
  <1>12. ASSUME Len(bestK) >= conf.topK, NEW g, Grows(bestK, g, Place, Entry),
                Len(bestK') = Len(bestK), \A i \in 1..Len(bestK) : bestK'[i] = g[i]
         PROVE  /\ Len(bestK') <= conf.topK
                /\ \A s \in Scores :
                      /\ next(s) <= Len(bestK')
                      /\ \A i \in 1..Len(bestK') : bestK'[i].score <= s <=> i <= next(s)
    <2>1. Len(bestK') = conf.topK
      BY <1>1, <1>2, <1>3, <1>12
    <2>2. ASSUME NEW s \in Scores
          PROVE  /\ next(s) <= Len(bestK')
                 /\ \A i \in 1..Len(bestK') : bestK'[i].score <= s <=> i <= next(s)
      <3>1. /\ \A i \in 1..Len(g) : g[i].score <= s <=> i <= Best(s) + d(s)
            /\ Len(g) = Len(bestK) + 1 /\ Best(s) + d(s) \in Nat
        BY <1>9, <1>12
      <3> HIDE DEF d
      <3>2. next(s) \in Nat /\ next(s) <= conf.topK
        BY <1>1, <1>10, <3>1
      <3>3. ASSUME NEW i \in 1..Len(bestK') PROVE bestK'[i].score <= s <=> i <= next(s)
        <4>1. bestK'[i] = g[i] /\ i \in 1..Len(g) /\ i <= conf.topK /\ i \in Int
          <5>1. i \in Int /\ 1 <= i /\ i <= Len(bestK')
            BY <1>1, <2>1
          <5>2. i \in 1..Len(bestK)
            BY <1>2, <1>12, <5>1
          <5>3. bestK'[i] = g[i]
            BY <1>12, <5>2
          <5>4. i \in 1..Len(g)
            BY <1>2, <3>1, <5>2
          <5> QED BY <2>1, <5>1, <5>3, <5>4
        <4>2. i <= Best(s) + d(s) <=> i <= next(s)
          BY <1>1, <1>10, <3>1, <4>1
        <4> QED BY <3>1, <4>1, <4>2
      <3> QED BY <2>1, <3>2, <3>3
    <2> QED BY <1>1, <2>1, <2>2
  <1>13. \/ InsertIdx(t) >= conf.topK /\ bestK' = bestK
         \/ Len(bestK) < conf.topK /\ Grows(bestK, bestK', Place, Entry)
         \/ /\ Len(bestK) >= conf.topK
            /\ \E g : /\ Grows(bestK, g, Place, Entry) /\ Len(bestK') = Len(bestK)
                      /\ \A i \in 1..Len(bestK) : bestK'[i] = g[i]
    BY <1>1, InsertCases
  <1> QED BY <1>8, <1>11, <1>12, <1>13

\* Before the first offer.
LEMMA NoOffers ==
    ASSUME NEW s \in Scores, NEW k \in Int, k >= 0
    PROVE  Least(k, SumFunctionOnSet([x \in Scores |-> 0], UpTo(s))) = 0
  <1> DEFINE f == [x \in Scores |-> 0]
             p == [x \in UpTo(s) |-> f[x]]
  <1>1. f \in [Scores -> Nat] /\ \A x \in Scores : f[x] = 0
    OBVIOUS
  <1> HIDE DEF f
  <1>2. /\ IsFiniteSet(UpTo(s)) /\ UpTo(s) \subseteq Scores /\ p \in [UpTo(s) -> Nat]
        /\ SumFunctionOnSet(f, UpTo(s)) = SumFunction(p)
    BY <1>1, TotalSum
  <1>3. \A x \in UpTo(s) : p[x] = 0
    BY <1>1, <1>2
  <1> HIDE DEF p
  <1>4. p \in [UpTo(s) -> Int]
    BY <1>2
  <1>5. SumFunction(p) = 0
    BY <1>2, <1>3, <1>4, SumZero
  <1> QED BY <1>2, <1>5 DEF Least, f

LEMMA CountSame ==
    UNCHANGED << conf, bestK, offered >> /\ (conf.topK >= 0 => Len(recent') <= conf.topK) /\ CountInv
        => CountInv'
  BY DEF CountInv, Best, Total

LEMMA CountStep == TodoInv /\ CountInv /\ [TNext]_vars /\ TodoInv' => CountInv'
  <1> SUFFICES ASSUME TodoInv, CountInv, [TNext]_vars, TodoInv' PROVE CountInv'
    OBVIOUS
  <1>1. CASE UNCHANGED << conf, bestK, recent, offered >>
    BY <1>1, CountSame DEF CountInv
  <1>2. CASE Quiet
    BY <1>1, <1>2 DEF Quiet
  <1>3. CASE UNCHANGED vars
    BY <1>1, <1>3 DEF vars, ckptVars, ckptMemory
  <1>4. ASSUME NEW m \in Metrics, TrainEpochEnds(m)
        PROVE  CountInv'
    BY <1>1, <1>4, EpochEndStep
  <1>5. CASE SaveStep
    <2>1. todo # << >> /\ conf' = conf
      BY <1>5, SaveStepCases DEF Others
    <2>2. CASE Open \/ Fill \/ Rename \/ Delete
      BY <1>1, <2>1, <2>2 DEF Open, Fill, Rename, Delete
    <2>3. CASE Push(conf)
      <3>1. UNCHANGED << bestK, offered >>
        BY <2>1, <2>3, PushCases
      <3>2. conf.topK >= 0 => Len(recent') <= conf.topK
        <4>1. Len(recent) \in Nat /\ conf.topK \in Int /\ (conf.topK >= 0 => Len(recent) <= conf.topK)
          BY ConfigsAssumption DEF TodoInv, MemoryOK, CountInv
        <4> QED BY <2>1, <2>3, <4>1, PushCases
      <3> QED BY <2>1, <3>1, <3>2, CountSame
    <2>4. CASE Insert(conf)
      <3>1. CASE conf.topK >= 0
        BY <2>1, <2>4, <3>1, CountInsert
      <3>2. CASE ~(conf.topK >= 0)
        BY <2>1, <3>2 DEF CountInv
      <3> QED BY <3>1, <3>2
    <2> QED BY <1>5, <2>2, <2>3, <2>4, SaveStepCases
  <1>6. CASE Crash
    <2>1. /\ conf' = conf /\ bestK' = << >> /\ recent' = << >>
          /\ offered' = [s \in Scores |-> 0]
      BY <1>6 DEF Crash, Forgotten
    <2>2. conf.topK \in Int
      BY ConfigsAssumption DEF TodoInv, MemoryOK
    <2> QED BY <2>1, <2>2, NoOffers DEF CountInv, Best, Total
  <1> QED BY <1>2, <1>3, <1>4, <1>5, <1>6, StepKinds


\* The three invariants hold at the start.
LEMMA BestInit == TInit => NamesInv /\ DiskInv /\ CountInv
  <1> SUFFICES ASSUME TInit PROVE NamesInv /\ DiskInv /\ CountInv
    OBVIOUS
  <1>1. /\ conf \in Configs /\ bestK = << >> /\ recent = << >> /\ disk = << >>
        /\ offered = [s \in Scores |-> 0]
    BY DEF TInit, CInit, NoFile
  <1>2. Reported = {} /\ DistinctNames
    BY <1>1 DEF Reported, ToSet, DistinctNames
  <1>3. NamesInv
    BY <1>2 DEF NamesInv
  <1>4. DiskInv
    BY <1>1, <1>2 DEF DiskInv
  <1>5. conf.topK \in Int
    BY <1>1, ConfigsAssumption
  <1>6. CountInv
    BY <1>1, <1>5, NoOffers DEF CountInv, Best, Total
  <1> QED BY <1>3, <1>4, <1>6

\* They say what the callback promises.
LEMMA InvBest == TodoInv /\ DiskInv /\ CountInv => BestOnDisk
  <1> SUFFICES ASSUME TodoInv, DiskInv, CountInv PROVE BestOnDisk
    OBVIOUS
  <1>1. /\ MemoryOK /\ Len(bestK) \in Nat /\ DOMAIN bestK = 1..Len(bestK)
        /\ \A i \in 1..Len(bestK) : bestK[i].score \in Scores
    <2>1. MemoryOK /\ bestK \in Seq(Entries)
      BY DEF TodoInv, MemoryOK
    <2>2. \A i \in 1..Len(bestK) : bestK[i] \in Entries
      BY <2>1, ElementOfSeq
    <2> QED BY <2>1, <2>2 DEF Entries
  <1>2. \A n \in Reported :
           /\ n \in DOMAIN disk
           /\ disk[n].whole /\ FileName(disk[n].ckpt) = n /\ disk[n].ckpt.life = life
    BY DEF DiskInv, OnDisk
  <1>3. ASSUME conf.topK >= 0
        PROVE  /\ Len(bestK) <= conf.topK /\ Len(recent) <= conf.topK
               /\ \A i, j \in DOMAIN bestK : i < j => bestK[i].score <= bestK[j].score
               /\ \A s \in Scores :
                     Cardinality({ i \in DOMAIN bestK : bestK[i].score <= s })
                         = Least(conf.topK, SumFunctionOnSet(offered, UpTo(s)))
    <2>1. Len(bestK) <= conf.topK /\ Len(recent) <= conf.topK
      BY <1>3 DEF CountInv
    <2>2. ASSUME NEW i \in DOMAIN bestK, NEW j \in DOMAIN bestK, i < j
          PROVE  bestK[i].score <= bestK[j].score
      <3> DEFINE s == bestK[j].score
      <3>1. s \in Scores /\ i \in 1..Len(bestK) /\ j \in 1..Len(bestK)
        BY <1>1
      <3>2. s \in Int /\ Best(s) \in Nat
        BY <1>1, <1>3, <3>1, BestTypes
      <3>3. \A p \in 1..Len(bestK) : bestK[p].score <= s <=> p <= Best(s)
        BY <1>3, <3>1 DEF CountInv
      <3>4. j <= Best(s)
        BY <3>1, <3>2, <3>3
      <3>5. i <= Best(s)
        BY <2>2, <3>1, <3>2, <3>4
      <3> QED BY <3>1, <3>3, <3>5
    <2>3. ASSUME NEW s \in Scores
          PROVE  Cardinality({ i \in DOMAIN bestK : bestK[i].score <= s })
                     = Least(conf.topK, SumFunctionOnSet(offered, UpTo(s)))
      <3>1. InsertIdx(s) = Best(s)
        BY <1>1, <1>3, PlaceIsBest
      <3> QED BY <3>1 DEF InsertIdx, Best, Total
    <2> QED BY <2>1, <2>2, <2>3
  <1>4. ASSUME conf.monitor \/ conf.topK >= 0,
               NEW n \in DOMAIN disk \ (Reported \cup orphans \cup {LastCkpt})
        PROVE  \/ disk[n].ckpt.life < life
               \/ \E i \in DOMAIN todo : todo[i].name = n
    <2>1. CASE Awaited(n)
      <3>1. todo \in Seq(Ops(conf, globalStep, life)) /\ todo # << >> /\ todo[1].name = n
        BY <2>1 DEF Awaited, TodoInv, HookInv
      <3>2. 1 \in DOMAIN todo
        BY <3>1, LenProperties, EmptySeq
      <3> QED BY <3>1, <3>2
    <2> QED BY <1>4, <2>1 DEF DiskInv
  <1> QED BY <1>2, <1>3, <1>4 DEF BestOnDisk

(* The callback's memory and the disk agree: what it reports are whole      *)
(* files, and the saveTopK best that came up; what it no longer reports it  *)
(* has deleted, failed to delete, or lost to an earlier death of the        *)
(* process.                                                                 *)
THEOREM BestCheckpointsOnDisk == TSpec => []BestOnDisk
  <1> QED
    BY TodoInit, TodoStep, LoopInit, LoopStep, BestInit, NamesStep, DiskStep, CountStep,
       InvBest, PTL
    DEF TSpec
=============================================================================
