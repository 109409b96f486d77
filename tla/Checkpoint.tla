------------------------------ MODULE Checkpoint ------------------------------
(***************************************************************************)
(* The ModelCheckpoint callback, src/lightning/callbacks/checkpoint.ts:    *)
(* last.ckpt and the best (or the latest) saveTopK checkpoints, each       *)
(* written to a temporary file that is renamed into place.                 *)
(*                                                                         *)
(* The callback runs to completion in the code.  Here its file operations  *)
(* are steps of their own, taken from todo, since the process can die      *)
(* between any two of them and each can throw.  A checkpoint is known by   *)
(* the epoch and the step it was taken at and the life of the process that *)
(* took it; a file is whole once its last byte is written.                 *)
(***************************************************************************)
EXTENDS Integers, SequencesExt, TLC

CONSTANTS
    Scores,   \* the values the monitored metric takes, smaller is better
    Absent    \* the metric is not in state.epochMetrics

ASSUME ScoresAssumption ==
    Scores \subseteq Int /\ IsFiniteSet(Scores) /\ Absent \notin Int

VARIABLES
    disk,     \* the checkpoint files, by name
    tmp,      \* the temporary files, by the name they will get
    bestK,    \* _bestK: [score, name] in order of score
    recent,   \* _recent: the names of an unmonitored callback
    todo,     \* the file operations the running hook has still to make
    offered,  \* ghost: how often each score came up for bestK
    orphans   \* ghost: the files _tryDelete failed to delete

ckptMemory == << bestK, recent, todo, offered, orphans >>
ckptVars == << disk, tmp, ckptMemory >>

\* The name of last.ckpt; any other is filled in from epoch and globalStep, as
\* the default template names both (under one without {step} names would collide).
LastCkpt == [epoch |-> -1, step |-> -1]
FileName(ckpt) == [epoch |-> ckpt.epoch, step |-> ckpt.step]

NoFile == << >>

CInit ==
    /\ disk = NoFile /\ tmp = NoFile
    /\ bestK = << >> /\ recent = << >> /\ todo = << >>
    /\ offered = [s \in Scores |-> 0] /\ orphans = {}

-----------------------------------------------------------------------------
Op(do, name, ckpt, score) == [do |-> do, name |-> name, ckpt |-> ckpt, score |-> score]

\* _saveCheckpoint: writeBinary to path.tmp (created, then filled), rename.
Save(name, ckpt) ==
    << Op("open", name, ckpt, Absent), Op("fill", name, ckpt, Absent),
       Op("rename", name, ckpt, Absent) >>

\* _findInsertIndex: after the entries that are as good.
InsertIdx(score) == Cardinality({ i \in DOMAIN bestK : bestK[i].score <= score })

\* What onTrainEpochEnd does for the checkpoint with this metric.
Tracked(conf, ckpt, metric) ==
    LET name == FileName(ckpt) IN
    CASE ~conf.monitor -> Save(name, ckpt) \o << Op("push", name, ckpt, Absent) >>
      [] conf.monitor /\ metric = Absent -> << >>
      [] conf.monitor /\ metric # Absent ->
            (IF conf.topK < 0 \/ InsertIdx(metric) < conf.topK THEN Save(name, ckpt) ELSE << >>)
                \o << Op("insert", name, ckpt, metric) >>

\* onTrainEpochEnd, up to its first file operation.
OnTrainEpochEnd(conf, ckpt, metric) ==
    /\ todo' = IF (ckpt.epoch + 1) % conf.every # 0 THEN << >>
               ELSE (IF conf.saveLast THEN Save(LastCkpt, ckpt) ELSE << >>)
                    \o Tracked(conf, ckpt, metric)
    /\ UNCHANGED << disk, tmp, bestK, recent, offered, orphans >>

-----------------------------------------------------------------------------
Now == Head(todo)
With(files, name, file) ==
    [n \in DOMAIN files \cup {name} |-> IF n = name THEN file ELSE files[n]]

\* Variant: the checkpoint file itself is opened.
OpenInPlace ==
    /\ Now.do = "open"
    /\ tmp' = With(tmp, Now.name, [ckpt |-> Now.ckpt, whole |-> FALSE])
    /\ disk' = With(disk, Now.name, [ckpt |-> Now.ckpt, whole |-> FALSE])
    /\ todo' = Tail(todo)
    /\ UNCHANGED << bestK, recent, offered, orphans >>

Open ==
    /\ Now.do = "open"
    /\ tmp' = With(tmp, Now.name, [ckpt |-> Now.ckpt, whole |-> FALSE])
    /\ todo' = Tail(todo)
    /\ UNCHANGED << disk, bestK, recent, offered, orphans >>

Fill ==
    /\ Now.do = "fill"
    /\ tmp' = With(tmp, Now.name, [ckpt |-> Now.ckpt, whole |-> TRUE])
    /\ todo' = Tail(todo)
    /\ UNCHANGED << disk, bestK, recent, offered, orphans >>

Rename ==
    /\ Now.do = "rename"
    /\ disk' = With(disk, Now.name, tmp[Now.name])
    /\ tmp' = Restrict(tmp, DOMAIN tmp \ {Now.name})
    /\ orphans' = orphans \ {Now.name}
    /\ todo' = Tail(todo)
    /\ UNCHANGED << bestK, recent, offered >>

\* _recent.push, and shift with _tryDelete beyond saveTopK.
Push(conf) ==
    LET grown == Append(recent, Now.name) IN
    /\ Now.do = "push"
    /\ IF conf.topK >= 0 /\ Len(grown) > conf.topK
       THEN /\ recent' = Tail(grown)
            /\ todo' = << Op("delete", Head(grown), Now.ckpt, Absent) >> \o Tail(todo)
       ELSE /\ recent' = IF conf.topK >= 0 THEN grown ELSE recent
            /\ todo' = Tail(todo)
    /\ UNCHANGED << disk, tmp, bestK, offered, orphans >>

\* Variant: the entry that was the best is dropped.
DropsHead(s) == << Head(s), Tail(s) >>

\* _bestK.pop()
Pop(s) == << s[Len(s)], Front(s) >>

\* _bestK.splice or push, and pop with _tryDelete beyond saveTopK.
Insert(conf) ==
    LET entry == [score |-> Now.score, name |-> Now.name]
        idx == InsertIdx(Now.score)
        grown == IF conf.topK < 0 THEN Append(bestK, entry) ELSE InsertAt(bestK, idx + 1, entry)
    IN  /\ Now.do = "insert"
        /\ IF conf.topK >= 0 /\ idx >= conf.topK
           THEN bestK' = bestK /\ todo' = Tail(todo)
           ELSE IF conf.topK >= 0 /\ Len(grown) > conf.topK
           THEN /\ bestK' = Pop(grown)[2]
                /\ todo' = << Op("delete", Pop(grown)[1].name, Now.ckpt, Absent) >> \o Tail(todo)
           ELSE bestK' = grown /\ todo' = Tail(todo)
        /\ offered' = [offered EXCEPT ![Now.score] = @ + 1]
        /\ UNCHANGED << disk, tmp, recent, orphans >>

\* _tryDelete, which swallows a failure.
Delete ==
    /\ Now.do = "delete"
    /\ \/ /\ disk' = Restrict(disk, DOMAIN disk \ {Now.name})
          /\ UNCHANGED orphans
       \/ /\ orphans' = orphans \cup {Now.name}
          /\ UNCHANGED disk
    /\ todo' = Tail(todo)
    /\ UNCHANGED << tmp, bestK, recent, offered >>

HookStep(conf) ==
    /\ todo # << >>
    /\ Open \/ Fill \/ Rename \/ Push(conf) \/ Insert(conf) \/ Delete

\* Variant: the rest of the hook runs all the same.
HookGoesOn ==
    /\ todo # << >>
    /\ Now.do \in {"open", "fill", "rename"}
    /\ todo' = Tail(todo)
    /\ UNCHANGED << disk, tmp, bestK, recent, offered, orphans >>

\* A file operation of _saveCheckpoint throws: the hook is abandoned.
HookFails ==
    /\ todo # << >>
    /\ Now.do \in {"open", "fill", "rename"}
    /\ todo' = << >>
    /\ UNCHANGED << disk, tmp, bestK, recent, offered, orphans >>

\* The process dies: only the files are left.
Forgotten ==
    /\ bestK' = << >> /\ recent' = << >> /\ todo' = << >>
    /\ offered' = [s \in Scores |-> 0] /\ orphans' = {}
    /\ UNCHANGED << disk, tmp >>
=============================================================================
