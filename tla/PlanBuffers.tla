----------------------------- MODULE PlanBuffers -----------------------------
(***************************************************************************)
(* assignPlanBuffers of                                                    *)
(* src/compiler/passes/memory/plan_buffer_assignment.ts, and the executor  *)
(* that runs a plan on the assignment, runWebGPUPlan of                    *)
(* src/runtime/webgpu.ts.                                                  *)
(*                                                                         *)
(* A compiled graph is a plan: steps that read and write slots, some of    *)
(* them repeated by scan loops.  The assignment maps the slots to fewer    *)
(* buffers: a slot takes over the buffer of one that no later step         *)
(* touches, or of one that is donated to it.  Arguments, results and what  *)
(* a loop moves around keep a buffer of their own.                         *)
(*                                                                         *)
(* Abstractions: a buffer is named after the slot it was made for (a slot  *)
(* makes at most one); the outputs of one step are placed in any order,    *)
(* and among equally good free buffers any one is picked, where the code   *)
(* takes the first of its lists.                                           *)
(***************************************************************************)
EXTENDS Integers, Sequences, FiniteSets

CONSTANTS
    Slot,     \* the slots of the plans, numbers
    None,     \* no buffer, no contents
    Plans     \* the plans compiled: the records Plan describes

VARIABLES
    plan,        \* the plan
    pinned,      \* the slots that keep a buffer of their own
    pc,          \* "expire", "donate", "place": assigning step k; "run", "round",
                 \* "turn", "again": executing, the last three in a loop; "done"
    k,           \* the step
    todo,        \* the outputs of step k still to be placed
    slotBuffer,  \* slotBuffer[s]: the buffer of s, None if it has none yet
    bufferBytes, \* bufferBytes[b], bufferOwner[b]: of the buffer made for b
    bufferOwner,
    freeList,
    bufs,        \* the executor's slot-to-buffer table; a loop swaps carries in it
    holds,       \* holds[b]: the slot whose contents buffer b holds
    round,       \* the iteration of the running loop, 0 outside
    readBack     \* the slots whose contents were copied back to the caller's tensors

vars == << plan, pinned, pc, k, todo, slotBuffer, bufferBytes, bufferOwner, freeList,
           bufs, holds, round, readBack >>
assignVars == << slotBuffer, bufferBytes, bufferOwner, freeList >>

-----------------------------------------------------------------------------
(* The plan: args are the argument and result slots, copies the sources of  *)
(* return fix-ups; a loop repeats the steps first..last times times, moves  *)
(* slices xs in and ys out, and carries values from b to a.                 *)

Plan == [args : SUBSET Slot, copies : SUBSET Slot, bytes : [Slot -> Int],
         steps : Seq([ins : SUBSET Slot, outs : SUBSET Slot]),
         donations : SUBSET (Nat \X Slot \X Slot),
         loops : SUBSET [first : Nat, last : Nat, times : Nat,
                         carry : SUBSET [a : Slot, b : Slot, init : Slot, final : Slot],
                         xs : SUBSET [slice : Slot, whole : Slot],
                         ys : SUBSET [slice : Slot, whole : Slot]]]

Steps(p) == DOMAIN p.steps
Touches(p, i) == p.steps[i].ins \cup p.steps[i].outs

LoopSlots(l) ==
    (UNION { {c.a, c.b, c.init, c.final} : c \in l.carry })
    \cup (UNION { {x.slice, x.whole} : x \in l.xs \cup l.ys })

In(l, i) == l.first <= i /\ i <= l.last

\* A slot is read before any step has written it.
ReadUnwritten(p, s) ==
    \E i \in Steps(p) : s \in p.steps[i].ins /\ \A j \in Steps(p) : j < i => s \notin p.steps[j].outs

Pinned(p) ==
    p.args \cup p.copies \cup (UNION { LoopSlots(l) : l \in p.loops })
    \cup { s \in Slot : p.bytes[s] <= 0 \/ ReadUnwritten(p, s) }

\* Variant: a loop's slots are not stretched to its end.
NotStretched(p, i) == i

\* Whatever a loop touches lives to the end of the loop.
Stretched(p, i) ==
    IF \E l \in p.loops : In(l, i) THEN (CHOOSE l \in p.loops : In(l, i)).last ELSE i

\* lastUse[s] = i
LastUse(p, s, i) ==
    /\ \E j \in Steps(p) : s \in Touches(p, j) /\ Stretched(p, j) = i
    /\ \A j \in Steps(p) : s \in Touches(p, j) => Stretched(p, j) <= i

\* def[s] = i; a slot a loop defines after its first step is stretched back to it.
Def(p, s, i) ==
    /\ i \in Steps(p) /\ s \in p.steps[i].outs
    /\ \A j \in Steps(p) : s \in p.steps[j].outs => j >= i
    /\ \A l \in p.loops : In(l, i) => l.first = i

ASSUME PlanAssumption ==
    /\ Slot \subseteq Nat /\ IsFiniteSet(Slot) /\ None \notin Slot
    /\ \A p \in Plans :
        /\ p \in Plan
        /\ \A l \in p.loops : l.first \in 1..l.last /\ l.last <= Len(p.steps)
        /\ \A l \in p.loops : l.first = l.last => p.steps[l.first].outs \subseteq LoopSlots(l)
        /\ \A l, m \in p.loops : l # m => l.last < m.first \/ m.last < l.first
        /\ \A d \in p.donations :
              /\ d[1] \in Steps(p) /\ d[2] \in p.steps[d[1]].ins
              /\ p.steps[d[1]].outs = {d[3]}
              /\ d[2] # d[3] /\ p.bytes[d[2]] = p.bytes[d[3]]
        /\ \A d, e \in p.donations : d[1] = e[1] => d = e

\* The plans that emitScanLoop means to make: every slot is written by one step
\* and read by later ones; what a loop exchanges is written in the loop and known
\* to it alone; what a loop starts from is there when it starts.  (A body that
\* returns a carry unchanged, and a scan of no iterations, are not of this form.)
Written(p) == UNION { p.steps[i].outs : i \in Steps(p) }
Carried(p) == UNION { UNION { {c.a, c.b} : c \in l.carry } : l \in p.loops }
WrittenBefore(p, s, i) == \A j \in Steps(p) : s \in p.steps[j].outs => j < i

SoundCarry(p, l, c) ==
    /\ c.a # c.b /\ c.a \notin Written(p)
    /\ \E j \in Steps(p) : In(l, j) /\ c.b \in p.steps[j].outs
    /\ \A i \in Steps(p) : {c.a, c.b} \cap p.steps[i].ins # {} => In(l, i)
    /\ \A m \in p.loops : \A d \in m.carry : {c.a, c.b} \cap {d.a, d.b} # {} => m = l /\ d = c
    /\ {c.init, c.final} \cap Carried(p) = {} /\ WrittenBefore(p, c.init, l.first)

SoundPlan(p) ==
    /\ \A i, j \in Steps(p) :
          /\ p.steps[i].outs \cap p.steps[j].outs # {} => i = j
          /\ p.steps[i].ins \cap p.steps[j].outs # {} => j < i
    /\ (p.args \cup p.copies) \cap Carried(p) = {}
    /\ \A l \in p.loops :
          /\ l.times > 0
          /\ \A c \in l.carry : SoundCarry(p, l, c)
          /\ \A x \in l.xs : {x.slice, x.whole} \cap Carried(p) = {} /\ WrittenBefore(p, x.whole, l.first)
          /\ \A y \in l.ys :
                /\ y.whole \notin Carried(p) /\ WrittenBefore(p, y.slice, l.last + 1)
                /\ y.slice \in Carried(p) => \E c \in l.carry : y.slice \in {c.a, c.b}

-----------------------------------------------------------------------------
Init ==
    /\ plan \in Plans
    /\ pinned = Pinned(plan)
    /\ pc = "expire" /\ k = 1 /\ todo = {}
    /\ slotBuffer = [s \in Slot |-> IF s \in pinned THEN s ELSE None]
    /\ bufferBytes = [s \in Slot |-> IF s \in pinned THEN plan.bytes[s] ELSE 0]
    /\ bufferOwner = [s \in Slot |-> s]
    /\ freeList = {}
    /\ bufs = slotBuffer
    /\ holds = [s \in Slot |-> None]
    /\ round = 0 /\ readBack = {}

Running == << bufs, holds, round, readBack >>

\* Variant: a slot that dies at this step already gives its buffer away.
ExpiresNow(s) == s \notin pinned /\ LastUse(plan, s, k)

Expires(s) == s \notin pinned /\ LastUse(plan, s, k - 1)

\* The buffers of the slots that died at the step before become free, unless
\* they have a new owner.
Expire ==
    /\ pc = "expire" /\ k \in Steps(plan)
    /\ pc' = "donate"
    /\ freeList' = freeList \cup
          { slotBuffer[s] : s \in { s \in Slot : /\ Expires(s)
                                                 /\ slotBuffer[s] # None
                                                 /\ bufferOwner[slotBuffer[s]] = s } }
    /\ UNCHANGED << plan, pinned, k, todo, slotBuffer, bufferBytes, bufferOwner, Running >>

\* Variant: a buffer that is too small is not enlarged.
NotLarger(m, n) == m

Larger(m, n) == IF m < n THEN n ELSE m

\* Variant: a slot that is still needed may be donated.
DonatesAlive(from, to) ==
    /\ from \notin pinned /\ to \notin pinned
    /\ slotBuffer[to] = None
    /\ Def(plan, to, k)
    /\ slotBuffer[from] # None /\ bufferOwner[slotBuffer[from]] = from

\* The step may write its result over an input that dies with it.
Donates(from, to) ==
    /\ from \notin pinned /\ to \notin pinned
    /\ slotBuffer[to] = None
    /\ LastUse(plan, from, k) /\ Def(plan, to, k)
    /\ slotBuffer[from] # None /\ bufferOwner[slotBuffer[from]] = from

Donate ==
    /\ pc = "donate"
    /\ pc' = "place" /\ todo' = plan.steps[k].outs
    /\ \/ \E d \in plan.donations :
            LET b == slotBuffer[d[2]] IN
            /\ d[1] = k /\ Donates(d[2], d[3])
            /\ slotBuffer' = [slotBuffer EXCEPT ![d[3]] = b]
            /\ bufferBytes' = [bufferBytes EXCEPT ![b] = Larger(bufferBytes[b], plan.bytes[d[3]])]
            /\ bufferOwner' = [bufferOwner EXCEPT ![b] = d[3]]
       \/ /\ \A d \in plan.donations : d[1] = k => ~Donates(d[2], d[3])
          /\ UNCHANGED << slotBuffer, bufferBytes, bufferOwner >>
    /\ UNCHANGED << plan, pinned, k, freeList, Running >>

\* take: the smallest free buffer that is large enough, else the largest.
Fits(size) == { b \in freeList : bufferBytes[b] >= size }
Picks(size, b) ==
    \/ b \in Fits(size) /\ \A c \in Fits(size) : bufferBytes[b] <= bufferBytes[c]
    \/ b \in freeList /\ Fits(size) = {} /\ \A c \in freeList : bufferBytes[c] <= bufferBytes[b]

\* Give slot s the buffer b.
GiveBuffer(s, b) ==
    /\ slotBuffer' = [slotBuffer EXCEPT ![s] = b]
    /\ bufferBytes' = [bufferBytes EXCEPT ![b] = Larger(bufferBytes[b], plan.bytes[s])]
    /\ bufferOwner' = [bufferOwner EXCEPT ![b] = s]

Place(s) ==
    /\ pc = "place" /\ s \in todo
    /\ todo' = todo \ {s}
    /\ \/ /\ slotBuffer[s] # None
          /\ UNCHANGED << slotBuffer, bufferBytes, bufferOwner, freeList >>
       \/ /\ slotBuffer[s] = None
          /\ freeList = {}
          /\ GiveBuffer(s, s)
          /\ UNCHANGED freeList
       \/ \E b \in freeList :
            /\ slotBuffer[s] = None
            /\ Picks(plan.bytes[s], b)
            /\ GiveBuffer(s, b)
            /\ freeList' = freeList \ {b}
    /\ UNCHANGED << plan, pinned, pc, k, Running >>

StepPlaced ==
    /\ pc = "place" /\ todo = {}
    /\ pc' = "expire" /\ k' = k + 1
    /\ UNCHANGED << plan, pinned, todo, assignVars, Running >>

-----------------------------------------------------------------------------
(* The executor.  A slot no step writes is filled from the host before the  *)
(* run; of several in one buffer the last one wins.                         *)

\* Variant: slots no step touches get no buffer.
NotCompleted == slotBuffer

\* Slots no step touches get a buffer too.  (An assignment with as many buffers
\* as slots is thrown away: it is the one that gives every slot its own.)
Completed == [s \in Slot |-> IF slotBuffer[s] = None THEN s ELSE slotBuffer[s]]

Assigned ==
    /\ pc = "expire" /\ k \notin Steps(plan)
    /\ pc' = "run" /\ k' = 1
    /\ slotBuffer' = Completed
    /\ bufferBytes' = [b \in Slot |-> IF slotBuffer[b] = None THEN plan.bytes[b] ELSE bufferBytes[b]]
    /\ bufs' = Completed
    /\ holds' = [b \in Slot |->
          LET filled == { s \in Slot \ Written(plan) : Completed[s] = b }
          IN  IF filled = {} THEN None ELSE CHOOSE s \in filled : \A t \in filled : t <= s]
    /\ UNCHANGED << plan, pinned, todo, bufferOwner, freeList, round, readBack >>

\* The contents of the buffers after the slots of W are written.
Wrote(W) ==
    [b \in Slot |-> IF \E s \in W : bufs[s] = b THEN CHOOSE s \in W : bufs[s] = b ELSE holds[b]]

RunStep ==
    /\ \/ pc = "run" /\ \A l \in plan.loops : k # l.first
       \/ pc = "round"
    /\ k \in Steps(plan)
    /\ holds' = Wrote(plan.steps[k].outs)
    /\ IF pc = "round" /\ \E l \in plan.loops : k = l.last
       THEN pc' = "turn" /\ k' = k
       ELSE pc' = pc /\ k' = k + 1
    /\ UNCHANGED << plan, pinned, todo, assignVars, bufs, round, readBack >>

StartLoop(l) ==
    /\ pc = "run" /\ k = l.first
    /\ holds' = Wrote({ c.a : c \in l.carry })
    /\ pc' = "again"
    /\ UNCHANGED << plan, pinned, k, todo, assignVars, bufs, round, readBack >>

NextRound(l) ==
    /\ pc = "again" /\ In(l, k) /\ round < l.times
    /\ holds' = Wrote({ x.slice : x \in l.xs })
    /\ pc' = "round" /\ k' = l.first /\ round' = round + 1
    /\ UNCHANGED << plan, pinned, todo, assignVars, bufs, readBack >>

\* Slices of the results are copied out and the two buffers of every carry
\* change places: what was written as b is now a.
EndRound(l) ==
    /\ pc = "turn" /\ In(l, k)
    /\ bufs' = [s \in Slot |->
          IF \E c \in l.carry : s \in {c.a, c.b}
          THEN LET c == CHOOSE c \in l.carry : s \in {c.a, c.b}
               IN  IF s = c.a THEN bufs[c.b] ELSE bufs[c.a]
          ELSE bufs[s]]
    /\ holds' = [b \in Slot |->
          IF \E c \in l.carry : b = bufs[c.b] /\ holds[b] = c.b
          THEN (CHOOSE c \in l.carry : b = bufs[c.b]).a
          ELSE IF \E c \in l.carry : b = bufs[c.a] THEN None
          ELSE Wrote({ y.whole : y \in l.ys })[b]]
    /\ pc' = "again"
    /\ UNCHANGED << plan, pinned, k, todo, assignVars, round, readBack >>

LoopEnds(l) ==
    /\ pc = "again" /\ In(l, k) /\ round = l.times
    /\ holds' = Wrote({ c.final : c \in l.carry })
    /\ pc' = "run" /\ k' = l.last + 1 /\ round' = 0
    /\ UNCHANGED << plan, pinned, todo, assignVars, bufs, readBack >>

\* The arguments a step writes are read back; a result that only the moves of a
\* loop write is none of them.
PlanDone ==
    /\ pc = "run" /\ k \notin Steps(plan)
    /\ pc' = "done"
    /\ readBack' = plan.args \cap Written(plan)
    /\ UNCHANGED << plan, pinned, k, todo, assignVars, bufs, holds, round >>

Next ==
    \/ Expire \/ Donate \/ StepPlaced \/ Assigned \/ RunStep \/ PlanDone
    \/ \E s \in Slot : Place(s)
    \/ \E l \in plan.loops : StartLoop(l) \/ NextRound(l) \/ EndRound(l) \/ LoopEnds(l)

Spec == Init /\ [][Next]_vars

-----------------------------------------------------------------------------
TypeOK ==
    /\ plan \in Plans /\ pinned = Pinned(plan)
    /\ pc \in {"expire", "donate", "place", "run", "round", "turn", "again", "done"}
    /\ k \in Nat /\ round \in Nat
    /\ todo \subseteq Slot /\ freeList \subseteq Slot /\ readBack \subseteq Slot
    /\ slotBuffer \in [Slot -> Slot \cup {None}]
    /\ bufs \in [Slot -> Slot \cup {None}]
    /\ pc \in {"run", "round", "turn", "again", "done"} => bufs \in [Slot -> Slot]
    /\ bufferBytes \in [Slot -> Int]
    /\ bufferOwner \in [Slot -> Slot]
    /\ holds \in [Slot -> Slot \cup {None}]

\* Slot s is touched for the last time before t is first touched, or at the
\* step, of no loop, that is given its buffer for t.
DeadBefore(s, t) ==
    \A i, j \in Steps(plan) :
        s \in Touches(plan, i) /\ t \in Touches(plan, j) =>
            \/ Stretched(plan, i) < j
            \/ i = j /\ << j, s, t >> \in plan.donations /\ \A l \in plan.loops : ~In(l, j)

(* Two slots that share a buffer are never needed at the same time, a loop  *)
(* counted as one long step, and neither is pinned.  (The first-fit reuse   *)
(* of assignPlanBuffers, with its owners and its delayed free list.)        *)
NoOverlap ==
    \A s, t \in Slot :
        s # t /\ slotBuffer[s] = slotBuffer[t] /\ slotBuffer[s] # None =>
            /\ {s, t} \cap pinned = {}
            /\ DeadBefore(s, t) \/ DeadBefore(t, s)

\* What the executor reads next.
Reading ==
    CASE pc \in {"run", "round"} /\ k \in Steps(plan) ->
            IF pc = "run" /\ \E l \in plan.loops : k = l.first
            THEN { c.init : c \in UNION { l.carry : l \in { l \in plan.loops : k = l.first } } }
            ELSE plan.steps[k].ins
      [] pc \in {"turn", "again"} ->
            LET l == CHOOSE l \in plan.loops : In(l, k) IN
            IF pc = "turn" THEN { c.b : c \in l.carry } \cup { y.slice : y \in l.ys }
            ELSE IF round < l.times THEN { x.whole : x \in l.xs }
            ELSE { c.a : c \in l.carry }
      [] pc = "done" -> plan.args \cup plan.copies
      [] OTHER -> {}

(* Running the plan on the shared buffers, every step, loop move and result *)
(* finds the contents of the slots it reads, in every iteration, and a step *)
(* writes over one of its own inputs only where that was donated.           *)
ReadsOwn ==
    /\ \A s \in Reading : holds[bufs[s]] = s
    /\ pc \in {"run", "round"} /\ k \in Steps(plan) =>
          \A i \in plan.steps[k].ins, o \in plan.steps[k].outs :
              i # o /\ bufs[i] = bufs[o] => << k, i, o >> \in plan.donations

(* Every slot fits into its buffer, also into one it took over.             *)
BigEnough ==
    \A s \in Slot : slotBuffer[s] # None => bufferBytes[slotBuffer[s]] >= plan.bytes[s]
=============================================================================
