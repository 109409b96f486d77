-------------------------- MODULE PlanBuffers_proof --------------------------
(***************************************************************************)
(* For every plan: the slots that share a buffer are never needed at the   *)
(* same time, and every buffer is large enough for its slots.  For every   *)
(* plan of the form emitScanLoop means to make: whatever the executor      *)
(* reads is there.                                                         *)
(*                                                                         *)
(* The argument: when a slot is given a buffer, every slot that had it     *)
(* before is past its last use.  For a free buffer this holds of all its   *)
(* slots (FreeIsDead), for a donated one of all but the donor, its owner   *)
(* (DisownedIsDead), which dies in the step that takes it.  The new slot   *)
(* is touched in no earlier step, as it would have a buffer (Placed).      *)
(* The executor's invariant, ExecInv, rests on that one: only a write of a *)
(* slot in the same buffer can take a slot's contents away.                *)
(***************************************************************************)
EXTENDS PlanBuffers, FiniteSetTheorems, TLAPS

Types ==
    /\ plan \in Plans /\ pinned = Pinned(plan)
    /\ k \in Nat
    /\ slotBuffer \in [Slot -> Slot \cup {None}]
    /\ bufferBytes \in [Slot -> Int]
    /\ bufferOwner \in [Slot -> Slot]
    /\ freeList \subseteq Slot

\* A pinned slot has the buffer made for it, and has it alone.
PinnedApart ==
    /\ \A s \in Slot \cap pinned : slotBuffer[s] = s
    /\ \A s \in Slot : slotBuffer[s] \in pinned => slotBuffer[s] = s

\* A buffer is in use only if the slot it is named after has it.
NamedAfter == \A s \in Slot : slotBuffer[s] # None => slotBuffer[slotBuffer[s]] = slotBuffer[s]

\* All the outputs of earlier steps have their buffers.
Placed ==
    \A s \in Slot, j \in Steps(plan) :
        /\ pc \in {"expire", "donate", "place"}
        /\ s \in plan.steps[j].outs
        /\ j < k \/ (j = k /\ pc = "place" /\ s \notin todo)
        => slotBuffer[s] # None

\* Slot s is touched for the last time before step n.
Dead(s, n) == \A i \in Steps(plan) : s \in Touches(plan, i) => Stretched(plan, i) < n

FreeIsDead ==
    pc \in {"expire", "donate", "place"} =>
        \A b \in freeList :
            /\ b \notin pinned /\ slotBuffer[b] = b
            /\ \A s \in Slot : slotBuffer[s] = b => Dead(s, k)

DisownedIsDead ==
    \A s \in Slot :
        slotBuffer[s] # None /\ bufferOwner[slotBuffer[s]] # s =>
            /\ pc \in {"expire", "donate"} => Dead(s, k)
            /\ pc = "place" => Dead(s, k + 1)

\* The step under way is a step of the plan.
AtStep == pc \in {"donate", "place"} => k \in Steps(plan)

Todo == pc = "place" => todo \subseteq plan.steps[k].outs

BufferInv ==
    /\ Types /\ PinnedApart /\ NamedAfter /\ Placed
    /\ FreeIsDead /\ DisownedIsDead /\ AtStep /\ Todo
    /\ NoOverlap /\ BigEnough

-----------------------------------------------------------------------------
LEMMA PlanFacts ==
    ASSUME NEW p \in Plans
    PROVE  /\ p.bytes \in [Slot -> Int]
           /\ Steps(p) \subseteq Nat
           /\ \A i \in Steps(p) : Stretched(p, i) \in Nat
           /\ \A l \in p.loops : l.first \in Nat /\ l.last \in Nat
           /\ \A d \in p.donations : d = << d[1], d[2], d[3] >> /\ d[2] \in Slot /\ d[3] \in Slot
<1>1. p \in Plan
  BY PlanAssumption
<1>2. Steps(p) \subseteq Nat
  BY <1>1 DEF Plan, Steps
<1>3. \A l \in p.loops : l.first \in Nat /\ l.last \in Nat
  BY <1>1 DEF Plan
<1>4. ASSUME NEW i \in Steps(p) PROVE Stretched(p, i) \in Nat
  BY <1>2, <1>3 DEF Stretched
<1> QED
  BY <1>1, <1>2, <1>3, <1>4 DEF Plan

LEMMA PinnedAreSlots ==
    ASSUME NEW p \in Plans
    PROVE  Pinned(p) \subseteq Slot
<1>1. p \in Plan
  BY PlanAssumption
<1>2. p.args \subseteq Slot /\ p.copies \subseteq Slot
  BY <1>1 DEF Plan
<1>3. ASSUME NEW l \in p.loops PROVE LoopSlots(l) \subseteq Slot
  <2>1. /\ \A c \in l.carry : {c.a, c.b, c.init, c.final} \subseteq Slot
        /\ \A x \in l.xs \cup l.ys : {x.slice, x.whole} \subseteq Slot
    BY <1>1 DEF Plan
  <2> QED
    BY <2>1 DEF LoopSlots
<1> QED
  BY <1>2, <1>3 DEF Pinned

\* A slot without a buffer that is not pinned has not been touched yet.
LEMMA FirstTouch ==
    ASSUME Types, Placed, pc \in {"donate", "place"},
           NEW t \in Slot, slotBuffer[t] = None,
           NEW j \in Steps(plan), t \in Touches(plan, j), t \notin pinned
    PROVE  j >= k
<1>1. j \in Nat /\ k \in Nat /\ Steps(plan) \subseteq Nat
  BY PlanFacts DEF Types
<1>2. ASSUME NEW i \in Steps(plan), t \in plan.steps[i].outs PROVE i >= k
  BY <1>1, <1>2 DEF Placed
<1>3. CASE t \in plan.steps[j].ins
  <2>1. ~ReadUnwritten(plan, t)
    BY DEF Types, Pinned
  <2>2. PICK i \in Steps(plan) : i < j /\ t \in plan.steps[i].outs
    BY <1>3, <2>1 DEF ReadUnwritten
  <2> QED
    BY <1>1, <1>2, <2>2
<1> QED
  BY <1>2, <1>3 DEF Touches

\* The step that a step is stretched to: the last one of its loop, or itself.
LEMMA OwnLoop ==
    ASSUME NEW p \in Plans, NEW i \in Steps(p)
    PROVE  /\ \A l \in p.loops : In(l, i) => Stretched(p, i) = l.last
           /\ (\A l \in p.loops : ~In(l, i)) => Stretched(p, i) = i
           /\ \A l \in p.loops : In(l, Stretched(p, i)) <=> In(l, i)
           /\ Stretched(p, i) \in Steps(p) /\ Stretched(p, i) >= i
<1>1. p \in Plan /\ Steps(p) = 1..Len(p.steps) /\ Len(p.steps) \in Nat
  <2>1. p \in Plan
    BY PlanAssumption
  <2>2. p.steps \in Seq([ins : SUBSET Slot, outs : SUBSET Slot])
    BY <2>1 DEF Plan
  <2> HIDE DEF Plan
  <2> QED
    BY <2>1, <2>2 DEF Steps
<1>2. \A l \in p.loops : l.first \in Nat /\ l.last \in Nat /\ l.first \in 1..l.last /\ l.last <= Len(p.steps)
  BY <1>1, PlanAssumption DEF Plan
<1>3. \A l, m \in p.loops : l # m => l.last < m.first \/ m.last < l.first
  BY PlanAssumption
<1>4. \A l, m \in p.loops, j \in Nat : In(l, j) /\ In(m, j) => l = m
  BY <1>2, <1>3 DEF In
<1>5. CASE \A l \in p.loops : ~In(l, i)
  BY <1>1, <1>5 DEF Stretched
<1>6. ASSUME NEW l \in p.loops, In(l, i) PROVE Stretched(p, i) = l.last
  <2>1. \A m \in p.loops : In(m, i) => m = l
    BY <1>1, <1>4, <1>6
  <2> QED
    BY <1>6, <2>1 DEF Stretched
<1>7. ASSUME NEW l \in p.loops, In(l, i)
      PROVE  /\ \A m \in p.loops : In(m, l.last) <=> In(m, i)
             /\ l.last \in Steps(p) /\ l.last >= i
  <2>1. In(l, l.last) /\ l.last \in Nat
    BY <1>2 DEF In
  <2>2. \A m \in p.loops : In(m, l.last) <=> m = l
    BY <1>4, <2>1
  <2>3. \A m \in p.loops : In(m, i) <=> m = l
    BY <1>1, <1>4, <1>7
  <2>4. l.last \in Steps(p) /\ l.last >= i
    BY <1>1, <1>2, <1>7 DEF In
  <2> QED
    BY <2>2, <2>3, <2>4
<1> QED
  BY <1>1, <1>5, <1>6, <1>7

\* A step that may take over a buffer is in no loop.
LEMMA DonatedOutside ==
    ASSUME NEW p \in Plans, p = plan, pinned = Pinned(p), NEW n \in Steps(p),
           NEW s, NEW t, t \notin pinned, LastUse(p, s, n), Def(p, t, n)
    PROVE  \A l \in p.loops : ~In(l, n)
<1> SUFFICES ASSUME NEW l \in p.loops, In(l, n) PROVE FALSE
  OBVIOUS
<1>1. l.first = n
  BY DEF Def
<1>2. PICK j \in Steps(p) : Stretched(p, j) = n
  BY DEF LastUse
<1>3. l.last = n
  BY <1>2, OwnLoop
<1>4. t \in LoopSlots(l)
  BY <1>1, <1>3, PlanAssumption DEF Def
<1> QED
  BY <1>4 DEF Pinned

LEMMA InitBuffers == Init => BufferInv
<1> SUFFICES ASSUME Init PROVE BufferInv
  OBVIOUS
<1>1. None \notin Slot
  BY PlanAssumption
<1>2. /\ plan.bytes \in [Slot -> Int] /\ Steps(plan) \subseteq Nat /\ pinned \subseteq Slot
  BY PlanFacts, PinnedAreSlots DEF Init
<1>3. Types
  BY <1>1, <1>2 DEF Init, Types
<1>4. \A s \in Slot : slotBuffer[s] = IF s \in pinned THEN s ELSE None
  BY DEF Init
<1>5. PinnedApart
  BY <1>1, <1>2, <1>4 DEF PinnedApart
<1>6. NamedAfter
  BY <1>1, <1>4 DEF NamedAfter
<1>7. Placed
  <2>1. Steps(plan) \subseteq Nat \ {0}
    BY PlanAssumption DEF Init, Plan, Steps
  <2> QED
    BY <2>1 DEF Init, Placed
<1>8. FreeIsDead /\ DisownedIsDead /\ AtStep /\ Todo
  BY <1>1 DEF Init, FreeIsDead, DisownedIsDead, AtStep, Todo
<1>9. NoOverlap
  BY <1>1, <1>4 DEF NoOverlap
<1>10. BigEnough
  BY <1>1, <1>2 DEF Init, BigEnough
<1> QED
  BY <1>3, <1>5, <1>6, <1>7, <1>8, <1>9, <1>10 DEF BufferInv

LEMMA ExpireBuffers == BufferInv /\ Expire => BufferInv'
<1> SUFFICES ASSUME BufferInv, Expire PROVE BufferInv'
  OBVIOUS
<1>1. /\ plan' = plan /\ pinned' = pinned /\ k' = k /\ todo' = todo
      /\ slotBuffer' = slotBuffer /\ bufferBytes' = bufferBytes /\ bufferOwner' = bufferOwner
      /\ pc = "expire" /\ pc' = "donate" /\ k \in Steps(plan)
  BY DEF Expire
<1>2. k \in Nat /\ Steps(plan) \subseteq Nat /\ \A i \in Steps(plan) : Stretched(plan, i) \in Nat
  BY PlanFacts DEF BufferInv, Types
<1>3. ASSUME NEW s \in Slot, Expires(s), slotBuffer[s] # None, bufferOwner[slotBuffer[s]] = s,
             NEW t \in Slot, slotBuffer[t] = slotBuffer[s]
      PROVE  Dead(t, k)
  <2>1. CASE t = s
    BY <1>2, <1>3, <2>1 DEF Expires, LastUse, Dead
  <2>2. CASE t # s
    BY <1>1, <1>3, <2>2 DEF BufferInv, DisownedIsDead
  <2> QED
    BY <2>1, <2>2
<1>4. ASSUME NEW b \in freeList'
      PROVE  /\ b \in Slot /\ b \notin pinned /\ slotBuffer[b] = b
             /\ \A s \in Slot : slotBuffer[s] = b => Dead(s, k)
  <2>1. CASE b \in freeList
    BY <1>1, <2>1 DEF BufferInv, FreeIsDead, Types
  <2>2. CASE b \notin freeList
    <3>1. PICK s \in Slot : /\ Expires(s) /\ slotBuffer[s] # None
                            /\ bufferOwner[slotBuffer[s]] = s /\ b = slotBuffer[s]
      BY <1>4, <2>2 DEF Expire
    <3>2. b \notin pinned
      BY <3>1 DEF Expires, BufferInv, PinnedApart
    <3>3. b \in Slot /\ slotBuffer[b] = b
      BY <3>1 DEF BufferInv, Types, NamedAfter
    <3> QED
      BY <1>3, <3>1, <3>2, <3>3
  <2> QED
    BY <2>1, <2>2
<1>5. Types'
  BY <1>1, <1>4 DEF BufferInv, Types
<1>6. PinnedApart' /\ NamedAfter'
  BY <1>1 DEF BufferInv, PinnedApart, NamedAfter
<1>7. Placed'
  BY <1>1 DEF BufferInv, Placed
<1>8. FreeIsDead'
  BY <1>1, <1>4 DEF FreeIsDead, Dead
<1>9. DisownedIsDead'
  BY <1>1 DEF BufferInv, DisownedIsDead, Dead
<1>10. AtStep' /\ Todo'
  BY <1>1 DEF AtStep, Todo
<1>11. NoOverlap' /\ BigEnough'
  BY <1>1 DEF BufferInv, NoOverlap, BigEnough, DeadBefore
<1> QED
  BY <1>5, <1>6, <1>7, <1>8, <1>9, <1>10, <1>11 DEF BufferInv

\* Giving slot t a buffer whose slots are all dead before t, or a new one.
LEMMA GivenBuffers ==
    ASSUME BufferInv, NEW t \in Slot, slotBuffer[t] = None,
           NEW b \in Slot, b \notin pinned, b = t \/ slotBuffer[b] = b,
           \A s \in Slot : slotBuffer[s] = b => DeadBefore(s, t),
           plan' = plan, pinned' = pinned,
           slotBuffer' = [slotBuffer EXCEPT ![t] = b],
           bufferBytes' = [bufferBytes EXCEPT ![b] = Larger(bufferBytes[b], plan.bytes[t])]
    PROVE  /\ PinnedApart' /\ NamedAfter' /\ NoOverlap' /\ BigEnough'
           /\ slotBuffer' \in [Slot -> Slot \cup {None}] /\ bufferBytes' \in [Slot -> Int]
<1>1. None \notin Slot /\ plan.bytes \in [Slot -> Int]
  BY PlanAssumption, PlanFacts DEF BufferInv, Types
<1>2. slotBuffer \in [Slot -> Slot \cup {None}] /\ bufferBytes \in [Slot -> Int]
  BY DEF BufferInv, Types
<1>3. \A s \in Slot : slotBuffer'[s] = IF s = t THEN b ELSE slotBuffer[s]
  BY <1>2
<1>4. t \notin pinned /\ \A s \in Slot : slotBuffer[s] = b => s \notin pinned
  BY <1>1 DEF BufferInv, PinnedApart
<1>5. /\ slotBuffer' \in [Slot -> Slot \cup {None}] /\ bufferBytes' \in [Slot -> Int]
  BY <1>1, <1>2 DEF Larger
<1>6. PinnedApart'
  BY <1>3, <1>4 DEF BufferInv, PinnedApart
<1>7. NamedAfter'
  <2>1. ASSUME NEW s \in Slot, slotBuffer'[s] # None
        PROVE  slotBuffer'[slotBuffer'[s]] = slotBuffer'[s]
    <3>1. CASE s = t
      BY <1>3, <3>1
    <3>2. CASE s # t
      <4>1. slotBuffer[s] \in Slot /\ slotBuffer[slotBuffer[s]] = slotBuffer[s]
        BY <1>2, <1>3, <2>1, <3>2 DEF BufferInv, NamedAfter
      <4> QED
        BY <1>1, <1>3, <3>2, <4>1
    <3> QED
      BY <3>1, <3>2
  <2> QED
    BY <2>1 DEF NamedAfter
<1>8. \A s, u \in Slot : DeadBefore(s, u)' <=> DeadBefore(s, u)
  BY DEF DeadBefore
<1>9. NoOverlap'
  <2>1. ASSUME NEW s \in Slot, NEW u \in Slot, s # u,
               slotBuffer'[s] = slotBuffer'[u], slotBuffer'[s] # None
        PROVE  {s, u} \cap pinned = {} /\ (DeadBefore(s, u) \/ DeadBefore(u, s))
    <3>1. CASE s # t /\ u # t
      BY <1>3, <2>1, <3>1 DEF BufferInv, NoOverlap
    <3>2. CASE s = t
      BY <1>3, <1>4, <2>1, <3>2
    <3>3. CASE u = t
      BY <1>3, <1>4, <2>1, <3>3
    <3> QED
      BY <3>1, <3>2, <3>3
  <2> QED
    BY <1>8, <2>1 DEF NoOverlap
<1>10. BigEnough'
  <2>1. ASSUME NEW c \in Slot PROVE bufferBytes'[c] >= bufferBytes[c] /\ bufferBytes'[c] \in Int
    BY <1>1, <1>2, <1>5 DEF Larger
  <2>2. bufferBytes'[b] >= plan.bytes[t]
    BY <1>1, <1>2 DEF Larger
  <2>3. ASSUME NEW s \in Slot, s # t, slotBuffer[s] # None
        PROVE  bufferBytes'[slotBuffer[s]] >= plan.bytes[s]
    <3>1. slotBuffer[s] \in Slot /\ bufferBytes[slotBuffer[s]] >= plan.bytes[s]
      BY <1>2, <2>3 DEF BufferInv, BigEnough
    <3> QED
      BY <1>1, <1>2, <2>1, <3>1
  <2> QED
    BY <1>3, <2>2, <2>3 DEF BigEnough
<1> QED
  BY <1>5, <1>6, <1>7, <1>9, <1>10

LEMMA DonateBuffers == BufferInv /\ Donate => BufferInv'
<1> SUFFICES ASSUME BufferInv, Donate PROVE BufferInv'
  OBVIOUS
<1>1. /\ plan' = plan /\ pinned' = pinned /\ k' = k /\ freeList' = freeList
      /\ pc = "donate" /\ pc' = "place" /\ todo' = plan.steps[k].outs
  BY DEF Donate
<1>2. /\ k \in Nat /\ k \in Steps(plan) /\ Steps(plan) \subseteq Nat
      /\ \A i \in Steps(plan) : Stretched(plan, i) \in Nat
  BY <1>1, PlanFacts DEF BufferInv, Types, AtStep
<1>3. \A s \in Slot, n \in Nat : Dead(s, n)' <=> (\A i \in Steps(plan) : s \in Touches(plan, i) => Stretched(plan, i) < n)
  BY <1>1 DEF Dead
<1>4. AtStep' /\ Todo'
  BY <1>1, <1>2 DEF AtStep, Todo
<1>5. ASSUME NEW d \in plan.donations, d[1] = k, Donates(d[2], d[3]),
             slotBuffer' = [slotBuffer EXCEPT ![d[3]] = slotBuffer[d[2]]],
             bufferBytes' = [bufferBytes EXCEPT ![slotBuffer[d[2]]] =
                                Larger(bufferBytes[slotBuffer[d[2]]], plan.bytes[d[3]])],
             bufferOwner' = [bufferOwner EXCEPT ![slotBuffer[d[2]]] = d[3]]
      PROVE  BufferInv'
  <2> DEFINE from == d[2]
             to == d[3]
             b == slotBuffer[from]
  <2>1. d = << k, from, to >> /\ from \in Slot /\ to \in Slot
    BY <1>5, PlanFacts DEF BufferInv, Types
  <2>2. /\ from \notin pinned /\ to \notin pinned /\ slotBuffer[to] = None
        /\ LastUse(plan, from, k) /\ Def(plan, to, k) /\ b # None /\ bufferOwner[b] = from
    BY <1>5 DEF Donates
  <2> HIDE DEF from, to
  <2>3. b \in Slot /\ b \notin pinned /\ slotBuffer[b] = b
    BY <2>1, <2>2 DEF BufferInv, Types, PinnedApart, NamedAfter
  <2>4. \A j \in Steps(plan) : to \in Touches(plan, j) => j >= k
    BY <1>1, <2>1, <2>2, FirstTouch DEF BufferInv
  <2>5. ASSUME NEW s \in Slot, slotBuffer[s] = b, s # from PROVE Dead(s, k)
    BY <1>1, <2>2, <2>5 DEF BufferInv, DisownedIsDead
  <2>6. ASSUME NEW s \in Slot, slotBuffer[s] = b PROVE DeadBefore(s, to)
    <3>1. CASE s # from
      BY <1>2, <2>4, <2>5, <2>6, <3>1 DEF Dead, DeadBefore
    <3>2. CASE s = from
      <4>1. \A i \in Steps(plan) : from \in Touches(plan, i) => Stretched(plan, i) <= k
        BY <2>2 DEF LastUse
      <4>2. << k, from, to >> \in plan.donations
        BY <1>5, <2>1
      <4>3. \A l \in plan.loops : ~In(l, k)
        BY <1>1, <1>2, <2>1, <2>2, DonatedOutside DEF BufferInv, Types
      <4>4. ASSUME NEW i \in Steps(plan), from \in Touches(plan, i), ~(Stretched(plan, i) < k)
            PROVE  i = k
        <5>1. Stretched(plan, i) = k
          BY <1>2, <4>1, <4>4
        <5> QED
          BY <1>2, <4>3, <5>1, OwnLoop DEF BufferInv, Types
      <4>5. ASSUME NEW i \in Steps(plan), from \in Touches(plan, i), NEW j \in Steps(plan), j >= k
            PROVE  Stretched(plan, i) < j \/ (i = k /\ j = k)
        BY <1>2, <4>1, <4>4, <4>5
      <4> QED
        BY <2>4, <3>2, <4>2, <4>3, <4>5 DEF DeadBefore
    <3> QED
      BY <3>1, <3>2
  <2>7. /\ slotBuffer' = [slotBuffer EXCEPT ![to] = b]
        /\ bufferBytes' = [bufferBytes EXCEPT ![b] = Larger(bufferBytes[b], plan.bytes[to])]
        /\ bufferOwner' = [bufferOwner EXCEPT ![b] = to]
    BY <1>5 DEF from, to
  <2> HIDE DEF b
  <2>8. /\ PinnedApart' /\ NamedAfter' /\ NoOverlap' /\ BigEnough'
        /\ slotBuffer' \in [Slot -> Slot \cup {None}] /\ bufferBytes' \in [Slot -> Int]
    BY <1>1, <2>1, <2>2, <2>3, <2>6, <2>7, GivenBuffers
  <2>9. Types'
    BY <1>1, <2>1, <2>3, <2>7, <2>8 DEF BufferInv, Types
  <2>10. \A s \in Slot : slotBuffer'[s] = IF s = to THEN b ELSE slotBuffer[s]
    BY <2>7 DEF BufferInv, Types
  <2>11. Placed'
    BY <1>1, <1>2, <2>3, <2>10, PlanAssumption DEF BufferInv, Placed
  <2>12. b \notin freeList
    <3>1. ~Dead(from, k)
      BY <1>2, <2>2 DEF LastUse, Dead
    <3>2. slotBuffer[from] = b
      BY DEF b
    <3> QED
      BY <1>1, <2>1, <3>1, <3>2 DEF BufferInv, FreeIsDead
  <2>13. FreeIsDead'
    <3>1. ASSUME NEW c \in freeList
          PROVE  /\ c \notin pinned /\ slotBuffer'[c] = c
                 /\ \A s \in Slot : slotBuffer'[s] = c => Dead(s, k)
      <4>1. /\ c \in Slot /\ c \notin pinned /\ slotBuffer[c] = c
            /\ \A s \in Slot : slotBuffer[s] = c => Dead(s, k)
        BY <1>1 DEF BufferInv, FreeIsDead, Types
      <4> QED
        BY <2>2, <2>10, <2>12, <4>1, PlanAssumption
    <3> QED
      BY <1>1, <3>1 DEF FreeIsDead, Dead
  <2>14. DisownedIsDead'
    <3>1. ASSUME NEW s \in Slot, slotBuffer'[s] # None, bufferOwner'[slotBuffer'[s]] # s
          PROVE  \A i \in Steps(plan) : s \in Touches(plan, i) => Stretched(plan, i) < k + 1
      <4>1. s # to
        BY <2>1, <2>3, <2>7, <2>10, <3>1 DEF BufferInv, Types
      <4>2. CASE s = from
        BY <1>2, <2>2, <4>2 DEF LastUse
      <4>3. CASE s # from
        <5>1. slotBuffer[s] = slotBuffer'[s] /\ slotBuffer[s] \in Slot
          BY <2>10, <3>1, <4>1 DEF BufferInv, Types
        <5>2. bufferOwner[slotBuffer[s]] # s
          BY <2>2, <2>7, <3>1, <4>3, <5>1 DEF BufferInv, Types
        <5>3. Dead(s, k)
          BY <1>1, <3>1, <5>1, <5>2 DEF BufferInv, DisownedIsDead
        <5> QED
          BY <1>2, <5>3 DEF Dead
      <4> QED
        BY <4>2, <4>3
    <3> QED
      BY <1>1, <3>1 DEF DisownedIsDead, Dead
  <2> QED
    BY <1>4, <2>8, <2>9, <2>11, <2>13, <2>14 DEF BufferInv
<1>6. ASSUME UNCHANGED << slotBuffer, bufferBytes, bufferOwner >> PROVE BufferInv'
  <2>1. Types' /\ PinnedApart' /\ NamedAfter'
    BY <1>1, <1>6 DEF BufferInv, Types, PinnedApart, NamedAfter
  <2>2. Placed'
    BY <1>1, <1>6 DEF BufferInv, Placed
  <2>3. FreeIsDead'
    BY <1>1, <1>6 DEF BufferInv, FreeIsDead, Dead
  <2>4. DisownedIsDead'
    <3>1. \A s \in Slot : Dead(s, k) => Dead(s, k + 1)
      BY <1>2 DEF Dead
    <3> QED
      BY <1>1, <1>6, <3>1 DEF BufferInv, DisownedIsDead, Dead
  <2>5. NoOverlap' /\ BigEnough'
    BY <1>1, <1>6 DEF BufferInv, NoOverlap, BigEnough, DeadBefore
  <2> QED
    BY <1>4, <2>1, <2>2, <2>3, <2>4, <2>5 DEF BufferInv
<1> QED
  BY <1>5, <1>6 DEF Donate

\* A step that places nothing and frees nothing.
LEMMA KeptBuffers ==
    ASSUME BufferInv, UNCHANGED << plan, pinned, slotBuffer, bufferBytes, bufferOwner >>
    PROVE  /\ PinnedApart' /\ NamedAfter' /\ NoOverlap' /\ BigEnough'
           /\ \A s \in Slot, n \in Nat : Dead(s, n)' <=> Dead(s, n)
  BY DEF BufferInv, PinnedApart, NamedAfter, NoOverlap, BigEnough, DeadBefore, Dead

LEMMA PlaceBuffers ==
    ASSUME BufferInv, NEW t \in Slot, Place(t)
    PROVE  BufferInv'
<1>1. /\ plan' = plan /\ pinned' = pinned /\ k' = k /\ pc = "place" /\ pc' = "place"
      /\ t \in todo /\ todo' = todo \ {t}
  BY DEF Place
<1>2. /\ k \in Nat /\ k \in Steps(plan) /\ Steps(plan) \subseteq Nat
      /\ \A i \in Steps(plan) : Stretched(plan, i) \in Nat
  BY <1>1, PlanFacts DEF BufferInv, Types, AtStep
<1>3. AtStep' /\ Todo'
  BY <1>1, <1>2 DEF BufferInv, AtStep, Todo
<1>4. None \notin Slot
  BY PlanAssumption
<1>5. CASE slotBuffer[t] # None /\ UNCHANGED << slotBuffer, bufferBytes, bufferOwner, freeList >>
  <2>1. Types' /\ FreeIsDead' /\ DisownedIsDead'
    BY <1>1, <1>5 DEF BufferInv, Types, FreeIsDead, DisownedIsDead, Dead
  <2>2. Placed'
    BY <1>1, <1>5 DEF BufferInv, Placed
  <2> QED
    BY <1>1, <1>3, <1>5, <2>1, <2>2, KeptBuffers DEF BufferInv
<1>6. ASSUME slotBuffer[t] = None, NEW b \in Slot, GiveBuffer(t, b),
             (b = t /\ freeList = {}) \/ b \in freeList,
             freeList' = freeList \ {b}
      PROVE  BufferInv'
  <2>1. t \notin pinned
    BY <1>4, <1>6 DEF BufferInv, PinnedApart
  <2>2. ASSUME b \in freeList
        PROVE  b \notin pinned /\ slotBuffer[b] = b /\ \A s \in Slot : slotBuffer[s] = b => Dead(s, k)
    BY <1>1, <2>2 DEF BufferInv, FreeIsDead
  <2>3. ASSUME b \notin freeList, NEW s \in Slot PROVE slotBuffer[s] # b
    BY <1>4, <1>6, <2>3 DEF BufferInv, NamedAfter
  <2>4. b \notin pinned /\ (b = t \/ slotBuffer[b] = b)
    BY <1>6, <2>1, <2>2
  <2>5. \A j \in Steps(plan) : t \in Touches(plan, j) => j >= k
    BY <1>1, <1>6, <2>1, FirstTouch DEF BufferInv
  <2>6. ASSUME NEW s \in Slot, slotBuffer[s] = b PROVE Dead(s, k) /\ DeadBefore(s, t)
    <3>1. Dead(s, k)
      BY <2>2, <2>3, <2>6
    <3> QED
      BY <1>2, <2>5, <3>1 DEF Dead, DeadBefore
  <2>7. /\ slotBuffer' = [slotBuffer EXCEPT ![t] = b]
        /\ bufferBytes' = [bufferBytes EXCEPT ![b] = Larger(bufferBytes[b], plan.bytes[t])]
        /\ bufferOwner' = [bufferOwner EXCEPT ![b] = t]
    BY <1>6 DEF GiveBuffer
  <2>8. /\ PinnedApart' /\ NamedAfter' /\ NoOverlap' /\ BigEnough'
        /\ slotBuffer' \in [Slot -> Slot \cup {None}] /\ bufferBytes' \in [Slot -> Int]
    BY <1>1, <1>6, <2>4, <2>6, <2>7, GivenBuffers
  <2>9. Types'
    BY <1>1, <1>6, <2>7, <2>8 DEF BufferInv, Types
  <2>10. \A s \in Slot : slotBuffer'[s] = IF s = t THEN b ELSE slotBuffer[s]
    BY <2>7 DEF BufferInv, Types
  <2>11. Placed'
    BY <1>1, <1>2, <1>4, <2>10 DEF BufferInv, Placed
  <2>12. FreeIsDead'
    <3>1. ASSUME NEW c \in freeList'
          PROVE  /\ c \notin pinned /\ slotBuffer'[c] = c
                 /\ \A s \in Slot : slotBuffer'[s] = c => Dead(s, k)
      <4>1. c \in freeList /\ c # b
        BY <1>6, <3>1
      <4>2. /\ c \in Slot /\ c \notin pinned /\ slotBuffer[c] = c
            /\ \A s \in Slot : slotBuffer[s] = c => Dead(s, k)
        BY <1>1, <4>1 DEF BufferInv, FreeIsDead, Types
      <4> QED
        BY <1>4, <1>6, <2>10, <4>1, <4>2
    <3> QED
      BY <1>1, <3>1 DEF FreeIsDead, Dead
  <2>13. DisownedIsDead'
    <3>1. ASSUME NEW s \in Slot, slotBuffer'[s] # None, bufferOwner'[slotBuffer'[s]] # s
          PROVE  \A i \in Steps(plan) : s \in Touches(plan, i) => Stretched(plan, i) < k + 1
      <4>1. s # t
        BY <1>6, <2>7, <2>10, <3>1 DEF BufferInv, Types
      <4>2. slotBuffer[s] = slotBuffer'[s] /\ slotBuffer[s] \in Slot
        BY <2>10, <3>1, <4>1 DEF BufferInv, Types
      <4>3. CASE slotBuffer[s] = b
        BY <1>2, <2>6, <4>3 DEF Dead
      <4>4. CASE slotBuffer[s] # b
        <5>1. bufferOwner[slotBuffer[s]] # s
          BY <2>7, <3>1, <4>2, <4>4 DEF BufferInv, Types
        <5>2. Dead(s, k + 1)
          BY <1>1, <3>1, <4>2, <5>1 DEF BufferInv, DisownedIsDead
        <5> QED
          BY <5>2 DEF Dead
      <4> QED
        BY <4>3, <4>4
    <3> QED
      BY <1>1, <3>1 DEF DisownedIsDead, Dead
  <2> QED
    BY <1>3, <2>8, <2>9, <2>11, <2>12, <2>13 DEF BufferInv
<1>7. CASE slotBuffer[t] = None /\ freeList = {} /\ GiveBuffer(t, t) /\ UNCHANGED freeList
  BY <1>6, <1>7
<1>8. ASSUME NEW b \in freeList, slotBuffer[t] = None, GiveBuffer(t, b), freeList' = freeList \ {b}
      PROVE  BufferInv'
  BY <1>6, <1>8 DEF BufferInv, Types
<1> QED
  BY <1>5, <1>7, <1>8 DEF Place

LEMMA StepPlacedBuffers == BufferInv /\ StepPlaced => BufferInv'
<1> SUFFICES ASSUME BufferInv, StepPlaced PROVE BufferInv'
  OBVIOUS
<1>1. /\ plan' = plan /\ pinned' = pinned /\ k' = k + 1 /\ todo' = todo /\ todo = {}
      /\ pc = "place" /\ pc' = "expire" /\ freeList' = freeList
      /\ UNCHANGED << slotBuffer, bufferBytes, bufferOwner >>
  BY DEF StepPlaced, assignVars
<1>2. /\ k \in Nat /\ k \in Steps(plan) /\ Steps(plan) \subseteq Nat
      /\ \A i \in Steps(plan) : Stretched(plan, i) \in Nat
  BY <1>1, PlanFacts DEF BufferInv, Types, AtStep
<1>3. Types' /\ AtStep' /\ Todo'
  BY <1>1, <1>2 DEF BufferInv, Types, AtStep, Todo
<1>4. Placed'
  BY <1>1, <1>2 DEF BufferInv, Placed
<1>5. FreeIsDead'
  <2>1. \A s \in Slot : Dead(s, k) => Dead(s, k + 1)
    BY <1>2 DEF Dead
  <2> QED
    BY <1>1, <2>1 DEF BufferInv, FreeIsDead, Dead
<1>6. DisownedIsDead'
  BY <1>1 DEF BufferInv, DisownedIsDead, Dead
<1> QED
  BY <1>1, <1>3, <1>4, <1>5, <1>6, KeptBuffers DEF BufferInv

\* The slots that no step touches are given the buffers made for them.
LEMMA AssignedBuffers == BufferInv /\ Assigned => BufferInv'
<1> SUFFICES ASSUME BufferInv, Assigned PROVE BufferInv'
  OBVIOUS
<1>1. /\ plan' = plan /\ pinned' = pinned /\ k' = 1 /\ freeList' = freeList
      /\ bufferOwner' = bufferOwner /\ pc = "expire" /\ pc' = "run"
      /\ k \notin Steps(plan)
      /\ slotBuffer' = [s \in Slot |-> IF slotBuffer[s] = None THEN s ELSE slotBuffer[s]]
      /\ bufferBytes' = [b \in Slot |-> IF slotBuffer[b] = None THEN plan.bytes[b] ELSE bufferBytes[b]]
  BY DEF Assigned, Completed
<1>2. /\ None \notin Slot /\ plan.bytes \in [Slot -> Int]
      /\ slotBuffer \in [Slot -> Slot \cup {None}] /\ bufferBytes \in [Slot -> Int]
  BY PlanAssumption, PlanFacts DEF BufferInv, Types
<1>3. Types'
  BY <1>1, <1>2 DEF BufferInv, Types
<1>4. AtStep' /\ Todo' /\ FreeIsDead' /\ DisownedIsDead'
  BY <1>1 DEF AtStep, Todo, FreeIsDead, DisownedIsDead
<1>5. Placed'
  BY <1>1 DEF Placed
<1>6. ASSUME NEW s \in Slot, NEW u \in Slot, slotBuffer[u] = None, slotBuffer'[s] = slotBuffer'[u]
      PROVE  s = u
  BY <1>1, <1>2, <1>6 DEF BufferInv, NamedAfter
<1>7. \A s \in Slot : slotBuffer[s] # None =>
          slotBuffer'[s] = slotBuffer[s] /\ slotBuffer[s] \in Slot
          /\ slotBuffer[slotBuffer[s]] = slotBuffer[s]
  BY <1>1, <1>2 DEF BufferInv, NamedAfter
<1>8. PinnedApart'
  BY <1>1, <1>2, <1>7 DEF BufferInv, PinnedApart
<1>9. NamedAfter'
  BY <1>1, <1>2, <1>7 DEF NamedAfter
<1>10. NoOverlap'
  <2>1. ASSUME NEW s \in Slot, NEW u \in Slot, s # u, slotBuffer'[s] = slotBuffer'[u]
        PROVE  {s, u} \cap pinned = {} /\ (DeadBefore(s, u) \/ DeadBefore(u, s))
    <3>1. slotBuffer[s] # None /\ slotBuffer[u] # None
      BY <1>6, <2>1
    <3> QED
      BY <1>7, <2>1, <3>1 DEF BufferInv, NoOverlap
  <2>2. \A s, u \in Slot : DeadBefore(s, u)' <=> DeadBefore(s, u)
    BY <1>1 DEF DeadBefore
  <2> QED
    BY <1>1, <2>1, <2>2 DEF NoOverlap
<1>11. BigEnough'
  <2>1. ASSUME NEW s \in Slot, slotBuffer[s] = None
        PROVE  bufferBytes'[slotBuffer'[s]] >= plan.bytes[s]
    BY <1>1, <1>2, <2>1
  <2>2. ASSUME NEW s \in Slot, slotBuffer[s] # None
        PROVE  bufferBytes'[slotBuffer'[s]] >= plan.bytes[s]
    BY <1>1, <1>2, <1>7, <2>2 DEF BufferInv, BigEnough
  <2> QED
    BY <1>1, <2>1, <2>2 DEF BigEnough
<1> QED
  BY <1>3, <1>4, <1>5, <1>8, <1>9, <1>10, <1>11 DEF BufferInv

\* The executor leaves the assignment alone.
LEMMA ExecutedBuffers ==
    ASSUME BufferInv, UNCHANGED << plan, pinned, assignVars >>,
           k' \in Nat, pc' \notin {"expire", "donate", "place"}
    PROVE  BufferInv'
<1>1. Types' /\ Placed' /\ FreeIsDead' /\ DisownedIsDead' /\ AtStep' /\ Todo'
  BY DEF BufferInv, Types, Placed, FreeIsDead, DisownedIsDead, AtStep, Todo, assignVars
<1> QED
  BY <1>1, KeptBuffers DEF BufferInv, assignVars

LEMMA NextBuffers == BufferInv /\ [Next]_vars => BufferInv'
<1> SUFFICES ASSUME BufferInv, [Next]_vars PROVE BufferInv'
  OBVIOUS
<1>1. plan \in Plans /\ k \in Nat
  BY DEF BufferInv, Types
<1>2. \A l \in plan.loops : l.first \in Nat /\ l.last \in Nat
  BY <1>1, PlanFacts
<1>3. CASE Expire \/ Donate \/ StepPlaced \/ Assigned
  BY <1>3, ExpireBuffers, DonateBuffers, StepPlacedBuffers, AssignedBuffers
<1>4. ASSUME NEW s \in Slot, Place(s) PROVE BufferInv'
  BY <1>4, PlaceBuffers
<1>5. CASE RunStep
  <2>1. /\ UNCHANGED << plan, pinned, assignVars >> /\ k' \in Nat
        /\ pc' \in {"run", "round", "turn"}
    BY <1>1, <1>5 DEF RunStep
  <2> QED
    BY <2>1, ExecutedBuffers
<1>6. CASE PlanDone
  <2>1. UNCHANGED << plan, pinned, assignVars >> /\ k' \in Nat /\ pc' = "done"
    BY <1>1, <1>6 DEF PlanDone
  <2> QED
    BY <2>1, ExecutedBuffers
<1>7. ASSUME NEW l \in plan.loops, StartLoop(l) \/ NextRound(l) \/ EndRound(l) \/ LoopEnds(l)
      PROVE  BufferInv'
  <2>1. /\ UNCHANGED << plan, pinned, assignVars >> /\ k' \in Nat
        /\ pc' \in {"again", "round", "run"}
    BY <1>1, <1>2, <1>7 DEF StartLoop, NextRound, EndRound, LoopEnds
  <2> QED
    BY <2>1, ExecutedBuffers
<1>8. CASE UNCHANGED vars
  BY <1>8, KeptBuffers
     DEF vars, BufferInv, Types, Placed, FreeIsDead, DisownedIsDead, AtStep, Todo, Dead
<1> QED
  BY <1>3, <1>4, <1>5, <1>6, <1>7, <1>8 DEF Next

(* Whatever the plan, slots that share a buffer are never needed at the     *)
(* same time (assignPlanBuffers).                                           *)
THEOREM PlanNoOverlap == Spec => []NoOverlap
<1>1. BufferInv => NoOverlap
  BY DEF BufferInv
<1> QED
  BY <1>1, InitBuffers, NextBuffers, PTL DEF Spec

(* Whatever the sizes, every slot fits into the buffer it is given (take    *)
(* and the donations of assignPlanBuffers).                                 *)
THEOREM PlanBigEnough == Spec => []BigEnough
<1>1. BufferInv => BigEnough
  BY DEF BufferInv
<1> QED
  BY <1>1, InitBuffers, NextBuffers, PTL DEF Spec
-----------------------------------------------------------------------------
(* The execution.  A plan holds what it needs: Fixed of the slots no step   *)
(* writes, Results of the pinned ones that are written, Needed of the ones  *)
(* that share a buffer and are still to be read, CarryIn and CarryOut of    *)
(* what a loop exchanges.  Only a write of a slot in the same buffer can    *)
(* take it away, and those are apart by NoOverlap.                          *)

Executing == pc \in {"run", "round", "turn", "again", "done"}
InLoop == pc \in {"round", "turn", "again"}
Has(s) == holds[bufs[s]] = s

\* Step j has been run, within a loop in this iteration.
Done(j) == j < k \/ (j = k /\ (pc = "turn" \/ (pc = "again" /\ round > 0)))

\* A carry has the two buffers made for its slots, any other slot its own.
Exchanged ==
    Executing =>
        /\ slotBuffer \in [Slot -> Slot] /\ bufs \in [Slot -> Slot]
        /\ \A s \in Slot \ Carried(plan) : bufs[s] = slotBuffer[s]
        /\ \A l \in plan.loops : \A c \in l.carry :
              \/ bufs[c.a] = c.a /\ bufs[c.b] = c.b
              \/ bufs[c.a] = c.b /\ bufs[c.b] = c.a

\* Where the execution is.
Somewhere ==
    /\ ~Executing => pc \in {"expire", "donate", "place"} /\ round = 0
    /\ Executing => k \in Nat \ {0} /\ round \in Nat
    /\ pc = "run" => round = 0 /\ \A l \in plan.loops : In(l, k) => k = l.first
    /\ pc = "done" => k \notin Steps(plan)
    /\ InLoop => \A l \in plan.loops : In(l, k) =>
          /\ round <= l.times
          /\ pc = "again" => k = IF round = 0 THEN l.first ELSE l.last
          /\ pc # "again" => round > 0
          /\ pc = "turn" => k = l.last
    /\ InLoop => \E l \in plan.loops : In(l, k)

Fixed == Executing => \A s \in pinned \ (Carried(plan) \cup Written(plan)) : Has(s)

Results ==
    Executing => \A j \in Steps(plan), s \in pinned \ Carried(plan) :
                    s \in plan.steps[j].outs /\ Done(j) => Has(s)

Needed ==
    Executing => \A i, j \in Steps(plan), s \in Slot \ pinned :
                    s \in plan.steps[j].outs /\ Done(j) /\ s \in Touches(plan, i) /\ Stretched(plan, i) >= k
                        => Has(s)

CarryIn == InLoop => \A l \in plan.loops : In(l, k) => \A c \in l.carry : Has(c.a)

CarryOut ==
    pc \in {"round", "turn"} => \A l \in plan.loops : In(l, k) =>
        \A c \in l.carry : \A j \in Steps(plan) : c.b \in plan.steps[j].outs /\ Done(j) => Has(c.b)

Contents == Fixed /\ Results /\ Needed /\ CarryIn /\ CarryOut

ExecInv == Exchanged /\ Somewhere /\ Contents

PlansSound == \A p \in Plans : SoundPlan(p)

\* What the lemmas about the execution use of the plan.
LEMMA SlotFacts ==
    ASSUME BufferInv
    PROVE  /\ plan \in Plans /\ pinned \subseteq Slot /\ None \notin Slot
           /\ Steps(plan) = 1..Len(plan.steps) /\ Len(plan.steps) \in Nat
           /\ \A i \in Steps(plan) : plan.steps[i].ins \subseteq Slot /\ plan.steps[i].outs \subseteq Slot
           /\ \A i \in Steps(plan) : Stretched(plan, i) \in Nat /\ Stretched(plan, i) >= i
           /\ \A l \in plan.loops : l.first \in Nat \ {0} /\ l.last \in Nat /\ l.times \in Nat
                                     /\ l.first <= l.last /\ l.last <= Len(plan.steps)
           /\ \A l, m \in plan.loops : l # m => l.last < m.first \/ m.last < l.first
           /\ plan.args \cup plan.copies \subseteq pinned
           /\ Carried(plan) \subseteq pinned
           /\ \A s \in Slot, i \in Steps(plan) : s \notin pinned /\ s \in plan.steps[i].ins =>
                 \E j \in Steps(plan) : j < i /\ s \in plan.steps[j].outs
<1>1. plan \in Plans /\ plan \in Plan /\ pinned = Pinned(plan) /\ None \notin Slot /\ pinned \subseteq Slot
  BY PlanAssumption, PinnedAreSlots DEF BufferInv, Types
<1>2. plan.steps \in Seq([ins : SUBSET Slot, outs : SUBSET Slot])
  BY <1>1 DEF Plan
<1>3. Steps(plan) = 1..Len(plan.steps) /\ Len(plan.steps) \in Nat
  BY <1>2 DEF Steps
<1>4. \A i \in Steps(plan) : plan.steps[i].ins \subseteq Slot /\ plan.steps[i].outs \subseteq Slot
  <2> DEFINE R == [ins : SUBSET Slot, outs : SUBSET Slot]
  <2>1. plan.steps \in Seq(R)
    BY <1>2
  <2>2. \A r \in R : r.ins \subseteq Slot /\ r.outs \subseteq Slot
    OBVIOUS
  <2> HIDE DEF R
  <2>3. \A i \in 1..Len(plan.steps) : plan.steps[i] \in R
    BY <2>1
  <2> QED
    BY <1>3, <2>2, <2>3
<1>5. \A i \in Steps(plan) : Stretched(plan, i) \in Nat /\ Stretched(plan, i) >= i
  BY <1>1, <1>3, OwnLoop
<1>6. \A l \in plan.loops : /\ l.first \in Nat \ {0} /\ l.last \in Nat /\ l.times \in Nat
                             /\ l.first <= l.last /\ l.last <= Len(plan.steps)
  <2>1. \A l \in plan.loops : l.first \in Nat /\ l.last \in Nat /\ l.times \in Nat
    BY <1>1 DEF Plan
  <2>2. \A l \in plan.loops : l.first \in 1..l.last /\ l.last <= Len(plan.steps)
    BY <1>1, PlanAssumption
  <2> QED
    BY <2>1, <2>2
<1>7. \A l, m \in plan.loops : l # m => l.last < m.first \/ m.last < l.first
  BY <1>1, PlanAssumption
<1>8. plan.args \cup plan.copies \subseteq pinned /\ \A l \in plan.loops : LoopSlots(l) \subseteq pinned
  BY <1>1 DEF Pinned
<1>9. Carried(plan) \subseteq pinned
  BY <1>8 DEF Carried, LoopSlots
<1>10. ASSUME NEW s \in Slot, NEW i \in Steps(plan), s \notin pinned, s \in plan.steps[i].ins
       PROVE  \E j \in Steps(plan) : j < i /\ s \in plan.steps[j].outs
  BY <1>1, <1>10 DEF Pinned, ReadUnwritten
<1> QED
  BY <1>1, <1>3, <1>4, <1>5, <1>6, <1>7, <1>8, <1>9, <1>10

LEMMA LoopSlotFacts ==
    ASSUME BufferInv, NEW l \in plan.loops
    PROVE  /\ \A c \in l.carry : {c.a, c.b, c.init, c.final} \subseteq pinned /\ {c.a, c.b} \subseteq Carried(plan)
           /\ \A x \in l.xs \cup l.ys : {x.slice, x.whole} \subseteq pinned
<1>1. LoopSlots(l) \subseteq pinned
  BY DEF BufferInv, Types, Pinned
<1> QED
  BY <1>1 DEF LoopSlots, Carried

\* Slots that share a buffer in the executor's table share it in the assignment.
LEMMA CarryApart ==
    ASSUME BufferInv, PlansSound, Exchanged, Executing,
           NEW s \in Carried(plan), NEW t \in Slot, s # t
    PROVE  bufs[s] # bufs[t]
<1>0. PICK l \in plan.loops : \E c \in l.carry : s \in {c.a, c.b}
  BY DEF Carried
<1>1. PICK c \in l.carry : s \in {c.a, c.b}
  BY <1>0
<1>2. SoundCarry(plan, l, c)
  BY SlotFacts DEF PlansSound, SoundPlan
<1>3. /\ c.a \in pinned /\ c.b \in pinned /\ {c.a, c.b} \subseteq Carried(plan)
      /\ {bufs[c.a], bufs[c.b]} = {c.a, c.b} /\ bufs[c.a] # bufs[c.b] /\ bufs[s] \in {c.a, c.b}
  BY <1>1, <1>2, LoopSlotFacts DEF Exchanged, SoundCarry
<1>4. CASE t \notin Carried(plan)
  <2>1. bufs[t] = slotBuffer[t] /\ (slotBuffer[t] \in pinned => slotBuffer[t] = t)
    BY <1>4 DEF Exchanged, BufferInv, PinnedApart
  <2> QED
    BY <1>3, <1>4, <2>1
<1>5. CASE t \in Carried(plan)
  <2>0. PICK m \in plan.loops : \E d \in m.carry : t \in {d.a, d.b}
    BY <1>5 DEF Carried
  <2>1. PICK d \in m.carry : t \in {d.a, d.b}
    BY <2>0
  <2>2. bufs[t] \in {d.a, d.b}
    BY <2>1 DEF Exchanged
  <2>3. bufs[s] = bufs[t] => d = c
    BY <1>2, <1>3, <2>2 DEF SoundCarry
  <2> QED
    BY <1>1, <1>3, <2>1, <2>3
<1> QED
  BY <1>4, <1>5

LEMMA SlotsApart ==
    ASSUME BufferInv, PlansSound, Exchanged, Executing,
           NEW s \in Slot, NEW t \in Slot, s # t, bufs[s] = bufs[t]
    PROVE  s \notin pinned /\ t \notin pinned /\ (DeadBefore(s, t) \/ DeadBefore(t, s))
<1>1. s \notin Carried(plan) /\ t \notin Carried(plan)
  BY CarryApart
<1>2. bufs[s] = slotBuffer[s] /\ bufs[t] = slotBuffer[t] /\ slotBuffer[s] \in Slot /\ None \notin Slot
  BY <1>1, SlotFacts DEF Exchanged
<1> QED
  BY <1>2 DEF BufferInv, NoOverlap

LEMMA WroteKeeps ==
    ASSUME bufs \in [Slot -> Slot], NEW W, NEW s \in Slot, \A t \in W : t # s => bufs[t] # bufs[s]
    PROVE  Wrote(W)[bufs[s]] = IF s \in W THEN s ELSE holds[bufs[s]]
<1>1. bufs[s] \in Slot
  OBVIOUS
<1>2. Wrote(W)[bufs[s]] = IF \E u \in W : bufs[u] = bufs[s] THEN CHOOSE u \in W : bufs[u] = bufs[s] ELSE holds[bufs[s]]
  BY <1>1 DEF Wrote
<1>3. CASE s \in W
  <2>1. \A u \in W : bufs[u] = bufs[s] => u = s
    OBVIOUS
  <2> QED
    BY <1>2, <1>3, <2>1
<1>4. CASE s \notin W
  BY <1>2, <1>4
<1> QED
  BY <1>3, <1>4

\* Writing pinned slots takes nothing away.
LEMMA PinnedWritten ==
    ASSUME BufferInv, PlansSound, Exchanged, Executing, NEW W, W \subseteq pinned,
           holds' = Wrote(W), bufs' = bufs
    PROVE  /\ \A s \in Slot : Has(s) => Has(s)'
           /\ \A s \in W : Has(s)'
<1>1. bufs \in [Slot -> Slot] /\ pinned \subseteq Slot
  BY SlotFacts DEF Exchanged
<1>2. ASSUME NEW s \in Slot, NEW t \in W, t # s PROVE bufs[t] # bufs[s]
  BY <1>1, <1>2, SlotsApart
<1>3. ASSUME NEW s \in Slot PROVE Wrote(W)[bufs[s]] = IF s \in W THEN s ELSE holds[bufs[s]]
  BY <1>1, <1>2, WroteKeeps
<1>4. W \subseteq Slot
  BY <1>1
<1> QED
  BY <1>3, <1>4 DEF Has

\* Before the execution there is nothing to hold.
LEMMA NotExecuting ==
    ASSUME pc' \in {"expire", "donate", "place"}, round' = 0
    PROVE  ExecInv'
<1>1. ~Executing' /\ ~InLoop' /\ pc' \notin {"run", "round", "turn", "again", "done"}
  BY DEF Executing, InLoop
<1> QED
  BY <1>1 DEF ExecInv, Exchanged, Somewhere, Contents, Fixed, Results, Needed, CarryIn, CarryOut

LEMMA AssignedExec == BufferInv /\ PlansSound /\ ExecInv /\ Assigned => ExecInv'
<1> SUFFICES ASSUME BufferInv, PlansSound, ExecInv, Assigned PROVE ExecInv'
  OBVIOUS
<1>1. /\ plan' = plan /\ pinned' = pinned /\ pc' = "run" /\ k' = 1 /\ round' = 0
      /\ slotBuffer' = Completed /\ bufs' = Completed
      /\ holds' = [b \in Slot |->
            LET filled == { s \in Slot \ Written(plan) : Completed[s] = b }
            IN  IF filled = {} THEN None ELSE CHOOSE s \in filled : \A t \in filled : t <= s]
  BY DEF Assigned, ExecInv, Somewhere, Executing
<1>2. Completed \in [Slot -> Slot]
  BY DEF BufferInv, Types, Completed
<1>3. PinnedApart'
  BY AssignedBuffers DEF BufferInv
<1>4. Executing' /\ ~InLoop' /\ Slot \subseteq Nat
  BY <1>1, PlanAssumption DEF Executing, InLoop
<1>5. Exchanged'
  <2>1. ASSUME NEW l \in plan.loops, NEW c \in l.carry PROVE bufs'[c.a] = c.a /\ bufs'[c.b] = c.b
    <3>1. c.a \in pinned /\ c.b \in pinned /\ pinned \subseteq Slot
      BY SlotFacts, LoopSlotFacts
    <3> QED
      BY <1>1, <1>3, <3>1 DEF PinnedApart
  <2> QED
    BY <1>1, <1>2, <2>1 DEF Exchanged
<1>6. Somewhere'
  <2>1. ASSUME NEW l \in plan.loops, In(l, 1) PROVE 1 = l.first
    BY <2>1, SlotFacts DEF In
  <2> QED
    BY <1>1, <1>4, <2>1 DEF Somewhere, InLoop
<1>7. Fixed'
  <2>1. ASSUME NEW s \in pinned, s \notin Written(plan) PROVE holds'[bufs'[s]] = s
    <3>1. s \in Slot /\ bufs'[s] = s /\ Completed[s] = s
      BY <1>1, <1>3, SlotFacts DEF PinnedApart
    <3> DEFINE filled == { t \in Slot \ Written(plan) : Completed[t] = s }
    <3>2. filled = {s}
      BY <1>1, <1>3, <2>1, <3>1 DEF PinnedApart
    <3>3. holds'[s] = IF filled = {} THEN None ELSE CHOOSE u \in filled : \A t \in filled : t <= u
      BY <1>1, <3>1
    <3> HIDE DEF filled
    <3>4. (CHOOSE u \in filled : \A t \in filled : t <= u) \in filled
      <4>1. s \in filled /\ \A t \in filled : t <= s
        BY <1>4, <3>1, <3>2
      <4> QED
        BY <4>1
    <3> QED
      BY <3>1, <3>2, <3>3, <3>4
  <2> QED
    BY <1>1, <2>1 DEF Fixed, Has
<1>8. Results' /\ Needed'
  <2>1. \A j \in Steps(plan) : ~Done(j)'
    BY <1>1, SlotFacts DEF Done
  <2> QED
    BY <1>1, <2>1 DEF Results, Needed
<1>9. CarryIn' /\ CarryOut'
  BY <1>1, <1>4 DEF CarryIn, CarryOut
<1> QED
  BY <1>5, <1>6, <1>7, <1>8, <1>9 DEF ExecInv, Contents

\* A loop's move writes pinned slots: what is held stays held, and what is
\* done, and needed, is no more than before.
LEMMA MoveExec ==
    ASSUME BufferInv, PlansSound, ExecInv, Executing, Executing', Somewhere',
           NEW W, W \subseteq pinned, holds' = Wrote(W),
           UNCHANGED << plan, pinned, slotBuffer, bufs >>,
           \A j \in Steps(plan) : Done(j)' => Done(j),
           \A i, j \in Steps(plan) : Done(j)' /\ Stretched(plan, i) >= k' => Stretched(plan, i) >= k,
           CarryIn', CarryOut'
    PROVE  ExecInv'
<1>1. /\ \A s \in Slot : Has(s) => Has(s)'
  BY PinnedWritten DEF ExecInv
<1>2. pinned \subseteq Slot
  BY SlotFacts
<1>3. Exchanged'
  BY DEF ExecInv, Exchanged
<1>4. Fixed'
  BY <1>1, <1>2 DEF ExecInv, Contents, Fixed
<1>5. Results'
  <2>1. ASSUME NEW j \in Steps(plan), NEW s \in pinned \ Carried(plan), s \in plan.steps[j].outs, Done(j)'
        PROVE  Has(s)'
    BY <1>1, <1>2, <2>1 DEF ExecInv, Contents, Results
  <2> QED
    BY <2>1 DEF Results
<1>6. Needed'
  <2>1. ASSUME NEW i \in Steps(plan), NEW j \in Steps(plan), NEW s \in Slot \ pinned,
               s \in plan.steps[j].outs, Done(j)', s \in Touches(plan, i), Stretched(plan, i) >= k'
        PROVE  Has(s)'
    BY <1>1, <2>1 DEF ExecInv, Contents, Needed
  <2> QED
    BY <2>1 DEF Needed
<1> QED
  BY <1>3, <1>4, <1>5, <1>6 DEF ExecInv, Contents

\* One loop at a time.
LEMMA OneLoop ==
    ASSUME BufferInv, NEW l \in plan.loops, NEW m \in plan.loops, NEW i \in Nat, In(l, i), In(m, i)
    PROVE  m = l
<1>1. /\ l.first \in Nat /\ l.last \in Nat /\ m.first \in Nat /\ m.last \in Nat
      /\ l # m => l.last < m.first \/ m.last < l.first
  BY SlotFacts
<1> QED
  BY <1>1 DEF In

LEMMA StartLoopExec ==
    ASSUME BufferInv, PlansSound, ExecInv, NEW l \in plan.loops, StartLoop(l)
    PROVE  ExecInv'
<1> DEFINE W == { c.a : c \in l.carry }
<1>1. /\ pc = "run" /\ k = l.first /\ holds' = Wrote(W) /\ pc' = "again" /\ k' = k /\ round' = round
      /\ UNCHANGED << plan, pinned, slotBuffer, bufs >> /\ round = 0
  BY DEF StartLoop, assignVars, ExecInv, Somewhere
<1>2. W \subseteq pinned
  BY LoopSlotFacts
<1>3. Executing /\ Executing' /\ InLoop'
  BY <1>1 DEF Executing, InLoop
<1>4. /\ k \in Nat \ {0} /\ l.first <= l.last /\ l.last \in Nat
      /\ \A m \in plan.loops : m.times \in Nat
      /\ \A m \in plan.loops : In(m, k) => m.first = k
  BY <1>1, <1>3, SlotFacts DEF ExecInv, Somewhere
<1>5. In(l, k) /\ \A m \in plan.loops : In(m, k) => m = l
  <2>1. In(l, k)
    BY <1>1, <1>4 DEF In
  <2> QED
    BY <1>4, <2>1, OneLoop
<1>6. Somewhere'
  BY <1>1, <1>3, <1>4, <1>5 DEF Somewhere
<1>7. \A j \in Steps(plan) : Done(j)' => Done(j)
  BY <1>1 DEF Done
<1> HIDE DEF W
<1>8. \A s \in W : Has(s)'
  BY <1>1, <1>2, <1>3, PinnedWritten DEF ExecInv
<1>9. CarryIn'
  <2>1. ASSUME NEW m \in plan.loops, In(m, k), NEW c \in m.carry PROVE Has(c.a)'
    BY <1>5, <1>8, <2>1 DEF W
  <2> QED
    BY <1>1, <2>1 DEF CarryIn
<1>10. CarryOut'
  BY <1>1 DEF CarryOut
<1> QED
  BY <1>1, <1>2, <1>3, <1>6, <1>7, <1>9, <1>10, MoveExec

LEMMA NextRoundExec ==
    ASSUME BufferInv, PlansSound, ExecInv, NEW l \in plan.loops, NextRound(l)
    PROVE  ExecInv'
<1> DEFINE W == { x.slice : x \in l.xs }
<1>1. /\ pc = "again" /\ In(l, k) /\ round < l.times /\ holds' = Wrote(W)
      /\ pc' = "round" /\ k' = l.first /\ round' = round + 1
      /\ UNCHANGED << plan, pinned, slotBuffer, bufs >>
  BY DEF NextRound, assignVars
<1>2. W \subseteq pinned
  BY LoopSlotFacts
<1>3. Executing /\ Executing' /\ InLoop /\ InLoop'
  BY <1>1 DEF Executing, InLoop
<1>4. /\ k \in Nat \ {0} /\ l.first \in Nat \ {0} /\ l.last \in Nat /\ l.times \in Nat /\ round \in Nat
      /\ l.first <= l.last /\ l.first <= k /\ k <= l.last
  BY <1>1, <1>3, SlotFacts DEF ExecInv, Somewhere, In
<1>5. \A m \in plan.loops : In(m, k) \/ In(m, k') => m = l
  <2>1. In(l, k')
    BY <1>1, <1>4 DEF In
  <2> QED
    BY <1>1, <1>4, <2>1, OneLoop
<1>6. Somewhere'
  <2>1. In(l, l.first)
    BY <1>4 DEF In
  <2>2. \A m \in plan.loops : In(m, k') => round' <= m.times
    BY <1>1, <1>4, <1>5
  <2> QED
    BY <1>1, <1>3, <1>4, <2>1, <2>2 DEF Somewhere
<1>7. \A j \in Steps(plan) : Done(j)' => Done(j) /\ j < l.first
  BY <1>1, <1>4, SlotFacts DEF Done
<1>8. ASSUME NEW i \in Steps(plan), Stretched(plan, i) >= k' PROVE Stretched(plan, i) >= k
  <2>1. i \in Nat /\ Stretched(plan, i) \in Nat /\ Stretched(plan, i) >= i
    BY SlotFacts
  <2>2. CASE In(l, i)
    BY <1>4, <2>2, SlotFacts, OwnLoop
  <2>3. CASE i > l.last
    BY <1>4, <2>1, <2>3
  <2>4. CASE i < l.first
    <3>1. ~In(l, Stretched(plan, i))
      <4>1. ~In(l, i)
        BY <1>4, <2>1, <2>4 DEF In
      <4> QED
        BY <4>1, SlotFacts, OwnLoop
    <3>2. Stretched(plan, i) > l.last
      BY <1>1, <1>4, <1>8, <2>1, <3>1 DEF In
    <3> QED
      BY <1>4, <2>1, <3>2
  <2> QED
    BY <1>4, <2>1, <2>2, <2>3, <2>4 DEF In
<1> HIDE DEF W
<1>9. \A s \in Slot : Has(s) => Has(s)'
  BY <1>1, <1>2, <1>3, PinnedWritten DEF ExecInv
<1>10. CarryIn'
  <2>1. ASSUME NEW c \in l.carry PROVE Has(c.a)'
    <3>1. Has(c.a)
      BY <1>1, <1>3 DEF ExecInv, Contents, CarryIn
    <3>2. c.a \in Slot
      BY SlotFacts, LoopSlotFacts
    <3> QED
      BY <1>9, <3>1, <3>2
  <2> QED
    BY <1>1, <1>5, <2>1 DEF CarryIn
<1>11. CarryOut'
  <2>1. ASSUME NEW c \in l.carry, NEW j \in Steps(plan), c.b \in plan.steps[j].outs, Done(j)'
        PROVE  FALSE
    <3>1. SoundCarry(plan, l, c)
      BY SlotFacts DEF PlansSound, SoundPlan
    <3>2. PICK i \in Steps(plan) : In(l, i) /\ c.b \in plan.steps[i].outs
      BY <3>1 DEF SoundCarry
    <3>3. i = j
      BY <2>1, <3>2, SlotFacts DEF PlansSound, SoundPlan
    <3> QED
      BY <1>4, <1>7, <2>1, <3>2, <3>3, SlotFacts DEF In
  <2> QED
    BY <1>1, <1>5, <2>1 DEF CarryOut
<1> QED
  BY <1>1, <1>2, <1>3, <1>6, <1>7, <1>8, <1>10, <1>11, MoveExec

LEMMA LoopEndsExec ==
    ASSUME BufferInv, PlansSound, ExecInv, NEW l \in plan.loops, LoopEnds(l)
    PROVE  ExecInv'
<1> DEFINE W == { c.final : c \in l.carry }
<1>1. /\ pc = "again" /\ In(l, k) /\ round = l.times /\ holds' = Wrote(W)
      /\ pc' = "run" /\ k' = l.last + 1 /\ round' = 0
      /\ UNCHANGED << plan, pinned, slotBuffer, bufs >>
  BY DEF LoopEnds, assignVars
<1>2. W \subseteq pinned
  BY LoopSlotFacts
<1>3. Executing /\ Executing' /\ InLoop /\ ~InLoop'
  BY <1>1 DEF Executing, InLoop
<1>4. l.times > 0 /\ l.times \in Nat /\ l.last \in Nat
  BY SlotFacts DEF PlansSound, SoundPlan
<1>5. round \in Nat /\ round > 0 /\ k = l.last /\ k \in Nat
  BY <1>1, <1>3, <1>4 DEF ExecInv, Somewhere
<1>6. Somewhere'
  <2>1. ASSUME NEW m \in plan.loops, In(m, l.last + 1) PROVE l.last + 1 = m.first
    <3>1. /\ m.first \in Nat /\ m.last \in Nat /\ l.first \in Nat
          /\ l.first <= l.last /\ (l # m => l.last < m.first \/ m.last < l.first)
      BY SlotFacts
    <3> QED
      BY <1>4, <2>1, <3>1 DEF In
  <2>2. Executing' /\ ~InLoop' /\ k' \in Nat \ {0} /\ round' \in Nat
    BY <1>1, <1>3, <1>4
  <2>3. \A m \in plan.loops : In(m, k') => k' = m.first
    BY <1>1, <2>1
  <2> QED
    BY <1>1, <2>2, <2>3 DEF Somewhere
<1>7. \A j \in Steps(plan) : Done(j)' => Done(j)
  BY <1>1, <1>5, SlotFacts DEF Done
<1>8. \A i \in Steps(plan) : Stretched(plan, i) >= k' => Stretched(plan, i) >= k
  BY <1>1, <1>5, SlotFacts
<1>9. CarryIn' /\ CarryOut'
  BY <1>1, <1>3 DEF CarryIn, CarryOut
<1> HIDE DEF W
<1> QED
  BY <1>1, <1>2, <1>3, <1>6, <1>7, <1>8, <1>9, MoveExec

LEMMA PlanDoneExec ==
    ASSUME BufferInv, PlansSound, ExecInv, PlanDone
    PROVE  ExecInv'
<1>1. /\ pc = "run" /\ pc' = "done" /\ k \notin Steps(plan)
      /\ UNCHANGED << plan, pinned, k, slotBuffer, bufs, holds, round >>
  BY DEF PlanDone, assignVars
<1>2. Executing /\ Executing' /\ ~InLoop'
  BY <1>1 DEF Executing, InLoop
<1>3. \A j \in Steps(plan) : Done(j)' => Done(j)
  BY <1>1 DEF Done
<1>4. Exchanged' /\ Somewhere'
  BY <1>1, <1>2 DEF ExecInv, Exchanged, Somewhere
<1>5. Fixed'
  BY <1>1, <1>2 DEF ExecInv, Contents, Fixed, Has
<1>6. Results'
  BY <1>1, <1>2, <1>3 DEF ExecInv, Contents, Results, Has
<1>7. Needed'
  BY <1>1, <1>2, <1>3 DEF ExecInv, Contents, Needed, Has
<1>8. CarryIn' /\ CarryOut'
  BY <1>1, <1>2 DEF CarryIn, CarryOut
<1> QED
  BY <1>4, <1>5, <1>6, <1>7, <1>8 DEF ExecInv, Contents

\* A loop's own carries, and that a turn finds all of them written.
LEMMA OwnCarry ==
    ASSUME BufferInv, PlansSound, NEW l \in plan.loops, NEW c \in l.carry
    PROVE  /\ SoundCarry(plan, l, c)
           /\ c.a \in Slot /\ c.b \in Slot /\ c.a \in Carried(plan) /\ c.b \in Carried(plan) /\ c.a # c.b
           /\ \A d \in l.carry : {c.a, c.b} \cap {d.a, d.b} # {} => d = c
<1>1. SoundCarry(plan, l, c)
  BY SlotFacts DEF PlansSound, SoundPlan
<1>2. {c.a, c.b} \subseteq pinned /\ {c.a, c.b} \subseteq Carried(plan) /\ pinned \subseteq Slot
  BY SlotFacts, LoopSlotFacts
<1> QED
  BY <1>1, <1>2 DEF SoundCarry

LEMMA TurnHasOutputs ==
    ASSUME BufferInv, PlansSound, ExecInv, pc = "turn", NEW l \in plan.loops, In(l, k), NEW c \in l.carry
    PROVE  Has(c.b)
<1>1. PICK j \in Steps(plan) : In(l, j) /\ c.b \in plan.steps[j].outs
  BY OwnCarry DEF SoundCarry
<1>2. k = l.last
  BY DEF ExecInv, Somewhere, InLoop
<1>3. Done(j)
  BY <1>1, <1>2, SlotFacts DEF Done, In
<1> QED
  BY <1>1, <1>3 DEF ExecInv, Contents, CarryOut

LEMMA EndRoundExec ==
    ASSUME BufferInv, PlansSound, ExecInv, NEW l \in plan.loops, EndRound(l)
    PROVE  ExecInv'
<1> DEFINE Y == { y.whole : y \in l.ys }
<1>1. /\ pc = "turn" /\ In(l, k) /\ pc' = "again"
      /\ UNCHANGED << plan, pinned, k, slotBuffer, round >>
      /\ bufs' = [s \in Slot |->
            IF \E c \in l.carry : s \in {c.a, c.b}
            THEN LET c == CHOOSE c \in l.carry : s \in {c.a, c.b}
                 IN  IF s = c.a THEN bufs[c.b] ELSE bufs[c.a]
            ELSE bufs[s]]
      /\ holds' = [b \in Slot |->
            IF \E c \in l.carry : b = bufs[c.b] /\ holds[b] = c.b
            THEN (CHOOSE c \in l.carry : b = bufs[c.b]).a
            ELSE IF \E c \in l.carry : b = bufs[c.a] THEN None
            ELSE Wrote(Y)[b]]
  BY DEF EndRound, assignVars
<1>2. Executing /\ Executing' /\ InLoop /\ InLoop'
  BY <1>1 DEF Executing, InLoop
<1>3. bufs \in [Slot -> Slot] /\ Y \subseteq pinned /\ pinned \subseteq Slot
  BY <1>2, SlotFacts, LoopSlotFacts DEF ExecInv, Exchanged
<1>4. round \in Nat /\ round > 0 /\ k = l.last /\ k \in Nat
  BY <1>1, <1>2 DEF ExecInv, Somewhere
<1> HIDE DEF Y
<1>5. ASSUME NEW c \in l.carry
      PROVE  bufs'[c.a] = bufs[c.b] /\ bufs'[c.b] = bufs[c.a]
  <2>1. /\ c.a \in Slot /\ c.b \in Slot /\ c.a # c.b
        /\ \A d \in l.carry : {c.a, c.b} \cap {d.a, d.b} # {} => d = c
    BY OwnCarry
  <2>2. ASSUME NEW s \in {c.a, c.b} PROVE (CHOOSE d \in l.carry : s \in {d.a, d.b}) = c
    <3>1. \A d \in l.carry : s \in {d.a, d.b} => d = c
      BY <2>1
    <3> QED
      BY <3>1
  <2> QED
    BY <1>1, <2>1, <2>2
<1>6. ASSUME NEW s \in Slot, \A c \in l.carry : s \notin {c.a, c.b}
      PROVE  bufs'[s] = bufs[s] /\ (Has(s) => Has(s)')
  <2>1. bufs'[s] = bufs[s]
    BY <1>1, <1>6
  <2>2. \A c \in l.carry : bufs[s] # bufs[c.a] /\ bufs[s] # bufs[c.b]
    BY <1>2, <1>6, OwnCarry, CarryApart DEF ExecInv
  <2>3. bufs[s] \in Slot
    BY <1>3
  <2>4. holds'[bufs[s]] = Wrote(Y)[bufs[s]]
    BY <1>1, <2>2, <2>3
  <2>5. \A t \in Y : t # s => bufs[t] # bufs[s]
    BY <1>2, <1>3, SlotsApart DEF ExecInv
  <2>6. Wrote(Y)[bufs[s]] = IF s \in Y THEN s ELSE holds[bufs[s]]
    BY <1>3, <2>5, WroteKeeps
  <2> QED
    BY <2>1, <2>4, <2>6 DEF Has
<1>7. ASSUME NEW c \in l.carry PROVE Has(c.a)'
  <2>1. holds[bufs[c.b]] = c.b /\ c.b \in Slot /\ c.b \in Carried(plan)
    BY <1>1, OwnCarry, TurnHasOutputs DEF Has
  <2>2. \A d \in l.carry : bufs[c.b] = bufs[d.b] => d = c
    <3>1. ASSUME NEW d \in l.carry, bufs[c.b] = bufs[d.b] PROVE d = c
      <4>1. d.b \in Slot /\ c.b = d.b
        BY <1>2, <2>1, <3>1, OwnCarry, CarryApart DEF ExecInv
      <4> QED
        BY <4>1, OwnCarry
    <3> QED
      BY <3>1
  <2>3. (CHOOSE d \in l.carry : bufs[c.b] = bufs[d.b]) = c
    BY <2>2
  <2>4. holds'[bufs[c.b]] = c.a
    BY <1>1, <1>3, <2>1, <2>3
  <2> QED
    BY <1>5, <2>4 DEF Has
<1>8. ASSUME NEW s \in Slot, s \notin Carried(plan) PROVE bufs'[s] = bufs[s] /\ (Has(s) => Has(s)')
  BY <1>6, <1>8, OwnCarry
<1>9. Exchanged'
  <2>1. bufs' \in [Slot -> Slot]
    <3>1. ASSUME NEW s \in Slot PROVE bufs'[s] \in Slot
      <4>1. CASE \A c \in l.carry : s \notin {c.a, c.b}
        BY <1>3, <1>6, <4>1
      <4>2. ASSUME NEW c \in l.carry, s \in {c.a, c.b} PROVE bufs'[s] \in Slot
        BY <1>3, <1>5, <4>2, OwnCarry
      <4> QED
        BY <4>1, <4>2
    <3> QED
      BY <1>1, <3>1
  <2>2. ASSUME NEW m \in plan.loops, NEW d \in m.carry
        PROVE  \/ bufs'[d.a] = d.a /\ bufs'[d.b] = d.b
               \/ bufs'[d.a] = d.b /\ bufs'[d.b] = d.a
    <3>1. \/ bufs[d.a] = d.a /\ bufs[d.b] = d.b
          \/ bufs[d.a] = d.b /\ bufs[d.b] = d.a
      BY <1>2 DEF ExecInv, Exchanged
    <3>2. CASE d \in l.carry
      BY <1>5, <3>1, <3>2
    <3>3. CASE d \notin l.carry
      <4>1. d.a \in Slot /\ d.b \in Slot /\ SoundCarry(plan, m, d)
        BY OwnCarry
      <4>2. \A c \in l.carry : d.a \notin {c.a, c.b} /\ d.b \notin {c.a, c.b}
        BY <3>3, <4>1 DEF SoundCarry
      <4> QED
        BY <1>6, <3>1, <4>1, <4>2
    <3> QED
      BY <3>2, <3>3
  <2>3. slotBuffer \in [Slot -> Slot] /\ \A s \in Slot \ Carried(plan) : bufs[s] = slotBuffer[s]
    BY <1>2 DEF ExecInv, Exchanged
  <2>4. \A s \in Slot \ Carried(plan) : bufs'[s] = slotBuffer[s]
    BY <1>8, <2>3
  <2>5. plan' = plan /\ slotBuffer' = slotBuffer
    BY <1>1
  <2> QED
    BY <2>1, <2>2, <2>3, <2>4, <2>5 DEF Exchanged
<1>10. Somewhere'
  BY <1>1, <1>2, <1>4, OneLoop DEF ExecInv, Somewhere
<1>11. \A j \in Steps(plan) : Done(j)' <=> Done(j)
  BY <1>1, <1>4 DEF Done
<1>12. Fixed'
  BY <1>1, <1>2, <1>3, <1>8 DEF ExecInv, Contents, Fixed
<1>13. Results'
  <2>1. ASSUME NEW j \in Steps(plan), NEW s \in pinned \ Carried(plan), s \in plan.steps[j].outs, Done(j)'
        PROVE  Has(s)'
    BY <1>2, <1>3, <1>8, <1>11, <2>1 DEF ExecInv, Contents, Results
  <2> QED
    BY <1>1, <2>1 DEF Results
<1>14. Needed'
  <2>1. ASSUME NEW i \in Steps(plan), NEW j \in Steps(plan), NEW s \in Slot \ pinned,
               s \in plan.steps[j].outs, Done(j)', s \in Touches(plan, i), Stretched(plan, i) >= k
        PROVE  Has(s)'
    <3>1. Has(s) /\ s \notin Carried(plan)
      BY <1>2, <1>11, <2>1, SlotFacts DEF ExecInv, Contents, Needed
    <3> QED
      BY <1>8, <2>1, <3>1
  <2> QED
    BY <1>1, <2>1 DEF Needed
<1>15. CarryIn'
  <2>1. ASSUME NEW m \in plan.loops, In(m, k) PROVE m = l
    BY <1>1, <1>4, <2>1, OneLoop
  <2> QED
    BY <1>1, <1>7, <2>1 DEF CarryIn
<1>16. CarryOut'
  BY <1>1 DEF CarryOut
<1> QED
  BY <1>9, <1>10, <1>12, <1>13, <1>14, <1>15, <1>16 DEF ExecInv, Contents

\* The results of one step have buffers of their own.
LEMMA ResultsApart ==
    ASSUME BufferInv, PlansSound, ExecInv, Executing, k \in Steps(plan),
           NEW s \in plan.steps[k].outs, NEW t \in plan.steps[k].outs, s # t
    PROVE  bufs[s] # bufs[t]
<1> SUFFICES ASSUME bufs[s] = bufs[t] PROVE FALSE
  OBVIOUS
<1>1. s \in Slot /\ t \in Slot /\ k \in Nat /\ Stretched(plan, k) \in Nat /\ Stretched(plan, k) >= k
  BY SlotFacts
<1>2. DeadBefore(s, t) \/ DeadBefore(t, s)
  BY <1>1, SlotsApart DEF ExecInv
<1>3. << k, s, t >> \in plan.donations \/ << k, t, s >> \in plan.donations
  BY <1>1, <1>2 DEF DeadBefore, Touches
<1>4. \A d \in plan.donations : plan.steps[d[1]].outs = {d[3]}
  BY SlotFacts, PlanAssumption
<1>5. plan.steps[k].outs = {t} \/ plan.steps[k].outs = {s}
  BY <1>3, <1>4
<1> QED
  BY <1>5

\* What a step leaves in the buffers.
LEMMA StepKeeps ==
    ASSUME BufferInv, PlansSound, ExecInv, Executing, k \in Steps(plan),
           holds' = Wrote(plan.steps[k].outs), bufs' = bufs, NEW s \in Slot,
           \/ s \in plan.steps[k].outs
           \/ Has(s) /\ s \in pinned
           \/ /\ Has(s)
              /\ \E j \in Steps(plan) : j < k /\ s \in plan.steps[j].outs
              /\ \E i \in Steps(plan) : /\ s \in Touches(plan, i) /\ Stretched(plan, i) >= k
                                        /\ Stretched(plan, i) = k => \E l \in plan.loops : In(l, k)
    PROVE  Has(s)'
<1> DEFINE W == plan.steps[k].outs
<1>1. bufs \in [Slot -> Slot] /\ W \subseteq Slot
  BY SlotFacts DEF ExecInv, Exchanged
<1>2. ASSUME NEW t \in W, t # s PROVE bufs[t] # bufs[s]
  <2> SUFFICES ASSUME bufs[t] = bufs[s] PROVE FALSE
    OBVIOUS
  <2>1. s \notin pinned /\ (DeadBefore(s, t) \/ DeadBefore(t, s))
    BY <1>1, <1>2, SlotsApart DEF ExecInv
  <2>2. s \notin W
    BY <1>2, ResultsApart
  <2>3. PICK j \in Steps(plan) : j < k /\ s \in plan.steps[j].outs
    BY <2>1, <2>2
  <2>4. PICK i \in Steps(plan) : /\ s \in Touches(plan, i) /\ Stretched(plan, i) >= k
                                 /\ Stretched(plan, i) = k => \E l \in plan.loops : In(l, k)
    BY <2>1, <2>2
  <2>5. /\ i \in Nat /\ j \in Nat /\ k \in Nat /\ Stretched(plan, i) \in Nat
        /\ Stretched(plan, k) \in Nat /\ Stretched(plan, k) >= k /\ Stretched(plan, i) >= i
    BY SlotFacts
  <2>6. t \in Touches(plan, k) /\ s \in Touches(plan, j)
    BY <1>2, <2>3 DEF Touches
  <2>7. CASE DeadBefore(s, t)
    <3>1. Stretched(plan, i) < k \/ (i = k /\ \A l \in plan.loops : ~In(l, k))
      BY <2>4, <2>6, <2>7 DEF DeadBefore
    <3>2. i = k /\ \A l \in plan.loops : ~In(l, k)
      BY <2>4, <2>5, <3>1
    <3>3. Stretched(plan, i) = k
      BY <3>2, OwnLoop, SlotFacts
    <3> QED
      BY <2>4, <3>2, <3>3
  <2>8. CASE DeadBefore(t, s)
    <3>1. Stretched(plan, k) < j \/ k = j
      BY <2>6, <2>8 DEF DeadBefore
    <3> QED
      BY <2>3, <2>5, <3>1
  <2> QED
    BY <2>1, <2>7, <2>8
<1>3. Wrote(W)[bufs[s]] = IF s \in W THEN s ELSE holds[bufs[s]]
  BY <1>1, <1>2, WroteKeeps
<1> QED
  BY <1>3 DEF Has

LEMMA RunStepExec ==
    ASSUME BufferInv, PlansSound, ExecInv, RunStep
    PROVE  ExecInv'
<1>1. /\ pc = "run" \/ pc = "round"
      /\ pc = "run" => \A l \in plan.loops : k # l.first
      /\ k \in Steps(plan) /\ holds' = Wrote(plan.steps[k].outs)
      /\ UNCHANGED << plan, pinned, slotBuffer, bufs, round >>
      /\ \/ pc = "round" /\ (\E l \in plan.loops : k = l.last) /\ pc' = "turn" /\ k' = k
         \/ ~(pc = "round" /\ \E l \in plan.loops : k = l.last) /\ pc' = pc /\ k' = k + 1
  BY DEF RunStep, assignVars
<1>2. /\ Executing /\ Executing'
      /\ pc = "round" => InLoop /\ InLoop'
      /\ pc = "run" => ~InLoop' /\ ~InLoop
  BY <1>1 DEF Executing, InLoop
<1>3. k \in Nat \ {0} /\ k' \in {k, k + 1} /\ pinned \subseteq Slot
  BY <1>1, <1>2, SlotFacts DEF ExecInv, Somewhere
<1>4. \A j \in Steps(plan) : Done(j)' => j = k \/ (j < k /\ Done(j))
  BY <1>1, <1>3, SlotFacts DEF Done
<1>5. /\ pc = "run" => \A l \in plan.loops : ~In(l, k)
      /\ pc = "round" => \E l \in plan.loops : In(l, k)
      /\ pc = "run" => k' = k + 1
  BY <1>1, <1>2 DEF ExecInv, Somewhere
<1>6. Exchanged'
  BY <1>1, <1>2 DEF ExecInv, Exchanged
<1>7. ASSUME pc = "round", NEW l \in plan.loops, In(l, k')
      PROVE  In(l, k)
  <2>1. PICK m \in plan.loops : In(m, k)
    BY <1>5, <1>7
  <2>2. k' = k \/ k # m.last
    BY <1>1, <1>7
  <2>3. In(m, k')
    BY <1>3, <2>1, <2>2, SlotFacts DEF In
  <2>4. m = l
    BY <1>3, <1>7, <2>3, OneLoop
  <2> QED
    BY <2>1, <2>4
<1>8. Somewhere'
  <2>1. CASE pc = "run"
    <3>1. ASSUME NEW l \in plan.loops, In(l, k + 1) PROVE k + 1 = l.first
      <4>1. ~In(l, k) /\ l.first \in Nat /\ l.last \in Nat
        BY <1>5, <2>1, SlotFacts
      <4> QED
        BY <1>3, <3>1, <4>1 DEF In
    <3>2. round = 0 /\ pc' = "run" /\ k' = k + 1 /\ round' = 0
      BY <1>1, <2>1 DEF ExecInv, Somewhere
    <3> QED
      BY <1>1, <1>2, <1>3, <2>1, <3>1, <3>2 DEF Somewhere
  <2>2. CASE pc = "round"
    <3>1. \A l \in plan.loops : In(l, k) => round <= l.times /\ round > 0
      BY <1>2, <2>2 DEF ExecInv, Somewhere
    <3>2. \A l \in plan.loops : In(l, k') => round <= l.times /\ round > 0
      BY <1>7, <2>2, <3>1
    <3>3. \E l \in plan.loops : In(l, k')
      <4>1. PICK m \in plan.loops : In(m, k)
        BY <1>5, <2>2
      <4>2. k' = k \/ (k' = k + 1 /\ k # m.last)
        BY <1>1, <2>2
      <4> QED
        BY <1>3, <4>1, <4>2, SlotFacts DEF In
    <3>4. ASSUME pc' = "turn", NEW l \in plan.loops, In(l, k') PROVE k' = l.last
      <4>1. PICK m \in plan.loops : k = m.last
        BY <1>1, <3>4
      <4>2. In(m, k)
        BY <4>1, SlotFacts DEF In
      <4>3. In(l, k)
        BY <1>7, <2>2, <3>4
      <4>4. m = l
        BY <1>3, <4>2, <4>3, OneLoop
      <4> QED
        BY <1>1, <2>2, <3>4, <4>1, <4>4
    <3>5. round \in Nat /\ pc' \in {"round", "turn"} /\ k' \in Nat \ {0} /\ round' = round
      BY <1>1, <1>2, <1>3, <2>2 DEF ExecInv, Somewhere
    <3> QED
      BY <1>1, <1>2, <2>2, <3>2, <3>3, <3>4, <3>5 DEF Somewhere
  <2> QED
    BY <1>1, <2>1, <2>2
<1>9. ASSUME NEW s \in pinned, Has(s) \/ s \in plan.steps[k].outs PROVE Has(s)'
  BY <1>1, <1>2, <1>3, <1>9, StepKeeps
<1>10. Fixed'
  BY <1>1, <1>2, <1>9 DEF ExecInv, Contents, Fixed
<1>11. Results'
  <2>1. ASSUME NEW j \in Steps(plan), NEW s \in pinned \ Carried(plan), s \in plan.steps[j].outs, Done(j)'
        PROVE  Has(s)'
    <3>1. s \in plan.steps[k].outs \/ Has(s)
      BY <1>2, <1>4, <2>1 DEF ExecInv, Contents, Results
    <3> QED
      BY <1>9, <3>1
  <2> QED
    BY <1>1, <2>1 DEF Results
<1>12. Needed'
  <2>1. ASSUME NEW i \in Steps(plan), NEW j \in Steps(plan), NEW s \in Slot \ pinned,
               s \in plan.steps[j].outs, Done(j)', s \in Touches(plan, i), Stretched(plan, i) >= k'
        PROVE  Has(s)'
    <3>1. Stretched(plan, i) \in Nat /\ Stretched(plan, i) >= k
      BY <1>3, <2>1, SlotFacts
    <3>2. CASE j = k
      BY <1>1, <1>2, <2>1, <3>2, StepKeeps
    <3>3. CASE j # k
      <4>1. j < k /\ Done(j)
        BY <1>4, <2>1, <3>3
      <4>2. Has(s)
        BY <1>2, <2>1, <3>1, <4>1 DEF ExecInv, Contents, Needed
      <4>3. Stretched(plan, i) = k => \E l \in plan.loops : In(l, k)
        BY <1>1, <1>3, <1>5, <2>1, <3>1
      <4> QED
        BY <1>1, <1>2, <2>1, <3>1, <4>1, <4>2, <4>3, StepKeeps
    <3> QED
      BY <3>2, <3>3
  <2> QED
    BY <1>1, <2>1 DEF Needed
<1>13. CarryIn'
  <2>1. ASSUME pc = "round", NEW l \in plan.loops, In(l, k'), NEW c \in l.carry PROVE Has(c.a)'
    <3>1. Has(c.a)
      BY <1>2, <1>7, <2>1 DEF ExecInv, Contents, CarryIn
    <3> QED
      BY <1>9, <3>1, LoopSlotFacts
  <2> QED
    BY <1>1, <1>2, <2>1 DEF CarryIn
<1>14. CarryOut'
  <2>1. ASSUME pc = "round", NEW l \in plan.loops, In(l, k'), NEW c \in l.carry,
               NEW j \in Steps(plan), c.b \in plan.steps[j].outs, Done(j)'
        PROVE  Has(c.b)'
    <3>1. c.b \in plan.steps[k].outs \/ Has(c.b)
      BY <1>4, <1>7, <2>1 DEF ExecInv, Contents, CarryOut
    <3> QED
      BY <1>9, <3>1, LoopSlotFacts
  <2> QED
    BY <1>1, <2>1 DEF CarryOut
<1> QED
  BY <1>6, <1>8, <1>10, <1>11, <1>12, <1>13, <1>14 DEF ExecInv, Contents

LEMMA InitExec == Init => ExecInv
<1> SUFFICES ASSUME Init PROVE ExecInv
  OBVIOUS
<1>1. pc = "expire" /\ round = 0
  BY DEF Init
<1>2. ~Executing /\ ~InLoop
  BY <1>1 DEF Executing, InLoop
<1> QED
  BY <1>1, <1>2 DEF ExecInv, Exchanged, Somewhere, Contents, Fixed, Results, Needed, CarryIn, CarryOut

LEMMA StutterExec ==
    ASSUME ExecInv, UNCHANGED vars
    PROVE  ExecInv'
<1>1. UNCHANGED << plan, pinned, pc, k, slotBuffer, bufs, holds, round >>
  BY DEF vars
<1>2. Executing' = Executing /\ InLoop' = InLoop
  BY <1>1 DEF Executing, InLoop
<1>3. \A j \in Steps(plan) : Done(j)' <=> Done(j)
  BY <1>1 DEF Done
<1>4. Exchanged'
  BY <1>1, <1>2 DEF ExecInv, Exchanged
<1>5. Somewhere'
  BY <1>1, <1>2 DEF ExecInv, Somewhere
<1>6. Fixed' /\ CarryIn'
  BY <1>1, <1>2 DEF ExecInv, Contents, Fixed, CarryIn, Has
<1>7. Results'
  BY <1>1, <1>2, <1>3 DEF ExecInv, Contents, Results, Has
<1>8. Needed'
  BY <1>1, <1>2, <1>3 DEF ExecInv, Contents, Needed, Has
<1>9. CarryOut'
  BY <1>1, <1>3 DEF ExecInv, Contents, CarryOut, Has
<1> QED
  BY <1>4, <1>5, <1>6, <1>7, <1>8, <1>9 DEF ExecInv, Contents

LEMMA NextExec == BufferInv /\ PlansSound /\ ExecInv /\ [Next]_vars => ExecInv'
<1> SUFFICES ASSUME BufferInv, PlansSound, ExecInv, [Next]_vars PROVE ExecInv'
  OBVIOUS
<1>1. ASSUME Expire \/ Donate \/ StepPlaced \/ \E s \in Slot : Place(s) PROVE ExecInv'
  <2>1. pc \in {"expire", "donate", "place"} /\ pc' \in {"expire", "donate", "place"} /\ round' = round
    <3>1. CASE Expire
      BY <3>1 DEF Expire, Running
    <3>2. CASE Donate
      BY <3>2 DEF Donate, Running
    <3>3. CASE StepPlaced
      BY <3>3 DEF StepPlaced, Running
    <3>4. CASE \E s \in Slot : Place(s)
      BY <3>4 DEF Place, Running
    <3> QED
      BY <1>1, <3>1, <3>2, <3>3, <3>4
  <2>2. ~Executing
    BY <2>1 DEF Executing
  <2>3. round = 0
    BY <2>2 DEF ExecInv, Somewhere
  <2> QED
    BY <2>1, <2>3, NotExecuting
<1>2. CASE Assigned
  BY <1>2, AssignedExec
<1>3. CASE RunStep
  BY <1>3, RunStepExec
<1>4. CASE PlanDone
  BY <1>4, PlanDoneExec
<1>5. ASSUME NEW l \in plan.loops, StartLoop(l) \/ NextRound(l) \/ EndRound(l) \/ LoopEnds(l) PROVE ExecInv'
  BY <1>5, StartLoopExec, NextRoundExec, EndRoundExec, LoopEndsExec
<1>6. CASE UNCHANGED vars
  BY <1>6, StutterExec
<1> QED
  BY <1>1, <1>2, <1>3, <1>4, <1>5, <1>6 DEF Next

\* What an execution reads is there: by what it is about to do.
LEMMA PinnedRead ==
    ASSUME BufferInv, ExecInv, Executing, NEW s \in pinned \ Carried(plan),
           \A j \in Steps(plan) : s \in plan.steps[j].outs => Done(j)
    PROVE  Has(s)
<1>1. CASE s \in Written(plan)
  <2>1. PICK j \in Steps(plan) : s \in plan.steps[j].outs
    BY <1>1 DEF Written
  <2> QED
    BY <2>1 DEF ExecInv, Contents, Results
<1>2. CASE s \notin Written(plan)
  BY <1>2 DEF ExecInv, Contents, Fixed
<1> QED
  BY <1>1, <1>2

\* A step's inputs.
LEMMA StepReads ==
    ASSUME BufferInv, PlansSound, ExecInv, pc \in {"run", "round"}, k \in Steps(plan),
           pc = "run" => \A l \in plan.loops : k # l.first,
           NEW s \in plan.steps[k].ins
    PROVE  Has(s)
<1>1. Executing /\ (pc = "round" <=> InLoop) /\ k \in Nat /\ s \in Slot
  BY SlotFacts DEF Executing, InLoop
<1>2. \A j \in Steps(plan) : s \in plan.steps[j].outs => j < k
  BY SlotFacts DEF PlansSound, SoundPlan
<1>3. \A j \in Steps(plan) : j < k => Done(j)
  BY DEF Done
<1>4. CASE s \notin pinned
  <2>1. PICK j \in Steps(plan) : j < k /\ s \in plan.steps[j].outs
    BY <1>1, <1>4, SlotFacts
  <2>2. s \in Touches(plan, k) /\ Stretched(plan, k) >= k
    BY SlotFacts DEF Touches
  <2> QED
    BY <1>1, <1>3, <1>4, <2>1, <2>2 DEF ExecInv, Contents, Needed
<1>5. CASE s \in pinned /\ s \notin Carried(plan)
  BY <1>1, <1>2, <1>3, <1>5, PinnedRead
<1>6. CASE s \in Carried(plan)
  <2>0. PICK l \in plan.loops : \E c \in l.carry : s \in {c.a, c.b}
    BY <1>6 DEF Carried
  <2>1. PICK c \in l.carry : s \in {c.a, c.b}
    BY <2>0
  <2>2. SoundCarry(plan, l, c)
    BY OwnCarry
  <2>3. In(l, k)
    BY <2>1, <2>2 DEF SoundCarry
  <2>4. pc = "round"
    BY <1>1, <2>3 DEF ExecInv, Somewhere
  <2>5. CASE s = c.a
    BY <1>1, <2>3, <2>4, <2>5 DEF ExecInv, Contents, CarryIn
  <2>6. CASE s = c.b
    <3>1. PICK j \in Steps(plan) : s \in plan.steps[j].outs
      BY <2>2, <2>6 DEF SoundCarry
    <3> QED
      BY <1>2, <1>3, <2>3, <2>4, <2>6, <3>1 DEF ExecInv, Contents, CarryOut
  <2> QED
    BY <2>1, <2>5, <2>6
<1> QED
  BY <1>4, <1>5, <1>6

\* A loop's moves: into it, in each iteration, and out of it.
LEMMA MoveReads ==
    ASSUME BufferInv, PlansSound, ExecInv, NEW l \in plan.loops, In(l, k)
    PROVE  /\ pc = "run" => \A c \in l.carry : Has(c.init)
           /\ pc = "turn" => (\A c \in l.carry : Has(c.b)) /\ \A y \in l.ys : Has(y.slice)
           /\ pc = "again" => (\A c \in l.carry : Has(c.a)) /\ \A x \in l.xs : Has(x.whole)
<1>1. l.first \in Nat /\ l.last \in Nat
  BY SlotFacts
<1>2. ASSUME pc = "run", NEW c \in l.carry PROVE Has(c.init)
  <2>1. Executing /\ k = l.first
    BY <1>2 DEF Executing, ExecInv, Somewhere
  <2>2. SoundCarry(plan, l, c)
    BY OwnCarry
  <2>3. c.init \in pinned \ Carried(plan)
    BY <2>2, LoopSlotFacts DEF SoundCarry
  <2>4. \A j \in Steps(plan) : c.init \in plan.steps[j].outs => Done(j)
    BY <2>1, <2>2 DEF SoundCarry, WrittenBefore, Done
  <2> QED
    BY <2>1, <2>3, <2>4, PinnedRead
<1>3. ASSUME pc = "turn", NEW y \in l.ys PROVE Has(y.slice)
  <2>1. Executing /\ InLoop /\ k = l.last
    BY <1>3 DEF Executing, InLoop, ExecInv, Somewhere
  <2>2. WrittenBefore(plan, y.slice, l.last + 1) /\ (y.slice \in Carried(plan) => \E c \in l.carry : y.slice \in {c.a, c.b})
    BY SlotFacts DEF PlansSound, SoundPlan
  <2>3. \A j \in Steps(plan) : y.slice \in plan.steps[j].outs => Done(j)
    <3>1. ASSUME NEW j \in Steps(plan), y.slice \in plan.steps[j].outs PROVE j < k \/ j = k
      <4>1. j < l.last + 1 /\ j \in Nat
        BY <2>2, <3>1, SlotFacts DEF WrittenBefore
      <4> QED
        BY <1>1, <2>1, <4>1
    <3> QED
      BY <1>3, <3>1 DEF Done
  <2>4. CASE y.slice \notin Carried(plan)
    BY <2>1, <2>3, <2>4, LoopSlotFacts, PinnedRead
  <2>5. CASE y.slice \in Carried(plan)
    <3>1. PICK c \in l.carry : y.slice \in {c.a, c.b}
      BY <2>2, <2>5
    <3>2. Has(c.a)
      BY <2>1 DEF ExecInv, Contents, CarryIn
    <3>3. Has(c.b)
      BY <1>3, TurnHasOutputs
    <3> QED
      BY <3>1, <3>2, <3>3
  <2> QED
    BY <2>4, <2>5
<1>4. ASSUME pc = "again" PROVE InLoop /\ \A c \in l.carry : Has(c.a)
  BY <1>4 DEF InLoop, ExecInv, Contents, CarryIn
<1>5. ASSUME pc = "again", NEW x \in l.xs PROVE Has(x.whole)
  <2>1. Executing /\ k \in Nat /\ l.first <= k
    <3>1. Executing
      BY <1>5 DEF Executing
    <3> QED
      BY <3>1 DEF In, ExecInv, Somewhere
  <2>2. WrittenBefore(plan, x.whole, l.first) /\ x.whole \notin Carried(plan)
    BY SlotFacts DEF PlansSound, SoundPlan
  <2>3. \A j \in Steps(plan) : x.whole \in plan.steps[j].outs => Done(j)
    BY <1>1, <2>1, <2>2, SlotFacts DEF WrittenBefore, Done
  <2> QED
    BY <2>1, <2>2, <2>3, LoopSlotFacts, PinnedRead
<1> QED
  BY <1>2, <1>3, <1>4, <1>5, TurnHasOutputs

\* A step is run where its inputs are, and writes over one only if donated.
LEMMA InputsKept ==
    ASSUME BufferInv, PlansSound, ExecInv, Executing, k \in Steps(plan),
           NEW i \in plan.steps[k].ins, NEW o \in plan.steps[k].outs, i # o, bufs[i] = bufs[o]
    PROVE  << k, i, o >> \in plan.donations
<1>1. i \in Slot /\ o \in Slot /\ k \in Nat /\ Stretched(plan, k) \in Nat /\ Stretched(plan, k) >= k
  BY SlotFacts
<1>2. i \notin pinned /\ (DeadBefore(i, o) \/ DeadBefore(o, i))
  BY <1>1, SlotsApart DEF ExecInv
<1>3. i \in Touches(plan, k) /\ o \in Touches(plan, k)
  BY DEF Touches
<1>4. CASE DeadBefore(i, o)
  BY <1>1, <1>3, <1>4 DEF DeadBefore
<1>5. CASE DeadBefore(o, i)
  <2>1. PICK j \in Steps(plan) : j < k /\ i \in plan.steps[j].outs
    BY <1>1, <1>2, SlotFacts
  <2>2. Stretched(plan, k) < j \/ k = j
    BY <1>3, <1>5, <2>1 DEF DeadBefore, Touches
  <2> QED
    BY <1>1, <2>1, <2>2, SlotFacts
<1> QED
  BY <1>2, <1>4, <1>5

\* Whatever is read is there.
LEMMA ReadIsHeld == BufferInv /\ PlansSound /\ ExecInv => ReadsOwn
<1> SUFFICES ASSUME BufferInv, PlansSound, ExecInv PROVE ReadsOwn
  OBVIOUS
<1>1. ASSUME pc \in {"run", "round"}, k \in Steps(plan) PROVE \A s \in Reading : Has(s)
  <2>0. Executing /\ k \in Nat
    BY <1>1, SlotFacts DEF Executing
  <2>1. CASE pc = "run" /\ \E l \in plan.loops : k = l.first
    <3>1. Reading = { c.init : c \in UNION { l.carry : l \in { l \in plan.loops : k = l.first } } }
      BY <1>1, <2>1 DEF Reading
    <3>2. ASSUME NEW l \in plan.loops, k = l.first, NEW c \in l.carry PROVE Has(c.init)
      <4>1. In(l, k)
        BY <3>2, SlotFacts DEF In
      <4> QED
        BY <2>1, <4>1, MoveReads
    <3> QED
      BY <3>1, <3>2
  <2>2. CASE ~(pc = "run" /\ \E l \in plan.loops : k = l.first)
    <3>1. Reading = plan.steps[k].ins
      BY <1>1, <2>2 DEF Reading
    <3> QED
      BY <1>1, <2>2, <3>1, StepReads
  <2> QED
    BY <2>1, <2>2
<1>2. ASSUME pc \in {"turn", "again"} PROVE \A s \in Reading : Has(s)
  <2> DEFINE m == CHOOSE l \in plan.loops : In(l, k)
  <2>1. m \in plan.loops /\ In(m, k)
    BY <1>2 DEF ExecInv, Somewhere, InLoop
  <2>2. Reading = IF pc = "turn" THEN { c.b : c \in m.carry } \cup { y.slice : y \in m.ys }
                  ELSE IF round < m.times THEN { x.whole : x \in m.xs }
                  ELSE { c.a : c \in m.carry }
    BY <1>2 DEF Reading
  <2> HIDE DEF m
  <2>3. /\ pc = "turn" => (\A c \in m.carry : Has(c.b)) /\ \A y \in m.ys : Has(y.slice)
        /\ pc = "again" => (\A c \in m.carry : Has(c.a)) /\ \A x \in m.xs : Has(x.whole)
    BY <2>1, MoveReads
  <2>4. CASE pc = "turn"
    BY <2>2, <2>3, <2>4
  <2>5. CASE pc = "again"
    BY <2>2, <2>3, <2>5
  <2> QED
    BY <1>2, <2>4, <2>5
<1>3. ASSUME pc = "done" PROVE \A s \in Reading : Has(s)
  <2>1. Reading = plan.args \cup plan.copies
    BY <1>3 DEF Reading
  <2>2. Executing /\ k \notin Steps(plan) /\ k \in Nat \ {0}
    <3>1. Executing
      BY <1>3 DEF Executing
    <3> QED
      BY <1>3, <3>1 DEF ExecInv, Somewhere
  <2>3. \A j \in Steps(plan) : Done(j)
    BY <2>2, SlotFacts DEF Done
  <2>4. plan.args \cup plan.copies \subseteq pinned \ Carried(plan)
    BY SlotFacts DEF PlansSound, SoundPlan
  <2> QED
    BY <2>1, <2>2, <2>3, <2>4, PinnedRead
<1>4. ASSUME ~(pc \in {"run", "round"} /\ k \in Steps(plan)), pc \notin {"turn", "again", "done"}
      PROVE  Reading = {}
  BY <1>4 DEF Reading
<1>5. \A s \in Reading : holds[bufs[s]] = s
  BY <1>1, <1>2, <1>3, <1>4 DEF Has
<1>6. ASSUME pc \in {"run", "round"} PROVE Executing
  BY <1>6 DEF Executing
<1> QED
  BY <1>5, <1>6, InputsKept DEF ReadsOwn

(* Whatever the plan, of the form emitScanLoop means to make: running it on *)
(* the shared buffers, every step, loop move and result finds the contents  *)
(* of the slots it reads, in every iteration of every loop, and a step      *)
(* writes over one of its own inputs only where that was donated            *)
(* (assignPlanBuffers and runWebGPUPlan).                                   *)
THEOREM PlanReadsOwn == PlansSound => (Spec => []ReadsOwn)
<1> SUFFICES ASSUME PlansSound PROVE Spec => []ReadsOwn
  OBVIOUS
<1>1. Init => BufferInv /\ ExecInv
  BY InitBuffers, InitExec
<1>2. (BufferInv /\ ExecInv) /\ [Next]_vars => (BufferInv /\ ExecInv)'
  BY NextBuffers, NextExec
<1>3. BufferInv /\ ExecInv => ReadsOwn
  BY ReadIsHeld
<1> QED
  BY <1>1, <1>2, <1>3, PTL DEF Spec
-----------------------------------------------------------------------------
(* The types, for any plan, also one that is not of that form.              *)

\* A finite set of numbers has a greatest one: of the sets of elements from x
\* on, for x in the set, one is minimal.
LEMMA GreatestNumber ==
    ASSUME NEW T, T \subseteq Nat, IsFiniteSet(T), T # {}
    PROVE  \E x \in T : \A y \in T : y <= x
<1> DEFINE From(x) == { y \in T : x <= y }
           F == { From(x) : x \in T }
<1>1. F \subseteq FiniteSubsetsOf(Nat)
  <2>1. ASSUME NEW x \in T PROVE IsFiniteSet(From(x)) /\ From(x) \subseteq Nat
    BY FS_Subset
  <2> QED
    BY <2>1 DEF FiniteSubsetsOf
<1>2. PICK U \in F : \A V \in F : ~(<< V, U >> \in StrictSubsetOrdering(Nat))
  <2>1. F # {}
    OBVIOUS
  <2> HIDE DEF F
  <2> QED
    BY <1>1, <2>1, FS_StrictSubsetOrderingWellFounded, WFMin
<1>3. PICK x \in T : U = From(x)
  OBVIOUS
<1>4. ASSUME NEW y \in T, ~(y <= x) PROVE FALSE
  <2>0. x \in T /\ x \in Nat /\ y \in Nat /\ x <= x
    BY <1>3
  <2>1. \A z \in T : y <= z => x <= z
    <3>1. ASSUME NEW z \in Nat, y <= z PROVE x <= z
      BY <1>4, <2>0, <3>1
    <3> QED
      BY <3>1
  <2>2. From(y) \subseteq From(x) /\ x \in From(x) /\ x \notin From(y)
    BY <1>4, <2>0, <2>1
  <2>3. From(y) \in SUBSET Nat /\ From(x) \in SUBSET Nat /\ From(y) # From(x)
    BY <2>2
  <2>4. From(y) \in F
    OBVIOUS
  <2> HIDE DEF From
  <2> QED
    BY <1>2, <1>3, <2>2, <2>3, <2>4 DEF StrictSubsetOrdering
<1> QED
  BY <1>4

\* What the executor keeps.
RunTypes ==
    /\ pc \in {"expire", "donate", "place", "run", "round", "turn", "again", "done"}
    /\ round \in Nat /\ todo \subseteq Slot /\ readBack \subseteq Slot
    /\ bufs \in [Slot -> Slot \cup {None}]
    /\ Executing => bufs \in [Slot -> Slot]
    /\ holds \in [Slot -> Slot \cup {None}]

LEMMA WroteTypes ==
    ASSUME holds \in [Slot -> Slot \cup {None}], NEW W, W \subseteq Slot
    PROVE  Wrote(W) \in [Slot -> Slot \cup {None}]
  BY DEF Wrote

LEMMA InitTypes == Init => RunTypes
<1> SUFFICES ASSUME Init PROVE RunTypes
  OBVIOUS
<1>1. slotBuffer \in [Slot -> Slot \cup {None}]
  BY InitBuffers DEF BufferInv, Types
<1> QED
  BY <1>1 DEF Init, RunTypes, Executing

LEMMA NextTypes == BufferInv /\ RunTypes /\ [Next]_vars => RunTypes'
<1> SUFFICES ASSUME BufferInv, RunTypes, [Next]_vars PROVE RunTypes'
  OBVIOUS
<1>0. /\ \A i \in Steps(plan) : plan.steps[i].outs \subseteq Slot
      /\ pinned \subseteq Slot /\ plan.args \subseteq Slot
      /\ slotBuffer \in [Slot -> Slot \cup {None}]
      /\ bufs \in [Slot -> Slot \cup {None}] /\ holds \in [Slot -> Slot \cup {None}]
  BY SlotFacts DEF BufferInv, Types, RunTypes
<1>1. CASE Expire
  BY <1>1 DEF Expire, Running, RunTypes, Executing
<1>2. CASE Donate
  <2>1. todo' \subseteq Slot
    BY <1>0, <1>2 DEF Donate, BufferInv, AtStep
  <2>2. pc = "donate" /\ pc' = "place" /\ UNCHANGED Running
    BY <1>2 DEF Donate
  <2> QED
    BY <2>1, <2>2 DEF Running, RunTypes, Executing
<1>3. ASSUME NEW s \in Slot, Place(s) PROVE RunTypes'
  <2>1. pc = "place" /\ pc' = pc /\ todo' \subseteq Slot /\ UNCHANGED Running
    BY <1>3 DEF Place, RunTypes
  <2> QED
    BY <2>1 DEF Running, RunTypes, Executing
<1>4. CASE StepPlaced
  BY <1>4 DEF StepPlaced, Running, RunTypes, Executing
<1>5. CASE Assigned
  <2>1. /\ pc' = "run" /\ bufs' = Completed /\ UNCHANGED << todo, round, readBack >>
        /\ holds' = [b \in Slot |->
              LET filled == { s \in Slot \ Written(plan) : Completed[s] = b }
              IN  IF filled = {} THEN None ELSE CHOOSE s \in filled : \A t \in filled : t <= s]
    BY <1>5 DEF Assigned
  <2>2. Completed \in [Slot -> Slot]
    BY <1>0 DEF Completed
  <2>3. ASSUME NEW b \in Slot PROVE holds'[b] \in Slot \cup {None}
    <3> DEFINE filled == { s \in Slot \ Written(plan) : Completed[s] = b }
    <3>1. holds'[b] = IF filled = {} THEN None ELSE CHOOSE s \in filled : \A t \in filled : t <= s
      BY <2>1
    <3>2. filled \subseteq Slot /\ filled \subseteq Nat /\ IsFiniteSet(filled)
      BY PlanAssumption, FS_Subset
    <3> HIDE DEF filled
    <3>3. filled # {} => \E s \in filled : \A t \in filled : t <= s
      BY <3>2, GreatestNumber
    <3>4. filled # {} => (CHOOSE s \in filled : \A t \in filled : t <= s) \in filled
      BY <3>3
    <3> QED
      BY <3>1, <3>2, <3>4
  <2>4. holds' \in [Slot -> Slot \cup {None}]
    BY <2>1, <2>3
  <2> QED
    BY <2>1, <2>2, <2>4 DEF RunTypes, Executing
<1>6. CASE RunStep
  <2>1. holds' \in [Slot -> Slot \cup {None}]
    BY <1>0, <1>6, WroteTypes DEF RunStep
  <2>2. pc \in {"run", "round"} /\ pc' \in {"run", "round", "turn"} /\ UNCHANGED << todo, bufs, round, readBack >>
    BY <1>6 DEF RunStep
  <2> QED
    BY <2>1, <2>2 DEF RunTypes, Executing
<1>7. CASE PlanDone
  <2>1. /\ pc = "run" /\ pc' = "done" /\ readBack' \subseteq Slot /\ UNCHANGED << todo, bufs, holds, round >>
    BY <1>0, <1>7 DEF PlanDone
  <2> QED
    BY <2>1 DEF RunTypes, Executing
<1>8. ASSUME NEW l \in plan.loops, StartLoop(l) \/ NextRound(l) \/ LoopEnds(l) PROVE RunTypes'
  <2>1. \A c \in l.carry : c.a \in Slot /\ c.final \in Slot
    BY <1>0, LoopSlotFacts
  <2>2. \A x \in l.xs : x.slice \in Slot
    BY <1>0, LoopSlotFacts
  <2>3. /\ Wrote({ c.a : c \in l.carry }) \in [Slot -> Slot \cup {None}]
        /\ Wrote({ c.final : c \in l.carry }) \in [Slot -> Slot \cup {None}]
        /\ Wrote({ x.slice : x \in l.xs }) \in [Slot -> Slot \cup {None}]
    BY <1>0, <2>1, <2>2, WroteTypes
  <2>4. /\ pc \in {"run", "again"} /\ pc' \in {"run", "round", "again"} /\ round' \in {round, round + 1, 0}
        /\ UNCHANGED << todo, bufs, readBack >> /\ holds' \in [Slot -> Slot \cup {None}]
    BY <1>8, <2>3 DEF StartLoop, NextRound, LoopEnds
  <2> QED
    BY <2>4 DEF RunTypes, Executing
<1>9. ASSUME NEW l \in plan.loops, EndRound(l) PROVE RunTypes'
  <2>0. pc = "turn" /\ pc' = "again" /\ UNCHANGED << todo, round, readBack >>
    BY <1>9 DEF EndRound
  <2>1. \A c \in l.carry : c.a \in Slot /\ c.b \in Slot
    BY <1>0, LoopSlotFacts
  <2>2. bufs \in [Slot -> Slot]
    BY <2>0 DEF RunTypes, Executing
  <2>3. Wrote({ y.whole : y \in l.ys }) \in [Slot -> Slot \cup {None}]
    <3>1. { y.whole : y \in l.ys } \subseteq Slot
      BY <1>0, LoopSlotFacts
    <3> QED
      BY <1>0, <3>1, WroteTypes
  <2>4. bufs' \in [Slot -> Slot]
    <3>1. ASSUME NEW s \in Slot, \E c \in l.carry : s \in {c.a, c.b}
          PROVE  (CHOOSE c \in l.carry : s \in {c.a, c.b}) \in l.carry
      BY <3>1
    <3> QED
      BY <1>9, <2>1, <2>2, <3>1 DEF EndRound
  <2>5. holds' \in [Slot -> Slot \cup {None}]
    <3>1. ASSUME NEW b \in Slot, \E c \in l.carry : b = bufs[c.b]
          PROVE  (CHOOSE c \in l.carry : b = bufs[c.b]) \in l.carry
      BY <3>1
    <3> QED
      BY <1>9, <2>1, <2>3, <3>1 DEF EndRound
  <2> QED
    BY <2>0, <2>4, <2>5 DEF RunTypes, Executing
<1>10. CASE UNCHANGED vars
  BY <1>10 DEF vars, RunTypes, Executing
<1> QED
  BY <1>1, <1>2, <1>3, <1>4, <1>5, <1>6, <1>7, <1>8, <1>9, <1>10 DEF Next

(* Whatever the plan, every variable keeps its type: the tables name only   *)
(* slots, and while a plan runs every slot has a buffer                     *)
(* (assignPlanBuffers and runWebGPUPlan).                                   *)
THEOREM PlanTypeOK == Spec => []TypeOK
<1>1. Init => BufferInv /\ RunTypes
  BY InitBuffers, InitTypes
<1>2. (BufferInv /\ RunTypes) /\ [Next]_vars => (BufferInv /\ RunTypes)'
  BY NextBuffers, NextTypes
<1>3. BufferInv /\ RunTypes => TypeOK
  BY DEF BufferInv, Types, RunTypes, Executing, TypeOK
<1> QED
  BY <1>1, <1>2, <1>3, PTL DEF Spec
=============================================================================
