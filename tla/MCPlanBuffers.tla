---------------------------- MODULE MCPlanBuffers ----------------------------
(* Plans of four steps with one result each: slot 1 is the argument, step i *)
(* writes slot i + 1 and reads one or two earlier slots, slot 5 is returned.*)
(* A loop may repeat one to three of the steps, with a carry (6, 7, from 8  *)
(* to 9), slices in (10 of 1) and slices of its last step's result out (to  *)
(* 11); at most one step may write over an input of its size.  No step of a *)
(* plan without a loop touches slot 6.                                      *)
EXTENDS PlanBuffers

MCSlot == 1..11
MCNone == 0

Inputs(i) == { S \in SUBSET (1..i) : Cardinality(S) \in 1..2 }
LastInputs == { {2}, {4}, {2, 3}, {3, 4} }
Sizes == { f \in [1..4 -> 1..2] : f[1] = 1 /\ (f[2] = 2 \/ f[3] = 1) }

\* The steps a loop may repeat.
Ranges == { << 1, 2 >>, << 2, 3 >>, << 3, 4 >>, << 2, 4 >>, << 3, 3 >> }

Loop(f, l) == [first |-> f, last |-> l, times |-> 2,
               carry |-> {[a |-> 6, b |-> 7, init |-> 8, final |-> 9]},
               xs |-> {[slice |-> 10, whole |-> 1]}, ys |-> {[slice |-> l + 1, whole |-> 11]}]

Straight(i1, i2, i3, i4) ==
    << [ins |-> i1, outs |-> {2}], [ins |-> i2, outs |-> {3}],
       [ins |-> i3, outs |-> {4}], [ins |-> i4, outs |-> {5}] >>

\* The first step of a loop reads the carry and the slice, the last one writes the carry.
InLoop(steps, f, l) ==
    [i \in 1..4 |-> [ins |-> steps[i].ins \cup IF i = f THEN {6, 10} ELSE {},
                     outs |-> steps[i].outs \cup IF i = l THEN {7} ELSE {}]]

Bytes(f, used) == [s \in Slot |-> IF s \in 1..4 THEN f[s] ELSE IF s \in {5} \cup used THEN 1 ELSE 0]

Donations(steps, bytes) ==
    {{}} \cup { {d} : d \in { d \in (2..3) \X (2..3) \X (3..4) :
        /\ d[2] \in steps[d[1]].ins /\ steps[d[1]].outs = {d[3]}
        /\ bytes[d[2]] = bytes[d[3]] } }

StraightPlans ==
    UNION { UNION { LET bytes == Bytes(f, {6}) IN
        { [args |-> {1, 5}, copies |-> {}, bytes |-> bytes, steps |-> steps,
           donations |-> ds, loops |-> {}] : ds \in Donations(steps, bytes) }
      : steps \in { Straight({1}, i2, i3, i4) : i2 \in Inputs(2), i3 \in Inputs(3), i4 \in LastInputs } }
      : f \in Sizes }

LoopPlans ==
    UNION { UNION { UNION {
        LET bytes == Bytes(f, 6..11) steps == InLoop(straight, r[1], r[2]) IN
        { [args |-> {1, 5, 8, 9, 11}, copies |-> {}, bytes |-> bytes, steps |-> steps,
           donations |-> ds, loops |-> {Loop(r[1], r[2])}] : ds \in Donations(steps, bytes) }
      : r \in Ranges }
      : straight \in { Straight({1}, i2, i3, i4) : i2 \in Inputs(2), i3 \in Inputs(3), i4 \in LastInputs } }
      : f \in { f \in Sizes : \A s \in 1..4 : f[s] = 1 } }

MCPlans == StraightPlans \cup LoopPlans

ASSUME PlansAreSound == \A p \in Plans : SoundPlan(p)
=============================================================================
