---------------------------- MODULE MCGraphCycles ----------------------------
(* All graphs on five operations.                                           *)
EXTENDS GraphCyclesProps

AllGraphs == SUBSET { e \in Node \X Node : e[1] < e[2] }
=============================================================================
