CONSTANTS
    n = 5
    Graphs <- AllGraphs
SPECIFICATION Spec
INVARIANTS TypeOK TopoOrder ReorderCompletes ExactAnswer
CHECK_DEADLOCK FALSE
