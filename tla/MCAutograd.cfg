CONSTANTS
    NumLeaves = 2
    MaxNodes = 5
    WideLeaf <- MCWide
    Width = 2
    Kinds = {"add", "mul", "sum", "clamp", "detach"}
    MaxCalls = 2
    MaxSteps = 1
    None = None
SPECIFICATION ASpec
INVARIANTS
    ATypeOK
    InOrder
PROPERTIES
    ImplementsBackprop
    GradientsArrive
CHECK_DEADLOCK FALSE
