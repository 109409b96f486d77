CONSTANTS
    Ptr = {p1, p2, p3, p4}
    Bytes <- MCBytes
    Limits <- MCLimits
    DeviceBytes = 2048
    MinPoolBytes = 512
    FreeDivisor = 2
    MaxRawFreed = 512
SPECIFICATION Spec
INVARIANTS
    TypeOK
    Ownership
    Accounting
    NoLeak
    WithinLimit
    NoSpuriousOOM
PROPERTIES
    NoDoubleHandOut
