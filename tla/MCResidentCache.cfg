CONSTANTS
    Ptr = {p1, p2, p3}
    None = None
    w = w
    a = a
    b = b
    Host = {w, a, b}
    byteLength <- MCByteLength
    Cap = 1024
    Kernels <- MCKernels
    MaxLate = 8
    Bytes <- MCBytes
    Limits = {}
    DeviceBytes = 1536
    MinPoolBytes = 512
    FreeDivisor = 10
    MaxRawFreed = 0
SYMMETRY Symmetric
SPECIFICATION RSpec
INVARIANTS
    RTypeOK
    Coherent
    EntryOwnership
    NothingForgotten
    CacheAccounting
    EvictionSuffices
PROPERTIES
    PinnedStays
    NoLostWrite
