CONSTANTS
    Ptr = {p1, p2, p3}
    None = None
    w = w
    a = a
    b = b
    Host = {w, a, b}
    byteLength <- MCByteLength
    Cap = 1024
    Kernels <- ForwardKernels
    MaxLate = 8
    Bytes <- MCBytes
    Limits = {}
    DeviceBytes = 1536
    MinPoolBytes = 512
    FreeDivisor = 10
    MaxRawFreed = 0
SPECIFICATION RSpec
INVARIANT
    NotSpoilt
