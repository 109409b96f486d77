CONSTANTS
    Ptr = {p1, p2, p3, p4, p5}
    None = None
    w = w
    a = a
    b = b
    z = z
    Host = {w, a, b, z}
    Params = {w}
    Program <- MCProgram
    WarmupSteps = 1
    CallbacksTouch = TRUE
    TailLaunches = 1
    CaptureFailures = {}
    byteLength <- MCByteLength
    Cap = 2048
    Kernels <- MCKernels
    MaxLate = 0
    Bytes <- MCBytes
    Limits = {}
    DeviceBytes = 2560
    MinPoolBytes = 512
    FreeDivisor = 10
    MaxRawFreed = 0
SYMMETRY Symmetric
SPECIFICATION GSpec
INVARIANT
    FinalParams
