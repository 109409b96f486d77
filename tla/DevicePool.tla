------------------------------ MODULE DevicePool ------------------------------
(***************************************************************************)
(* The size-class caching allocator of the CUDA runtime,                   *)
(* src/runtime/node/cuda/memory.ts.                                        *)
(*                                                                         *)
(* acquire(bytes) hands out a device pointer of the request's size class,  *)
(* from the class's free list or from the driver; release(ptr, bytes) puts *)
(* it on the free list and trims the pool to its limit, oldest class       *)
(* first.  JavaScript runs each call to completion: the trimming loop is   *)
(* modelled pointer by pointer, and no other operation starts before it    *)
(* ends (phase).  The driver (cuMemAlloc, cuMemFree, cuMemGetInfo) is      *)
(* external and is modelled by the sizes it has allocated.                 *)
(***************************************************************************)
EXTENDS Integers, SequencesExt

CONSTANTS
    Ptr,           \* the device addresses the driver can return
    Bytes,         \* the request sizes of the callers
    Limits,        \* the arguments callers pass to setPoolLimit
    DeviceBytes,   \* the memory of the device
    MinPoolBytes,  \* MIN_POOL_BYTES
    FreeDivisor,   \* 1 / POOL_FRACTION_OF_FREE
    MaxRawFreed    \* bound: stop raw frees once rawFreed exceeds it

VARIABLES
    size,          \* size[p]: what the driver has allocated at p, 0 for nothing
    order,         \* the keys of _pool in insertion order
    list,          \* list[c]: the free list of class c
    pooledBytes,   \* _pooledBytes
    liveBytes,     \* _liveBytes
    peakLiveBytes, \* _peakLiveBytes
    poolCap,       \* _poolCap, 0 until computed
    phase,         \* "idle", or "trim" inside the loop of _trimPool
    held,          \* held[p]: the bytes its holder asked for, 0 if p is not handed out
    refused,       \* the request the last operation threw out-of-memory for, or 0
    rawFreed       \* bytes of class of the pointers given to free() directly

poolVars == << size, order, list, pooledBytes, liveBytes, peakLiveBytes,
               poolCap, phase, held, refused, rawFreed >>

-----------------------------------------------------------------------------
(* Size classes: 512 up to 512 bytes, then eight steps per octave, no step  *)
(* below 512.                                                               *)

CeilLog2(n) == CHOOSE k \in 0..53 : 2^k >= n /\ (k = 0 \/ 2^(k-1) < n)

sizeClass(bytes) ==
    IF bytes <= 512
    THEN 512
    ELSE LET k    == CeilLog2(bytes) - 3
             step == 2^(IF k > 9 THEN k ELSE 9)
         IN  ((bytes + step - 1) \div step) * step

Class == { sizeClass(b) : b \in Bytes }

\* A byte count is a positive safe integer.
ASSUME BytesAssumption ==
    /\ IsFiniteSet(Bytes) /\ Bytes \subseteq Nat \ {0}
    /\ \A b \in Bytes : \E k \in 0..53 : b <= 2^k
    /\ Limits \subseteq Int

\* The driver aligns what it allocates: it does not run out of addresses
\* before it runs out of memory.
ASSUME DeviceAssumption ==
    /\ IsFiniteSet(Ptr) /\ DeviceBytes \in Nat /\ DeviceBytes <= 512 * Cardinality(Ptr)
    /\ MinPoolBytes \in Nat \ {0} /\ FreeDivisor \in Nat \ {0}
    /\ MaxRawFreed \in Int

-----------------------------------------------------------------------------
UsedBytes(sz) == SumFunction(sz)
FreeBytes(sz) == DeviceBytes - UsedBytes(sz)

\* Variant: setting a key again without deleting it first.
WithoutNothing(s, c) == s

\* Map.delete on the insertion order of the keys.
Without(s, c) ==
    IF c \in ToSet(s)
    THEN LET i == CHOOSE i \in 1..Len(s) : s[i] = c
         IN  SubSeq(s, 1, i - 1) \o SubSeq(s, i + 1, Len(s))
    ELSE s

Pooled == UNION { ToSet(list[c]) : c \in Class }

Init ==
    /\ size = [p \in Ptr |-> 0]
    /\ order = << >>
    /\ list = [c \in Class |-> << >>]
    /\ pooledBytes = 0 /\ liveBytes = 0 /\ peakLiveBytes = 0
    /\ poolCap = 0
    /\ phase = "idle"
    /\ held = [p \in Ptr |-> 0]
    /\ refused = 0
    /\ rawFreed = 0

-----------------------------------------------------------------------------
(* The driver and the whole-pool drain, on explicit allocations sz.         *)

Grants(sz, c, p) == sz[p] = 0 /\ UsedBytes(sz) + c <= DeviceBytes
Refuses(sz, c)   == \A p \in Ptr : ~Grants(sz, c, p)

\* Variants: a drain that forgets to free, and one that frees what callers hold.
DrainedNothing == size
DrainedEverything == [p \in Ptr |-> 0]

Drained == [p \in Ptr |-> IF p \in Pooled THEN 0 ELSE size[p]]

\* Variant: the byte counter is not reset.
EmptyPoolKeepsCount == order' = << >> /\ list' = [c \in Class |-> << >>] /\ UNCHANGED pooledBytes

EmptyPool == order' = << >> /\ list' = [c \in Class |-> << >>] /\ pooledBytes' = 0

\* Variant: the holder is told the class instead of its own bytes.
HandOutClass(b, p) ==
    /\ liveBytes' = liveBytes + sizeClass(b)
    /\ peakLiveBytes' = Max({peakLiveBytes, liveBytes + sizeClass(b)})
    /\ held' = [held EXCEPT ![p] = sizeClass(b)]
    /\ refused' = 0
    /\ UNCHANGED << poolCap, phase, rawFreed >>

\* What acquire does once it has a pointer of class c.
HandOut(b, p) ==
    /\ liveBytes' = liveBytes + sizeClass(b)
    /\ peakLiveBytes' = Max({peakLiveBytes, liveBytes + sizeClass(b)})
    /\ held' = [held EXCEPT ![p] = b]
    /\ refused' = 0
    /\ UNCHANGED << poolCap, phase, rawFreed >>

\* Variant: the pointer is read from the list but not popped.
AcquirePeek(b, p) ==
    LET c == sizeClass(b) IN
    /\ phase = "idle"
    /\ list[c] # << >>
    /\ p = Last(list[c])
    /\ UNCHANGED << pooledBytes, order, list, size >>
    /\ HandOut(b, p)

\* A free list of the class has a pointer: its newest one, and the class
\* becomes the most recently used.
AcquireFromPool(b, p) ==
    LET c == sizeClass(b) IN
    /\ phase = "idle"
    /\ list[c] # << >>
    /\ p = Last(list[c])
    /\ pooledBytes' = pooledBytes - c
    /\ order' = Append(Without(order, c), c)
    /\ list' = [list EXCEPT ![c] = Front(list[c])]
    /\ size' = size
    /\ HandOut(b, p)

\* alloc(): the driver has room.
AcquireFromDriver(b, p) ==
    LET c == sizeClass(b) IN
    /\ phase = "idle"
    /\ list[c] = << >>
    /\ Grants(size, c, p)
    /\ size' = [size EXCEPT ![p] = c]
    /\ UNCHANGED << order, list, pooledBytes >>
    /\ HandOut(b, p)

\* alloc(): CUDA_ERROR_OUT_OF_MEMORY, the pool is drained, the retry succeeds.
AcquireAfterDrain(b, p) ==
    LET c == sizeClass(b) IN
    /\ phase = "idle"
    /\ list[c] = << >>
    /\ Refuses(size, c)
    /\ Grants(Drained, c, p)
    /\ size' = [Drained EXCEPT ![p] = c]
    /\ EmptyPool
    /\ HandOut(b, p)

Acquire(b, p) ==
    AcquireFromPool(b, p) \/ AcquireFromDriver(b, p) \/ AcquireAfterDrain(b, p)

\* alloc(): the retry is refused as well and acquire throws.
AcquireFails(b) ==
    LET c == sizeClass(b) IN
    /\ phase = "idle"
    /\ list[c] = << >>
    /\ Refuses(size, c)
    /\ Refuses(Drained, c)
    /\ size' = Drained
    /\ EmptyPool
    /\ refused' = b
    /\ UNCHANGED << liveBytes, peakLiveBytes, poolCap, phase, held, rawFreed >>

-----------------------------------------------------------------------------
(* poolLimit() computes the limit from the free memory when it is not set;  *)
(* _trimPool returns at once when the pool is within it.                    *)

DefaultLimit == Max({FreeBytes(size) \div FreeDivisor, MinPoolBytes})

\* Variant: the pool is compared with its limit before the release counts.
EnterTrimLate(cap, pooled) ==
    LET limit == IF cap = 0 THEN DefaultLimit ELSE cap IN
    /\ poolCap' = limit
    /\ phase' = IF pooledBytes <= limit THEN "idle" ELSE "trim"

EnterTrim(cap, pooled) ==
    LET limit == IF cap = 0 THEN DefaultLimit ELSE cap IN
    /\ poolCap' = limit
    /\ phase' = IF pooled <= limit THEN "idle" ELSE "trim"

Release(p) ==
    LET c == sizeClass(held[p]) IN
    /\ phase = "idle"
    /\ held[p] # 0
    /\ list' = [list EXCEPT ![c] = Append(list[c], p)]
    /\ order' = Append(Without(order, c), c)
    /\ pooledBytes' = pooledBytes + c
    /\ liveBytes' = liveBytes - c
    /\ held' = [held EXCEPT ![p] = 0]
    /\ refused' = 0
    /\ EnterTrim(poolCap, pooledBytes + c)
    /\ UNCHANGED << size, peakLiveBytes, rawFreed >>

setPoolLimit(bytes) ==
    /\ phase = "idle"
    /\ refused' = 0
    /\ EnterTrim(Max({bytes, 0}), pooledBytes)
    /\ UNCHANGED << size, order, list, pooledBytes, liveBytes, peakLiveBytes,
                    held, rawFreed >>

\* One pointer of the loop: the newest pointer of the oldest class goes back
\* to the driver, an exhausted class leaves the map, and the loop ends within
\* the limit or with the map empty.  (The for..of visits each class once; it
\* leaves a class exhausted and deleted, or returns, so the class it is at is
\* always the first one left.)
TrimStep ==
    /\ phase = "trim"
    /\ order # << >>
    /\ LET c    == Head(order)
           s    == list[c]
           rest == IF s = << >> THEN s ELSE Front(s)
           left == IF s = << >> THEN pooledBytes ELSE pooledBytes - c
       IN  /\ size' = IF s = << >> THEN size ELSE [size EXCEPT ![Last(s)] = 0]
           /\ list' = [list EXCEPT ![c] = rest]
           /\ order' = IF rest = << >> THEN Tail(order) ELSE order
           /\ pooledBytes' = left
           /\ phase' = IF left <= poolCap \/ order' = << >> THEN "idle" ELSE "trim"
    /\ UNCHANGED << liveBytes, peakLiveBytes, poolCap, held, refused, rawFreed >>

drainPool ==
    /\ phase = "idle"
    /\ size' = Drained
    /\ EmptyPool
    /\ refused' = 0
    /\ UNCHANGED << liveBytes, peakLiveBytes, poolCap, phase, held, rawFreed >>

resetPeakLiveBytes ==
    /\ phase = "idle"
    /\ peakLiveBytes' = liveBytes
    /\ refused' = 0
    /\ UNCHANGED << size, order, list, pooledBytes, liveBytes, poolCap, phase,
                    held, rawFreed >>

\* freeOptimizerDeviceState and freeClipScratch give an acquired pointer to
\* free() instead of release(): the driver gets it back, _liveBytes keeps it.
FreeRaw(p) ==
    /\ phase = "idle"
    /\ rawFreed <= MaxRawFreed
    /\ held[p] # 0
    /\ size' = [size EXCEPT ![p] = 0]
    /\ held' = [held EXCEPT ![p] = 0]
    /\ rawFreed' = rawFreed + sizeClass(held[p])
    /\ refused' = 0
    /\ UNCHANGED << order, list, pooledBytes, liveBytes, peakLiveBytes, poolCap, phase >>

Next ==
    \/ \E b \in Bytes, p \in Ptr : Acquire(b, p)
    \/ \E b \in Bytes : AcquireFails(b)
    \/ \E p \in Ptr : Release(p) \/ FreeRaw(p)
    \/ \E l \in Limits : setPoolLimit(l)
    \/ TrimStep
    \/ drainPool
    \/ resetPeakLiveBytes

Spec == Init /\ [][Next]_poolVars
=============================================================================
