---------------------------- MODULE ResidentCache ----------------------------
(***************************************************************************)
(* The device-residency cache of the eager CUDA path,                      *)
(* src/runtime/node/cuda/resident.ts, on top of the size-class pool, and   *)
(* the kernel launch that drives it, runCudaKernelResident of              *)
(* cuda_runtime.ts.                                                        *)
(*                                                                         *)
(* A host typed array may have a device buffer (an entry).  deviceFresh    *)
(* says that the buffer has the array's contents, hostStale that only the  *)
(* buffer has them.  A launch takes the buffers of its arguments one after *)
(* another; a missing entry may first evict others.  Each call runs to     *)
(* completion (pc # "idle" while one runs), but its steps are modelled one *)
(* by one because a later step acts on what an earlier one left.           *)
(*                                                                         *)
(* Contents are modelled by who has them: hostHas[h] says the host array h *)
(* holds its current contents, devHas[p] which array's current contents    *)
(* the device memory at p holds, if any.  While a CUDA graph is captured   *)
(* (EagerGraph.tla) uploads and launches are only recorded, on tape.       *)
(***************************************************************************)
EXTENDS DevicePool

CONSTANTS
    Host,        \* host typed arrays
    byteLength,  \* byteLength[h], a member of Bytes
    Cap,         \* _cap(): the limit of the cache in bytes
    Kernels,     \* the launches the program makes: [args, scratch, pins]
    MaxLate,     \* a bound: the callbacks that late keeps, others count as run at once
    None         \* no host array, no device pointer

VARIABLES
    dptr,        \* dptr[h]: the buffer of the entry of h, None if h has no entry
    deviceFresh, \* deviceFresh[h], hostStale[h]: the flags of the entry
    hostStale,
    lru,         \* _entries in insertion order
    defBytes,    \* _defBytes
    late,        \* entries freed after their array died: the registry's callback is
                 \* still to run
    pinned,      \* _pinned
    capturing,   \* isEagerCapturing()
    capturePinned, \* _capturePinned
    tape,        \* the operations the capture has recorded
    alive,       \* the arrays that are not garbage-collected
    hostHas, devHas,
    pc,          \* where the running call is, "idle" between calls
    kern,        \* the launch under way
    got,         \* ptrs: the pointers gathered so far
    scratchPtr,  \* the pointer of its scratch buffer, None if it has none
    scan,        \* what the running loop over _entries has still to visit
    spoilt,      \* a launch ran on a buffer without its argument's contents
    lost,        \* scratch buffers of launches that threw: nobody releases them
    abandoned    \* outputs of calls that threw, which nobody was given

entryVars == << dptr, deviceFresh, hostStale, lru, defBytes, late >>
dataVars  == << hostHas, devHas >>
captureVars == << capturing, capturePinned, tape >>
callVars  == << pc, kern, got, scratchPtr, scan >>
ghosts    == << spoilt, lost, abandoned >>
vars == << poolVars, entryVars, pinned, captureVars, alive, dataVars, callVars, ghosts >>

ScratchBytes == 512
Roles == {"in", "out", "inout"}
NoKernel == [args |-> << >>, scratch |-> FALSE, pins |-> {}]

\* A launch passes at least one array; the arrays it pins (deviceAdam the
\* weights, the capture the batch) are among those it passes.
IsLaunch(k) ==
    /\ k \in [args : Seq([host : Host, role : Roles]), scratch : BOOLEAN, pins : SUBSET Host]
    /\ k.args # << >>
    /\ k.pins \subseteq { k.args[i].host : i \in DOMAIN k.args }

ASSUME HostAssumption ==
    /\ None \notin Ptr /\ None \notin Host
    /\ IsFiniteSet(Host) /\ byteLength \in [Host -> Bytes]
    /\ ScratchBytes \in Bytes
    /\ Cap \in Nat /\ MaxLate \in Nat
    /\ \A k \in Kernels : IsLaunch(k)

RInit ==
    /\ Init
    /\ dptr = [h \in Host |-> None]
    /\ deviceFresh = [h \in Host |-> FALSE]
    /\ hostStale = [h \in Host |-> FALSE]
    /\ lru = << >>
    /\ defBytes = 0 /\ late = {}
    /\ pinned = {}
    /\ capturing = FALSE /\ capturePinned = {} /\ tape = << >>
    /\ alive = Host
    /\ hostHas = [h \in Host |-> TRUE]
    /\ devHas = [p \in Ptr |-> None]
    /\ pc = "idle" /\ kern = NoKernel /\ got = << >>
    /\ scratchPtr = None /\ scan = << >>
    /\ spoilt = FALSE /\ lost = {} /\ abandoned = {}

-----------------------------------------------------------------------------
\* A step of the cache between two steps of the pool's trim loop is impossible.
Ready(p) == pc = p /\ phase = "idle"

Resident(h) == dptr[h] # None
\* Variant: the captured arrays are not pinned.
ProgramPins == pinned

Pinned == pinned \cup capturePinned
Arg == kern.args[Len(got) + 1]
Target == (Cap * 3) \div 4            \* LOW_WATER of the limit

\* Variant: the last argument is left out.
NextArgEarly(gathered) == IF Len(gathered) >= Len(kern.args) - 1 THEN "launch" ELSE "arg"

\* After an argument: the next one, or the launch.
NextArg(gathered) == IF Len(gathered) = Len(kern.args) THEN "launch" ELSE "arg"

\* Variant: deviceBufferForInplace forgets the mark.
MarksStaleOut(role) == role = "out"

MarksStale(role) == role \in {"out", "inout"}

\* deviceBufferForInput / Output / Inplace on the entry of h at p, whose
\* flags were fresh and stale: upload what is missing (_upload), then mark.
\* A capture records the upload and keeps the array's entry.
Use(h, role, p, fresh, stale) ==
    LET upload == role # "out" /\ ~fresh IN
    /\ deviceFresh' = [deviceFresh EXCEPT ![h] = TRUE]
    /\ hostStale' = [hostStale EXCEPT ![h] = stale \/ MarksStale(role)]
    /\ devHas' = IF upload /\ ~capturing
                 THEN [devHas EXCEPT ![p] = IF hostHas[h] THEN h ELSE None]
                 ELSE devHas
    /\ tape' = IF upload /\ capturing
               THEN Append(tape, [op |-> "copy", host |-> h, ptr |-> p])
               ELSE tape
    /\ capturePinned' = IF capturing THEN capturePinned \cup {h} ELSE capturePinned
    /\ got' = Append(got, p)
    /\ pc' = NextArg(got')
    /\ UNCHANGED << hostHas, capturing, kern, scratchPtr, alive, ghosts >>

\* runCudaKernelResident: an optional scratch buffer first (_acquireScratch).
\* deviceAdam pins the weights before it gathers.
Launch(k) ==
    /\ Ready("idle")
    /\ \A i \in DOMAIN k.args : k.args[i].host \in alive \ abandoned
    /\ kern' = k
    /\ pinned' = pinned \cup k.pins
    /\ pc' = IF k.scratch THEN "scratch" ELSE "arg"
    /\ UNCHANGED << poolVars, entryVars, captureVars, alive, dataVars, got, scratchPtr, scan, ghosts >>

AcquireScratch ==
    /\ Ready("scratch")
    /\ \E p \in Ptr : Acquire(ScratchBytes, p) /\ scratchPtr' = p
    /\ pc' = "arg"
    /\ UNCHANGED << entryVars, pinned, captureVars, alive, dataVars, kern, got, scan, ghosts >>

\* _defEntry finds an entry and makes it the most recently used.
ArgResident ==
    LET h == Arg.host IN
    /\ Ready("arg")
    /\ Resident(h)
    /\ lru' = Append(Without(lru, h), h)
    /\ Use(h, Arg.role, dptr[h], deviceFresh[h], hostStale[h])
    /\ UNCHANGED << poolVars, dptr, defBytes, late, pinned, scan >>

\* _defEntry finds none: _evict starts, unless there is room.
ArgMissing ==
    /\ Ready("arg")
    /\ ~Resident(Arg.host)
    /\ IF capturing \/ defBytes + byteLength[Arg.host] <= Cap
       THEN pc' = "create" /\ scan' = << >>
       ELSE pc' = "clean" /\ scan' = lru
    /\ UNCHANGED << poolVars, entryVars, pinned, captureVars, alive, dataVars, kern, got, scratchPtr, ghosts >>

CreateEntry ==
    LET h == Arg.host IN
    /\ Ready("create")
    /\ \E p \in Ptr :
          /\ Acquire(byteLength[h], p)
          /\ dptr' = [dptr EXCEPT ![h] = p]
          /\ Use(h, Arg.role, p, FALSE, FALSE)
    /\ lru' = Append(lru, h)
    /\ defBytes' = defBytes + byteLength[h]
    /\ UNCHANGED << late, pinned, scan >>

\* The outputs of the launch under way that its gathering has marked.
MarkedOutputs == { kern.args[i].host : i \in { i \in DOMAIN got : kern.args[i].role = "out" } }

\* acquire throws: the call is abandoned where it is, with its scratch buffer
\* still acquired.  The outputs it had marked fresh and stale keep the marks,
\* over buffers that nobody wrote; the caller made them for this call, so with
\* the throw nobody refers to them, but the cache goes on evicting them.
GatherFails ==
    /\ \/ Ready("scratch") /\ AcquireFails(ScratchBytes)
       \/ Ready("create") /\ AcquireFails(byteLength[Arg.host])
    /\ pc' = "idle" /\ kern' = NoKernel /\ got' = << >> /\ scratchPtr' = None
    /\ lost' = lost \cup ({scratchPtr} \ {None})
    /\ abandoned' = abandoned \cup MarkedOutputs
    /\ UNCHANGED << entryVars, pinned, captureVars, alive, dataVars, scan, spoilt >>

-----------------------------------------------------------------------------
\* The entry of h goes, after _syncDownload of stale contents (writeBack) or
\* without.  Device contents dropped leave the host's bytes as the contents.
ReclaimEntry(h, writeBack) ==
    /\ Release(dptr[h])
    /\ hostHas' = IF h \in alive /\ hostStale[h]
                  THEN [hostHas EXCEPT ![h] = writeBack => devHas[dptr[h]] = h]
                  ELSE hostHas
    /\ devHas' = [p \in Ptr |-> IF devHas[p] = h /\ ~writeBack /\ hostStale[h]
                                THEN None ELSE devHas[p]]
    /\ dptr' = [dptr EXCEPT ![h] = None]
    /\ deviceFresh' = [deviceFresh EXCEPT ![h] = FALSE]
    /\ hostStale' = [hostStale EXCEPT ![h] = FALSE]
    /\ lru' = Without(lru, h)
    /\ defBytes' = defBytes - byteLength[h]

\* _freeEntry: the callback of a live array is unregistered, that of a dead
\* one will still run.
FreeEntry(h, writeBack) ==
    /\ ReclaimEntry(h, writeBack)
    /\ late' = IF h \in alive \/ Cardinality(late) >= MaxLate THEN late
               ELSE late \cup {[ptr |-> dptr[h], bytes |-> byteLength[h]]}

KeepEntries == UNCHANGED << poolVars, entryVars, dataVars >>

\* Variant: the incoming bytes do not count.
EnoughRoomNow == defBytes <= Cap

EnoughRoom == defBytes + byteLength[Arg.host] <= Target

\* Variant: the pins of the program do not protect from eviction.
EvictableCaptured == alive \ capturePinned

Evictable == alive \ Pinned

\* One iteration of _evictPass: the clean pass skips stale entries, both
\* skip pinned ones.
EvictStep ==
    /\ Ready("clean") \/ Ready("dirty")
    /\ scan # << >>
    /\ ~EnoughRoom
    /\ LET h == Head(scan) IN
          \/ h \notin alive /\ FreeEntry(h, FALSE)
          \/ h \in Evictable /\ ~hostStale[h] /\ FreeEntry(h, pc = "dirty")
          \/ h \in Evictable /\ hostStale[h] /\ pc = "dirty" /\ FreeEntry(h, TRUE)
          \/ h \in Evictable /\ hostStale[h] /\ pc = "clean" /\ KeepEntries
          \/ h \in alive \ Evictable /\ KeepEntries
    /\ scan' = Tail(scan)
    /\ UNCHANGED << pinned, captureVars, alive, pc, kern, got, scratchPtr, ghosts >>

\* A pass ends; the dirty pass follows the clean one if that freed too little.
EvictPassEnds ==
    /\ Ready("clean") \/ Ready("dirty")
    /\ scan = << >> \/ EnoughRoom
    /\ IF pc = "clean" /\ ~EnoughRoom
       THEN pc' = "dirty" /\ scan' = lru
       ELSE pc' = "create" /\ scan' = << >>
    /\ UNCHANGED << poolVars, entryVars, pinned, captureVars, alive, dataVars, kern, got, scratchPtr, ghosts >>

-----------------------------------------------------------------------------
\* The kernel on explicit buffers: it reads the contents of the in and inout
\* arguments and writes the out and inout ones (and its scratch buffer).
Reads(k)  == { i \in DOMAIN k.args : k.args[i].role # "out" }
Writes(k) == { i \in DOMAIN k.args : k.args[i].role # "in" }

SeesArguments(k, ptrs) ==
    /\ \A i \in Reads(k) : devHas[ptrs[i]] = k.args[i].host
    /\ \A i \in Writes(k), j \in DOMAIN k.args :
          k.args[i].host # k.args[j].host => ptrs[i] # ptrs[j]

KernelEffect(k, ptrs, scr) ==
    LET written == { k.args[i].host : i \in Writes(k) }
        buffers == { ptrs[i] : i \in Writes(k) }
    IN  /\ hostHas' = [h \in Host |-> hostHas[h] /\ h \notin written]
        /\ devHas' = [p \in Ptr |->
              IF p \in buffers
              THEN IF SeesArguments(k, ptrs)
                   THEN k.args[CHOOSE i \in Writes(k) : ptrs[i] = p].host
                   ELSE None
              ELSE IF p = scr \/ devHas[p] \in written THEN None
              ELSE devHas[p]]

\* Variant: the scratch buffer is not released.
LaunchKeepsScratch == pc' = "idle" /\ kern' = NoKernel /\ got' = << >>

LaunchEnds ==
    IF scratchPtr = None
    THEN pc' = "idle" /\ kern' = NoKernel /\ got' = << >>
    ELSE pc' = "release" /\ UNCHANGED << kern, got >>

RunKernel ==
    /\ Ready("launch")
    /\ ~capturing
    /\ KernelEffect(kern, got, scratchPtr)
    /\ spoilt' = (spoilt \/ ~SeesArguments(kern, got))
    /\ LaunchEnds
    /\ UNCHANGED << poolVars, entryVars, pinned, captureVars, alive, scratchPtr, scan,
                    lost, abandoned >>

RecordKernel ==
    /\ Ready("launch")
    /\ capturing
    /\ tape' = Append(tape, [op |-> "launch", kern |-> kern, ptrs |-> got, scr |-> scratchPtr])
    /\ LaunchEnds
    /\ UNCHANGED << poolVars, entryVars, pinned, capturing, capturePinned, alive,
                    dataVars, scratchPtr, scan, ghosts >>

ReleaseScratch ==
    /\ Ready("release")
    /\ Release(scratchPtr)
    /\ scratchPtr' = None
    /\ pc' = "idle" /\ kern' = NoKernel /\ got' = << >>
    /\ UNCHANGED << entryVars, pinned, captureVars, alive, dataVars, scan, ghosts >>

-----------------------------------------------------------------------------
\* Variant: a host read leaves the buffer marked fresh.
AccessKeepsFresh(h) ==
    /\ UNCHANGED deviceFresh
    /\ hostStale' = [hostStale EXCEPT ![h] = FALSE]

\* The marks hostReadHook leaves, during a capture as they were.
AccessMarks(h) ==
    /\ deviceFresh' = [deviceFresh EXCEPT ![h] = capturing /\ deviceFresh[h]]
    /\ hostStale' = [hostStale EXCEPT ![h] = FALSE]

\* The storage's data getter calls hostReadHook, then the caller reads the
\* array, or overwrites it.  A capture forbids the read of a stale array and
\* leaves the marks of any other alone.
HostAccess(h, write) ==
    /\ Ready("idle")
    /\ h \in alive \ abandoned
    /\ ~(capturing /\ hostStale[h])
    /\ hostHas' = [hostHas EXCEPT ![h] =
          \/ write
          \/ IF hostStale[h] THEN devHas[dptr[h]] = h ELSE hostHas[h]]
    /\ devHas' = [p \in Ptr |-> IF write /\ devHas[p] = h THEN None ELSE devHas[p]]
    /\ AccessMarks(h)
    /\ UNCHANGED << poolVars, dptr, lru, defBytes, late, pinned, captureVars, alive, callVars, ghosts >>

\* flushDeferred and releaseAllResident walk over every entry.
StartWalk(kind) ==
    /\ Ready("idle")
    /\ ~capturing
    /\ pc' = kind
    /\ scan' = lru
    /\ UNCHANGED << poolVars, entryVars, pinned, captureVars, alive, dataVars, kern, got, scratchPtr, ghosts >>

FlushStep ==
    /\ Ready("flush")
    /\ scan # << >>
    /\ LET h == Head(scan) IN
          IF h \in alive \cap Pinned THEN KeepEntries ELSE FreeEntry(h, FALSE)
    /\ scan' = Tail(scan)
    /\ UNCHANGED << pinned, captureVars, alive, pc, kern, got, scratchPtr, ghosts >>

\* Variant: nothing is written back.
ReleaseAllDrops ==
    /\ Ready("releaseAll")
    /\ scan # << >>
    /\ FreeEntry(Head(scan), FALSE)
    /\ scan' = Tail(scan)
    /\ UNCHANGED << pinned, captureVars, alive, pc, kern, got, scratchPtr, ghosts >>

ReleaseAllStep ==
    /\ Ready("releaseAll")
    /\ scan # << >>
    /\ FreeEntry(Head(scan), TRUE)
    /\ scan' = Tail(scan)
    /\ UNCHANGED << pinned, captureVars, alive, pc, kern, got, scratchPtr, ghosts >>

WalkEnds ==
    /\ Ready("flush") \/ Ready("releaseAll")
    /\ scan = << >>
    /\ pinned' = IF pc = "releaseAll" THEN {} ELSE pinned
    /\ capturePinned' = IF pc = "releaseAll" THEN {} ELSE capturePinned
    /\ pc' = "idle"
    /\ UNCHANGED << poolVars, entryVars, capturing, tape, alive, dataVars, kern, got,
                    scratchPtr, scan, ghosts >>

-----------------------------------------------------------------------------
\* Garbage collection between calls: an unreachable array dies, and at some
\* later time the FinalizationRegistry callback reclaims its entry.
Collect(h) ==
    /\ Ready("idle")
    /\ h \in alive
    /\ alive' = alive \ {h}
    /\ pinned' = pinned \ {h}
    /\ capturePinned' = capturePinned \ {h}
    /\ UNCHANGED << poolVars, entryVars, capturing, tape, dataVars, callVars, ghosts >>

Finalize(h) ==
    /\ Ready("idle")
    /\ h \notin alive /\ Resident(h)
    /\ ReclaimEntry(h, FALSE)
    /\ UNCHANGED << late, pinned, captureVars, alive, callVars, ghosts >>

\* Variant: the callback does not look whether the entry is freed already.
LateFinalizeAgain(e) ==
    /\ Ready("idle")
    /\ e \in late
    /\ late' = late \ {e}
    /\ defBytes' = defBytes - e.bytes
    /\ IF held[e.ptr] = 0 THEN UNCHANGED poolVars ELSE Release(e.ptr)
    /\ UNCHANGED << dptr, deviceFresh, hostStale, lru, pinned, captureVars, alive, dataVars,
                    callVars, ghosts >>

\* The callback of an entry that went in the meantime, by an eviction, a flush
\* or releaseAllResident: it finds the entry freed and does nothing, though the
\* buffer may have another owner by now.
LateFinalize(e) ==
    /\ Ready("idle")
    /\ e \in late
    /\ late' = late \ {e}
    /\ UNCHANGED << poolVars, dptr, deviceFresh, hostStale, lru, defBytes, pinned, captureVars,
                    alive, dataVars, callVars, ghosts >>

\* The program allocates a new array (in the place of a dead one).
NewArray(h) ==
    /\ Ready("idle")
    /\ h \notin alive /\ ~Resident(h)
    /\ alive' = alive \cup {h}
    /\ hostHas' = [hostHas EXCEPT ![h] = TRUE]
    /\ devHas' = [p \in Ptr |-> IF devHas[p] = h THEN None ELSE devHas[p]]
    /\ abandoned' = abandoned \ {h}
    /\ UNCHANGED << poolVars, entryVars, pinned, captureVars, callVars, spoilt, lost >>

\* Pool operations of other parts of the runtime (teardown, the trim loop).
PoolStep ==
    /\ TrimStep \/ (pc = "idle" /\ drainPool)
    /\ UNCHANGED << entryVars, pinned, captureVars, alive, dataVars, callVars, ghosts >>

\* The cache without a capture; EagerGraph adds RecordKernel.
RNext ==
    \/ \E k \in Kernels : Launch(k)
    \/ AcquireScratch \/ ArgResident \/ ArgMissing \/ CreateEntry \/ GatherFails
    \/ EvictStep \/ EvictPassEnds
    \/ RunKernel \/ ReleaseScratch
    \/ \E h \in Host, write \in BOOLEAN : HostAccess(h, write)
    \/ \E kind \in {"flush", "releaseAll"} : StartWalk(kind)
    \/ FlushStep \/ ReleaseAllStep \/ WalkEnds
    \/ \E h \in Host : Collect(h) \/ Finalize(h) \/ NewArray(h)
    \/ \E e \in late : LateFinalize(e)
    \/ PoolStep

RSpec == RInit /\ [][RNext]_vars
=============================================================================
