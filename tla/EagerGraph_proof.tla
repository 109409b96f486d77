---------------------------- MODULE EagerGraph_proof ----------------------------
(***************************************************************************)
(* Whole-step graphs for any program of launches, any arrays and any       *)
(* device: the bookkeeping of the cache survives warm-up, capture, replay, *)
(* a capture that throws and the teardown, and the buffers of a captured   *)
(* step stay where they are until the fit ends.                            *)
(*                                                                         *)
(* A step of a fit is a step of the cache (CacheNext of ResidentCache_proof) *)
(* or one of six that work behind its back.  GInv adds to the cache's      *)
(* invariant what a recording holds, which calls can run in which mode,    *)
(* and that the arrays of a recording are pinned or have no entry: a       *)
(* launch gives an array its entry and its pin in one step, and in replay  *)
(* mode nothing launches.                                                  *)
(*                                                                         *)
(* For programs that train in place GContentInv follows the contents: the  *)
(* warm-up leaves the weights on the device to stay, so a capture uploads  *)
(* nothing and its marks are right once the recording runs; what is left   *)
(* of a recording makes the loss before it reads it, so each replay turns  *)
(* the batch in the input buffer into the loss in the output buffer.       *)
(***************************************************************************)
EXTENDS EagerGraphProps, ResidentCache_proof

Uploads == { [args |-> << [host |-> h, role |-> "in"] >>, scratch |-> FALSE, pins |-> {h}] : h \in Host }
Launches == Kernels \cup Uploads

Op == [op : {"copy"}, host : Host, ptr : Ptr]
      \cup [op : {"launch"}, kern : Launches, ptrs : Seq(Ptr), scr : Ptr \cup {None}]

GraphRecords ==
    [tape : Seq(Op), input : Host \cup {None}, output : Host \cup {None},
     inPtr : Ptr \cup {None}, lossPtr : Ptr \cup {None}]

\* The arrays a recording names.
TapeHosts(tp) ==
    { tp[i].host : i \in Ops(tp, "copy") }
    \cup UNION { { tp[i].kern.args[j].host : j \in DOMAIN tp[i].kern.args } : i \in Ops(tp, "launch") }

GraphTypes ==
    /\ GTypeOK
    /\ graph \in GraphRecords
    /\ tape \in Seq(Op) /\ work \in Seq(Op)
    /\ kern \in Launches \cup {NoKernel}

\* Which calls can be under way in which mode.
ModeInv ==
    /\ capturing = (mode = "capture")
    /\ pc = "releaseAll" => mode = "off"
    /\ pc = "replay" => mode = "replay" /\ batch \in Host
    /\ mode \in {"upload", "capture"} => batch \in Host /\ loss \in Host
    /\ step # << >> => mode \in {"warmup", "disabled", "upload", "capture"}
    /\ mode \in {"off", "replay", "teardown"} => pc \notin Launching

\* The arrays of a recording keep their entries: they are pinned.
HostsKept(tp) == \A h \in TapeHosts(tp) \cap alive : h \in Pinned \/ dptr[h] = None

CapturedInv ==
    /\ mode = "capture" => HostsKept(tape)
    /\ mode = "capture" => \A i \in DOMAIN got : kern.args[i].host \in capturePinned
    /\ mode = "replay" => HostsKept(graph.tape)

GInv == PoolInv /\ CacheInv /\ GraphTypes /\ ModeInv /\ CapturedInv

\* The steps that are not the cache's own.
BehindBack ==
    \/ BeginCapture \/ EndCapture \/ (\E y \in Host, place \in CapturePlaces : CaptureFails(y, place))
    \/ (\E x \in Host : ReplayStep(x)) \/ RunRecorded \/ ReplayEnds

-----------------------------------------------------------------------------
\* What a step of the program launches is a launch.
LEMMA LaunchesAreLaunches == \A k \in Launches : IsLaunch(k)
<1>1. ASSUME NEW h \in Host
      PROVE  IsLaunch([args |-> << [host |-> h, role |-> "in"] >>, scratch |-> FALSE, pins |-> {h}])
  <2> DEFINE r == [host |-> h, role |-> "in"]
             s == << r >>
  <2>1. r \in [host : Host, role : Roles] /\ r.host = h
    BY DEF Roles
  <2> HIDE DEF r
  <2>2. s \in Seq([host : Host, role : Roles]) /\ s # << >> /\ 1 \in DOMAIN s /\ s[1] = r
    BY <2>1
  <2> HIDE DEF s
  <2>3. {h} \subseteq { s[i].host : i \in DOMAIN s }
    BY <2>1, <2>2
  <2> QED
    BY <2>2, <2>3 DEF IsLaunch, s, r
<1> QED
  BY <1>1, HostAssumption DEF Launches, Uploads

\* The cache's variables but late stay when all do.
LEMMA SameCache == UNCHANGED vars => UNCHANGED cacheVars
  BY DEF vars, entryVars, cacheVars

\* A finalizer frees an entry of the cache, or comes late and does nothing.
LEMMA FinalizeKinds ==
    ASSUME GFinalize
    PROVE  UNCHANGED graphVars /\ (UNCHANGED cacheVars \/ \E h \in Host : Finalize(h))
  BY DEF GFinalize, LateFinalize, cacheVars

\* A step of a fit is one behind the cache's back, a call of the cache or a
\* host access.
LEMMA FitCalls ==
    ASSUME GraphTypes, [GNext]_gvars
    PROVE  \/ BehindBack \/ [CallStep]_cacheVars
           \/ \E h \in Host, write \in BOOLEAN : GHostAccess(h, write) /\ HostAccess(h, write)
<1>1. CASE StepLaunch
  <2>1. Head(step) \in Launches
    BY <1>1 DEF StepLaunch, GraphTypes, GTypeOK, Launches, Uploads
  <2> QED
    BY <1>1, <2>1, LaunchesAreLaunches DEF StepLaunch, CallStep
<1>2. CASE \E x, y \in Host : EagerStep(x, y) \/ CaptureUpload(x, y)
  BY <1>2, SameCache DEF EagerStep, CaptureUpload
<1>3. CASE EagerStepEnds \/ FitEnds \/ (mode = "off" /\ StartWalk("releaseAll") /\ UNCHANGED graphVars)
  BY <1>3 DEF EagerStepEnds, FitEnds, CallStep
<1>4. CASE TeardownEnds
  BY <1>4 DEF TeardownEnds, Between, Idle, Ready, CallStep, PoolStep
<1>5. CASE CacheStep
  BY <1>5 DEF CacheStep, CallStep, PoolStep
<1>6. CASE \/ \E h \in Host, write \in BOOLEAN : GHostAccess(h, write)
           \/ \E h \in Host : GCollect(h) \/ GNewArray(h)
           \/ GFinalize
  BY <1>6, FinalizeKinds DEF GHostAccess, GCollect, GNewArray, CallStep
<1>7. CASE BehindBack \/ UNCHANGED gvars
  BY <1>7, SameCache DEF gvars
<1> QED
  BY <1>1, <1>2, <1>3, <1>4, <1>5, <1>6, <1>7 DEF GNext, BehindBack

\* The last two are the cache's own.
LEMMA FitSteps ==
    ASSUME GraphTypes, [GNext]_gvars
    PROVE  BehindBack \/ [CacheNext]_cacheVars
  BY FitCalls DEF CacheNext

-----------------------------------------------------------------------------
(* The steps behind the cache's back.                                       *)

\* A recorded launch on the batch of the replay is one on arrays.
LEMMA BatchHosts ==
    ASSUME batch \in Host, NEW k \in Launches
    PROVE  /\ DOMAIN OnBatch(k).args = DOMAIN k.args
           /\ \A i \in DOMAIN OnBatch(k).args : OnBatch(k).args[i].host \in Host
           /\ \A i \in DOMAIN k.args :
                 /\ OnBatch(k).args[i].role = k.args[i].role
                 /\ OnBatch(k).args[i].host = IF k.args[i].host = graph.input THEN batch ELSE k.args[i].host
<1>1. /\ \A i \in DOMAIN k.args : k.args[i].host \in Host
      /\ \A i \in DOMAIN k.args : k.args[i] = [host |-> k.args[i].host, role |-> k.args[i].role]
  BY LaunchesAreLaunches, LaunchArgs
<1> DEFINE a == [i \in DOMAIN k.args |->
             IF k.args[i].host = graph.input THEN [k.args[i] EXCEPT !.host = batch] ELSE k.args[i]]
<1>2. OnBatch(k) = [k EXCEPT !.args = a]
  BY DEF OnBatch
<1>3. OnBatch(k).args = a
  <2>1. k \in [args : Seq([host : Host, role : Roles]), scratch : BOOLEAN, pins : SUBSET Host]
    BY LaunchesAreLaunches DEF IsLaunch
  <2> HIDE DEF a
  <2> QED
    BY <1>2, <2>1
<1>4. DOMAIN a = DOMAIN k.args
      /\ \A i \in DOMAIN k.args :
            /\ a[i].host \in Host /\ a[i].role = k.args[i].role
            /\ a[i].host = IF k.args[i].host = graph.input THEN batch ELSE k.args[i].host
  <2>1. ASSUME NEW i \in DOMAIN k.args
        PROVE  /\ a[i].host \in Host /\ a[i].role = k.args[i].role
               /\ a[i].host = IF k.args[i].host = graph.input THEN batch ELSE k.args[i].host
    <3>1. k.args[i] = [host |-> k.args[i].host, role |-> k.args[i].role] /\ k.args[i].host \in Host
      BY <1>1
    <3> QED
      BY <3>1
  <2> QED
    BY <2>1
<1> QED
  BY <1>3, <1>4

\* Contents after a kernel on any arrays.
LEMMA EffectTypes ==
    ASSUME CacheTypes, NEW k, \A i \in DOMAIN k.args : k.args[i].host \in Host,
           NEW ptrs, NEW scr, KernelEffect(k, ptrs, scr)
    PROVE  hostHas' \in [Host -> BOOLEAN] /\ devHas' \in [Ptr -> Host \cup {None}]
<1>1. hostHas' \in [Host -> BOOLEAN]
  <2>1. \A h \in Host : (hostHas[h] /\ h \notin { k.args[i].host : i \in Writes(k) }) \in BOOLEAN
    OBVIOUS
  <2> QED
    BY <2>1, Zenon DEF KernelEffect
<1>2. devHas' \in [Ptr -> Host \cup {None}]
  <2>1. \A p \in { ptrs[i] : i \in Writes(k) } :
            k.args[CHOOSE i \in Writes(k) : ptrs[i] = p].host \in Host
    BY DEF Writes
  <2> QED
    BY <2>1 DEF KernelEffect, CacheTypes
<1> QED
  BY <1>1, <1>2

\* Contents after an operation of a recording.
LEMMA RecordedTypes ==
    ASSUME CacheTypes, GraphTypes, batch \in Host, work # << >>, Recorded
    PROVE  /\ hostHas' \in [Host -> BOOLEAN] /\ devHas' \in [Ptr -> Host \cup {None}]
           /\ spoilt' \in BOOLEAN /\ UNCHANGED << lost, abandoned >>
<1>1. Head(work) \in Op
  BY DEF GraphTypes
<1>2. CASE Head(work).op = "copy"
  <2>1. Head(work).host \in Host
    BY <1>1, <1>2 DEF Op
  <2>2. devHas' = [devHas EXCEPT ![Head(work).ptr] = IF hostHas[Head(work).host] THEN Head(work).host ELSE None]
        /\ UNCHANGED << hostHas, ghosts >>
    BY <1>2 DEF Recorded
  <2> QED
    BY <2>1, <2>2 DEF CacheTypes, ghosts
<1>3. CASE Head(work).op = "launch"
  <2> DEFINE k == OnBatch(Head(work).kern)
  <2>1. Head(work).kern \in Launches
    BY <1>1, <1>3 DEF Op
  <2>2. \A i \in DOMAIN k.args : k.args[i].host \in Host
    BY <2>1, BatchHosts
  <2>3. /\ KernelEffect(k, Head(work).ptrs, Head(work).scr)
        /\ spoilt' = (spoilt \/ ~SeesArguments(k, Head(work).ptrs))
        /\ UNCHANGED << lost, abandoned >>
    BY <1>3 DEF Recorded
  <2> HIDE DEF k
  <2>4. spoilt' \in BOOLEAN
    BY <2>3, Zenon
  <2> QED
    BY <2>2, <2>3, <2>4, EffectTypes
<1> QED
  BY <1>1, <1>2, <1>3 DEF Op

\* They keep the bookkeeping, and the pool.
LEMMA BehindBackKeeps ==
    ASSUME PoolInv, CacheInv, GraphTypes, ModeInv, BehindBack
    PROVE  [Next]_poolVars /\ PoolInv' /\ CacheInv'
<1>1. /\ UNCHANGED << poolVars, entryVars, pinned, alive, kern, got, scratchPtr >>
      /\ UNCHANGED << lost, abandoned >>
  <2>1. CASE RunRecorded
    <3>1. UNCHANGED << lost, abandoned >>
      BY <2>1 DEF RunRecorded, Recorded, ghosts
    <3> QED
      BY <2>1, <3>1 DEF RunRecorded, callVars
  <2> QED
    BY <2>1 DEF BehindBack, BeginCapture, EndCapture, CaptureFails, ReplayStep, ReplayEnds,
       callVars, ghosts
<1>2. PoolInv' /\ [Next]_poolVars
  BY <1>1, NextPool
<1>3. BufferInv' /\ CacheAccounting'
  <2>1. BuffersKept
    BY <1>1 DEF BuffersKept, poolVars, entryVars
  <2> QED
    BY <1>2, <2>1, KeepEffect DEF BufferStep
<1>4. /\ capturing' \in BOOLEAN /\ capturePinned' \in {capturePinned, {}}
      /\ pc \notin Launching /\ pc' \notin Launching
      /\ scan' \in {scan, lru}
      /\ pc' \in {"clean", "dirty", "flush", "releaseAll"} => pc' = "flush" /\ scan' = lru
  <2>1. CASE BeginCapture \/ (\E y \in Host, place \in CapturePlaces : CaptureFails(y, place))
    BY <2>1 DEF BeginCapture, CaptureFails, Between, Idle, Ready, callVars, Launching
  <2>2. CASE EndCapture \/ (\E x \in Host : ReplayStep(x)) \/ RunRecorded
    BY <2>2 DEF EndCapture, ReplayStep, RunRecorded, Between, Idle, Ready, callVars, captureVars,
       Launching, CacheInv, CacheTypes
  <2>3. CASE ReplayEnds
    BY <2>3 DEF ReplayEnds, captureVars, Launching, CacheInv, CacheTypes
  <2> QED
    BY <2>1, <2>2, <2>3 DEF BehindBack
<1>5. /\ hostHas' \in [Host -> BOOLEAN] /\ devHas' \in [Ptr -> Host \cup {None}]
      /\ spoilt' \in BOOLEAN
  <2>1. CASE RunRecorded
    <3>1. batch \in Host
      BY <2>1 DEF RunRecorded, ModeInv
    <3> QED
      BY <2>1, <3>1, RecordedTypes DEF RunRecorded, CacheInv
  <2>2. CASE \E x \in Host : ReplayStep(x)
    BY <2>2 DEF ReplayStep, CacheInv, CacheTypes, ghosts
  <2>3. CASE BeginCapture \/ EndCapture \/ (\E y \in Host, place \in CapturePlaces : CaptureFails(y, place)) \/ ReplayEnds
    BY <2>3 DEF BeginCapture, EndCapture, CaptureFails, ReplayEnds, CacheInv, CacheTypes, dataVars, ghosts
  <2> QED
    BY <2>1, <2>2, <2>3 DEF BehindBack
<1>6. CacheTypes'
  BY <1>1, <1>4, <1>5 DEF CacheInv, CacheTypes, entryVars
<1>7. CallInv'
  BY <1>1, <1>4 DEF CacheInv, CallInv, Launching
<1>8. ScanInv'
  <2>1. Once(lru) /\ ToSet(lru) = Residents
    BY AccountingMeaning DEF CacheInv, CacheTypes
  <2> QED
    BY <1>1, <1>4, <2>1 DEF ScanInv, Residents, entryVars
<1>9. PinInv'
  BY <1>1, <1>4 DEF CacheInv, PinInv, Pinned
<1> QED
  BY <1>2, <1>3, <1>6, <1>7, <1>8, <1>9 DEF CacheInv

-----------------------------------------------------------------------------
(* The types.                                                               *)

\* A queue of operations, one longer.
LEMMA Recording ==
    ASSUME NEW tp \in Seq(Op), NEW o
    PROVE  o \in Op => Append(tp, o) \in Seq(Op)
  BY DEF Op

\* What a call of the cache adds to the recording.
LEMMA TapeSteps ==
    ASSUME PoolInv, CacheInv, GraphTypes, [CacheNext]_cacheVars
    PROVE  tape' \in Seq(Op)
<1>1. tape \in Seq(Op) /\ kern \in Launches \cup {NoKernel} /\ CacheTypes /\ CallInv
  BY DEF GraphTypes, CacheInv
<1>2. CASE ArgResident \/ CreateEntry
  <2>1. IsLaunch(kern) /\ got \in Seq(Ptr) /\ Len(got) < Len(kern.args)
    BY <1>1, <1>2 DEF ArgResident, CreateEntry, Ready, CallInv, Launching, CacheTypes
  <2>2. Arg.host \in Host
    BY <2>1, ArgType
  <2>3. PICK p \in Ptr, fresh \in {deviceFresh[Arg.host], FALSE}, stale \in {hostStale[Arg.host], FALSE} :
               Use(Arg.host, Arg.role, p, fresh, stale)
    BY <1>1, <1>2, <2>2 DEF ArgResident, CreateEntry, Resident, CacheTypes
  <2>4. [op |-> "copy", host |-> Arg.host, ptr |-> p] \in Op
    BY <2>2 DEF Op
  <2>5. tape' \in {tape, Append(tape, [op |-> "copy", host |-> Arg.host, ptr |-> p])}
    BY <2>3 DEF Use
  <2> QED
    BY <1>1, <2>4, <2>5, Recording
<1>3. CASE RecordKernel
  <2>1. kern \in Launches /\ got \in Seq(Ptr) /\ scratchPtr \in Ptr \cup {None}
    <3>1. IsLaunch(kern)
      BY <1>1, <1>3 DEF RecordKernel, Ready, CallInv, Launching
    <3>2. kern.args # << >>
      BY <3>1 DEF IsLaunch
    <3> QED
      BY <1>1, <3>2 DEF NoKernel, CacheTypes
  <2>2. [op |-> "launch", kern |-> kern, ptrs |-> got, scr |-> scratchPtr] \in Op
    BY <2>1 DEF Op
  <2>3. tape' = Append(tape, [op |-> "launch", kern |-> kern, ptrs |-> got, scr |-> scratchPtr])
    BY <1>3 DEF RecordKernel
  <2> QED
    BY <1>1, <2>2, <2>3, Recording
<1>4. CASE \E k : Launch(k)
  BY <1>1, <1>4 DEF Launch, captureVars
<1>5. CASE AcquireScratch \/ ArgMissing \/ GatherFails \/ EvictStep \/ EvictPassEnds \/ RunKernel
           \/ ReleaseScratch \/ FlushStep \/ ReleaseAllStep \/ WalkEnds
  BY <1>1, <1>5 DEF AcquireScratch, ArgMissing, GatherFails, EvictStep, EvictPassEnds, RunKernel,
     ReleaseScratch, FlushStep, ReleaseAllStep, WalkEnds, LaunchEnds, captureVars
<1>6. CASE \/ \E h \in Host, write \in BOOLEAN : HostAccess(h, write)
           \/ \E kind \in {"flush", "releaseAll"} : StartWalk(kind)
           \/ \E h \in Host : Collect(h) \/ Finalize(h) \/ NewArray(h)
           \/ PoolStep \/ UNCHANGED cacheVars
  BY <1>1, <1>6 DEF HostAccess, StartWalk, Collect, Finalize, NewArray, PoolStep, cacheVars, captureVars, callVars
<1> QED
  BY <1>2, <1>3, <1>4, <1>5, <1>6 DEF CacheNext, CallStep

\* The launch under way is one of the program's.
LEMMA KernSteps ==
    ASSUME GraphTypes, [GNext]_gvars
    PROVE  kern' \in Launches \cup {NoKernel}
<1>1. CASE StepLaunch
  BY <1>1 DEF StepLaunch, Launch, GraphTypes, GTypeOK, Launches, Uploads
<1>2. ASSUME kern' \in {kern, NoKernel} PROVE kern' \in Launches \cup {NoKernel}
  BY <1>2 DEF GraphTypes
<1>3. CASE BehindBack
  BY <1>2, <1>3 DEF BehindBack, BeginCapture, EndCapture, CaptureFails, ReplayStep, RunRecorded, ReplayEnds, callVars
<1>4. CASE \/ \E x, y \in Host : EagerStep(x, y) \/ CaptureUpload(x, y)
           \/ EagerStepEnds \/ FitEnds \/ TeardownEnds \/ GFinalize
           \/ (mode = "off" /\ StartWalk("releaseAll") /\ UNCHANGED graphVars)
           \/ UNCHANGED gvars
  BY <1>2, <1>4, FinalizeKinds DEF EagerStep, CaptureUpload, EagerStepEnds, FitEnds, TeardownEnds, StartWalk,
     Finalize, gvars, vars, cacheVars, callVars
<1>5. CASE CacheStep
  BY <1>2, <1>5 DEF CacheStep, AcquireScratch, ArgResident, ArgMissing, CreateEntry, EvictStep, EvictPassEnds,
     RunKernel, RecordKernel, ReleaseScratch, FlushStep, ReleaseAllStep, WalkEnds, LaunchEnds, Use, callVars
<1>6. CASE \/ \E h \in Host, write \in BOOLEAN : GHostAccess(h, write)
           \/ \E h \in Host : GCollect(h) \/ GNewArray(h)
  BY <1>2, <1>6 DEF GHostAccess, GCollect, GNewArray, HostAccess, Collect, NewArray, Finalize, callVars
<1> QED
  BY <1>1, <1>3, <1>4, <1>5, <1>6 DEF GNext, BehindBack

\* A graph with one field set.
LEMMA GraphFields ==
    ASSUME GraphTypes
    PROVE  /\ NoGraph \in GraphRecords
           /\ \A p \in Ptr \cup {None} :
                [graph EXCEPT !.inPtr = p] \in GraphRecords
           /\ \A tp \in Seq(Op), x, y \in Host, p \in Ptr \cup {None} :
                [graph EXCEPT !.tape = tp, !.input = x, !.output = y, !.lossPtr = p] \in GraphRecords
<1>1. << >> \in Seq(Op)
  BY EmptySeq
<1> QED
  BY <1>1 DEF GraphTypes, GraphRecords, NoGraph

\* The recorded operations, wherever they are.
LEMMA OpSteps ==
    ASSUME PoolInv, CacheInv, GraphTypes, ModeInv, [GNext]_gvars
    PROVE  /\ tape' \in Seq(Op) /\ work' \in Seq(Op)
           /\ graph' \in GraphRecords
<1>1. tape \in Seq(Op) /\ work \in Seq(Op) /\ graph \in GraphRecords /\ << >> \in Seq(Op)
  BY EmptySeq DEF GraphTypes
<1>2. graph.tape \in Seq(Op) /\ NoGraph \in GraphRecords
  BY <1>1, GraphFields DEF GraphRecords
<1>3. CASE BeginCapture
  <2>1. dptr[batch] \in Ptr \cup {None}
    BY <1>3 DEF BeginCapture, ModeInv, CacheInv, CacheTypes
  <2>2. graph' = [graph EXCEPT !.inPtr = dptr[batch]] /\ tape' = << >> /\ work' = work
    BY <1>3 DEF BeginCapture
  <2>3. graph' \in GraphRecords
    BY <2>1, <2>2, GraphFields
  <2> QED
    BY <1>1, <2>2, <2>3
<1>4. CASE EndCapture
  <2>1. dptr[loss] \in Ptr \cup {None} /\ batch \in Host /\ loss \in Host
    BY <1>4 DEF EndCapture, ModeInv, CacheInv, CacheTypes
  <2>2. /\ graph' = [graph EXCEPT !.tape = tape, !.input = batch, !.output = loss, !.lossPtr = dptr[loss]]
        /\ tape' = << >> /\ work' = tape
    BY <1>4 DEF EndCapture
  <2>3. graph' \in GraphRecords
    BY <1>1, <2>1, <2>2, GraphFields
  <2> QED
    BY <1>1, <2>2, <2>3
<1>5. CASE \/ (\E y \in Host, place \in CapturePlaces : CaptureFails(y, place)) \/ (\E x \in Host : ReplayStep(x)) \/ ReplayEnds
  BY <1>1, <1>2, <1>5 DEF CaptureFails, ReplayStep, ReplayEnds, captureVars
<1>6. CASE RunRecorded
  <2>1. work # << >> /\ work' = Tail(work) /\ UNCHANGED << tape, graph >>
    BY <1>6 DEF RunRecorded, captureVars
  <2>2. Tail(work) \in Seq(Op)
    BY <1>1, <2>1
  <2> QED
    BY <1>1, <2>1, <2>2
<1>7. ASSUME [CacheNext]_cacheVars, work' = work, graph' \in {graph, NoGraph}
      PROVE  tape' \in Seq(Op) /\ work' \in Seq(Op) /\ graph' \in GraphRecords
  BY <1>1, <1>2, <1>7, TapeSteps
<1>8. CASE ~BehindBack
  <2>1. [CacheNext]_cacheVars
    BY <1>8, FitSteps
  <2>2. work' = work /\ graph' \in {graph, NoGraph}
    BY <1>8 DEF GNext, BehindBack, gvars, graphVars, EagerStep, CaptureUpload, StepLaunch, EagerStepEnds,
       FitEnds, TeardownEnds, CacheStep, GHostAccess, GCollect, GNewArray, GFinalize
  <2> QED
    BY <1>7, <2>1, <2>2
<1> QED
  BY <1>3, <1>4, <1>5, <1>6, <1>8 DEF BehindBack

\* The launches a step begins with.
LEMMA StepPrograms ==
    /\ \A x, y \in Host, g \in Host \cup {None} : Program(x, y, g) \in Seq(Launches)
    /\ \A h \in Host :
         << [args |-> << [host |-> h, role |-> "in"] >>, scratch |-> FALSE, pins |-> {h}] >> \in Seq(Launches)
    /\ << >> \in Seq(Launches)
<1>1. \A s \in Seq(Kernels) : s \in Seq(Launches)
  <2>1. Kernels \subseteq Launches
    BY DEF Launches
  <2> QED
    BY <2>1
<1>2. ASSUME NEW k \in Launches PROVE << k >> \in Seq(Launches)
  BY <1>2
<1>3. \A h \in Host :
         [args |-> << [host |-> h, role |-> "in"] >>, scratch |-> FALSE, pins |-> {h}] \in Launches
  BY DEF Launches, Uploads
<1>4. \A x, y \in Host, g \in Host \cup {None} : Program(x, y, g) \in Seq(Kernels)
  BY GraphAssumption
<1> QED
  BY <1>1, <1>2, <1>3, <1>4, EmptySeq

\* The place of the fit.
LEMMA FitTypes ==
    ASSUME PoolInv, CacheInv, GraphTypes, ModeInv, [GNext]_gvars
    PROVE  /\ mode' \in {"off", "warmup", "upload", "capture", "replay", "disabled", "teardown"}
           /\ seen' \in 0..WarmupSteps
           /\ step' \in Seq(Launches)
           /\ batch' \in Host \cup {None} /\ loss' \in Host \cup {None}
           /\ grad' \in Host \cup {None}
<1>1. /\ mode \in {"off", "warmup", "upload", "capture", "replay", "disabled", "teardown"}
      /\ seen \in 0..WarmupSteps
      /\ step \in Seq(Launches)
      /\ batch \in Host \cup {None} /\ loss \in Host \cup {None} /\ grad \in Host \cup {None}
  BY DEF GraphTypes, GTypeOK, Launches, Uploads
<1>2. WarmupSteps \in Nat
  BY GraphAssumption
<1>3. ASSUME NEW x \in Host, NEW y \in Host, EagerStep(x, y)
      PROVE  /\ mode' \in {mode, "warmup"} /\ seen' \in 0..WarmupSteps
             /\ step' \in Seq(Launches) /\ batch' = x /\ loss' = y /\ grad' = grad
  <2>1. step' = Program(x, y, grad) /\ batch' = x /\ loss' = y /\ grad' = grad
    BY <1>3 DEF EagerStep
  <2>2. mode' \in {mode, "warmup"} /\ seen' \in 0..WarmupSteps
    BY <1>1, <1>2, <1>3 DEF EagerStep, WarmingUp
  <2> QED
    BY <1>1, <2>1, <2>2, StepPrograms
<1>4. ASSUME NEW x \in Host, NEW y \in Host, CaptureUpload(x, y)
      PROVE  /\ mode' = "upload" /\ seen' = seen
             /\ step' \in Seq(Launches) /\ batch' = x /\ loss' = y /\ grad' = grad
  <2>1. step' = << [args |-> << [host |-> x, role |-> "in"] >>, scratch |-> FALSE, pins |-> {x}] >>
    BY <1>4 DEF CaptureUpload
  <2>2. step' \in Seq(Launches)
    BY <2>1, StepPrograms
  <2> QED
    BY <1>4, <2>2 DEF CaptureUpload
<1>5. CASE StepLaunch
  <2>1. step # << >> /\ step' = Tail(step) /\ UNCHANGED << mode, seen, batch, loss, grad >>
    BY <1>5 DEF StepLaunch
  <2>2. Tail(step) \in Seq(Launches)
    BY <1>1, <2>1
  <2> QED
    BY <1>1, <2>1, <2>2
<1>6. CASE BeginCapture
  <2>1. batch \in Host /\ loss \in Host
    BY <1>6 DEF BeginCapture, ModeInv
  <2>2. step' = Program(batch, loss, grad) /\ mode' = "capture" /\ UNCHANGED << seen, batch, loss, grad >>
    BY <1>6 DEF BeginCapture
  <2> QED
    BY <1>1, <2>1, <2>2, StepPrograms
<1>7. ASSUME NEW y \in Host, NEW place \in CapturePlaces, CaptureFails(y, place)
      PROVE  /\ mode' = "disabled" /\ seen' = seen
             /\ step' \in Seq(Launches) /\ batch' = batch /\ loss' = y
             /\ grad' \in Host \cup {None}
  <2>1. batch \in Host /\ loss \in Host
    BY <1>7 DEF CaptureFails, ModeInv
  <2>2. grad' \in Host \cup {None} /\ step' = Program(batch, y, grad')
    BY <1>7, <2>1 DEF CaptureFails
  <2> QED
    BY <1>7, <2>1, <2>2, StepPrograms DEF CaptureFails
<1>8. CASE EndCapture \/ (\E x \in Host : ReplayStep(x)) \/ RunRecorded \/ ReplayEnds
  BY <1>1, <1>8 DEF EndCapture, ReplayStep, RunRecorded, ReplayEnds, DropStep
<1>9. CASE EagerStepEnds \/ FitEnds \/ TeardownEnds
  BY <1>1, <1>2, <1>9 DEF EagerStepEnds, FitEnds, TeardownEnds, DropStep
<1>10. CASE \/ CacheStep \/ GFinalize \/ UNCHANGED gvars
            \/ \E h \in Host, write \in BOOLEAN : GHostAccess(h, write)
            \/ \E h \in Host : GCollect(h) \/ GNewArray(h)
            \/ (mode = "off" /\ StartWalk("releaseAll") /\ UNCHANGED graphVars)
  BY <1>1, <1>10 DEF CacheStep, GFinalize, GHostAccess, GCollect, GNewArray, gvars, graphVars
<1> QED
  BY <1>1, <1>3, <1>4, <1>5, <1>6, <1>7, <1>8, <1>9, <1>10 DEF GNext

\* All types.
LEMMA GraphTypeSteps ==
    ASSUME PoolInv, CacheInv, GraphTypes, ModeInv, [GNext]_gvars
    PROVE  GraphTypes'
<1>1. graph' \in GraphRecords /\ tape' \in Seq(Op) /\ work' \in Seq(Op)
  BY OpSteps
<1>2. /\ graph'.input \in Host \cup {None} /\ graph'.output \in Host \cup {None}
      /\ graph'.inPtr \in Ptr \cup {None} /\ graph'.lossPtr \in Ptr \cup {None}
  BY <1>1 DEF GraphRecords
<1>3. GTypeOK'
  BY <1>2, FitTypes DEF GTypeOK, Launches, Uploads
<1> QED
  BY <1>1, <1>3, KernSteps DEF GraphTypes

-----------------------------------------------------------------------------
\* Calls and modes.
LEMMA ModeSteps ==
    ASSUME PoolInv, CacheInv, GraphTypes, ModeInv, [GNext]_gvars
    PROVE  ModeInv'
<1>1. /\ alive \subseteq Host /\ CacheTypes
  BY DEF CacheInv, CacheTypes
<1>2. ASSUME NEW x \in Host, NEW y \in Host, EagerStep(x, y) \/ CaptureUpload(x, y) PROVE ModeInv'
  BY <1>2 DEF EagerStep, CaptureUpload, Between, Idle, Ready, ModeInv, WarmingUp, Launching,
     vars, callVars, captureVars
<1>3. CASE StepLaunch
  BY <1>3 DEF StepLaunch, Launch, ModeInv, Launching, captureVars
<1>4. CASE EagerStepEnds \/ FitEnds
  BY <1>4 DEF EagerStepEnds, FitEnds, StartWalk, DropStep, Between, Idle, Ready, ModeInv, Launching, captureVars
<1>5. CASE BeginCapture \/ EndCapture
  BY <1>5 DEF BeginCapture, EndCapture, Between, Idle, Ready, ModeInv, Launching, callVars
<1>6. ASSUME NEW y \in Host, NEW place \in CapturePlaces, CaptureFails(y, place) PROVE ModeInv'
  BY <1>6 DEF CaptureFails, Idle, Ready, ModeInv, Launching, callVars
<1>7. CASE RunRecorded \/ ReplayEnds \/ (\E x \in Host : ReplayStep(x))
  BY <1>7 DEF RunRecorded, ReplayEnds, ReplayStep, DropStep, Between, Idle, Ready, ModeInv, Launching,
     captureVars, callVars
<1>8. CASE TeardownEnds
  BY <1>8 DEF TeardownEnds, Between, Idle, Ready, ModeInv, Launching, captureVars, callVars
<1>9. CASE CacheStep
  <2>1. UNCHANGED << capturing, mode, batch, loss, step >>
    BY <1>9 DEF CacheStep, graphVars, captureVars, AcquireScratch, ArgResident, ArgMissing, CreateEntry, EvictStep,
       EvictPassEnds, RunKernel, RecordKernel, ReleaseScratch, FlushStep, ReleaseAllStep, WalkEnds, Use
  <2>2. pc' \in Launching => pc \in Launching
    BY <1>9 DEF CacheStep, AcquireScratch, ArgResident, ArgMissing, CreateEntry, EvictStep,
       EvictPassEnds, RunKernel, RecordKernel, ReleaseScratch, FlushStep, ReleaseAllStep, WalkEnds, Use,
       Ready, Launching, callVars
  <2>3. pc' \in {"releaseAll", "replay"} => pc' = pc
    BY <1>9 DEF CacheStep, AcquireScratch, ArgResident, ArgMissing, CreateEntry, EvictStep, NextArg, LaunchEnds,
       EvictPassEnds, RunKernel, RecordKernel, ReleaseScratch, FlushStep, ReleaseAllStep, WalkEnds, Use,
       Ready, Launching, callVars
  <2> QED
    BY <2>1, <2>2, <2>3 DEF ModeInv
<1>10. CASE \/ UNCHANGED gvars \/ GFinalize
            \/ \E h \in Host, write \in BOOLEAN : GHostAccess(h, write)
            \/ \E h \in Host : GCollect(h) \/ GNewArray(h)
  <2>1. CASE UNCHANGED gvars
    BY <2>1 DEF gvars, vars, graphVars, captureVars, callVars, ModeInv
  <2>2. CASE GFinalize
    BY <2>2 DEF GFinalize, Finalize, LateFinalize, graphVars, captureVars, callVars, ModeInv
  <2>3. CASE \E h \in Host, write \in BOOLEAN : GHostAccess(h, write)
    BY <2>3 DEF GHostAccess, HostAccess, graphVars, captureVars, callVars, ModeInv
  <2>4. CASE \E h \in Host : GCollect(h) \/ GNewArray(h)
    BY <2>4 DEF GCollect, GNewArray, Collect, NewArray, graphVars, captureVars, callVars, ModeInv
  <2> QED
    BY <1>10, <2>1, <2>2, <2>3, <2>4
<1>11. CASE mode = "off" /\ StartWalk("releaseAll") /\ UNCHANGED graphVars
  BY <1>11 DEF StartWalk, graphVars, ModeInv, Launching, captureVars
<1> QED
  BY <1>2, <1>3, <1>4, <1>5, <1>6, <1>7, <1>8, <1>9, <1>10, <1>11 DEF GNext

-----------------------------------------------------------------------------
(* The arrays of a recording.                                               *)

\* A living array keeps its pin, but for releaseAllResident.
LEMMA PinsStay ==
    ASSUME [CacheNext]_cacheVars, pc # "releaseAll", NEW h \in Pinned, h \in alive'
    PROVE  h \in Pinned'
<1>1. ASSUME pinned \subseteq pinned', capturePinned \subseteq capturePinned' PROVE h \in Pinned'
  BY <1>1 DEF Pinned
<1>2. CASE \E k : Launch(k)
  BY <1>1, <1>2 DEF Launch, captureVars
<1>3. CASE ArgResident \/ CreateEntry
  BY <1>1, <1>3 DEF ArgResident, CreateEntry, Use
<1>4. CASE AcquireScratch \/ ArgMissing \/ GatherFails \/ EvictStep \/ EvictPassEnds \/ RunKernel \/ RecordKernel
           \/ ReleaseScratch \/ FlushStep \/ ReleaseAllStep \/ WalkEnds
  BY <1>1, <1>4 DEF AcquireScratch, ArgMissing, GatherFails, EvictStep, EvictPassEnds, RunKernel, RecordKernel,
     ReleaseScratch, FlushStep, ReleaseAllStep, WalkEnds, captureVars
<1>5. CASE \E g \in Host : Collect(g)
  BY <1>5 DEF Collect, Pinned
<1>6. CASE \/ \E g \in Host, write \in BOOLEAN : HostAccess(g, write)
           \/ \E kind \in {"flush", "releaseAll"} : StartWalk(kind)
           \/ \E g \in Host : Finalize(g) \/ NewArray(g)
           \/ PoolStep \/ UNCHANGED cacheVars
  BY <1>1, <1>6 DEF HostAccess, StartWalk, Finalize, NewArray, PoolStep, cacheVars, captureVars
<1> QED
  BY <1>2, <1>3, <1>4, <1>5, <1>6 DEF CacheNext, CallStep

\* A new array has no entry.
LEMMA NewHasNone ==
    ASSUME [CacheNext]_cacheVars, NEW h \in alive', h \notin alive
    PROVE  dptr'[h] = None
<1>1. CASE \E g \in Host : NewArray(g)
  BY <1>1 DEF NewArray, Resident, entryVars
<1>2. CASE \/ \E k : Launch(k)
           \/ AcquireScratch \/ ArgResident \/ ArgMissing \/ CreateEntry \/ GatherFails
           \/ EvictStep \/ EvictPassEnds \/ RunKernel \/ RecordKernel \/ ReleaseScratch
           \/ FlushStep \/ ReleaseAllStep \/ WalkEnds
  BY <1>2 DEF Launch, AcquireScratch, ArgResident, ArgMissing, CreateEntry, GatherFails, EvictStep,
     EvictPassEnds, RunKernel, RecordKernel, ReleaseScratch, FlushStep, ReleaseAllStep, WalkEnds, Use
<1>3. CASE \/ \E g \in Host, write \in BOOLEAN : HostAccess(g, write)
           \/ \E kind \in {"flush", "releaseAll"} : StartWalk(kind)
           \/ \E g \in Host : Collect(g) \/ Finalize(g)
           \/ PoolStep \/ UNCHANGED cacheVars
  BY <1>3 DEF HostAccess, StartWalk, Collect, Finalize, PoolStep, cacheVars
<1> QED
  BY <1>1, <1>2, <1>3 DEF CacheNext, CallStep

\* Only a launch makes entries.
LEMMA WhoCreates ==
    ASSUME CacheTypes, [CacheNext]_cacheVars, NEW h \in Host, dptr[h] = None, dptr'[h] # None
    PROVE  CreateEntry /\ h = Arg.host
<1>1. ASSUME NEW g, NEW wb, ReclaimEntry(g, wb) PROVE dptr'[h] = None
  BY <1>1 DEF ReclaimEntry, CacheTypes
<1>2. CASE EvictStep \/ FlushStep \/ ReleaseAllStep \/ (\E g \in Host : Finalize(g))
  BY <1>1, <1>2 DEF EvictStep, FlushStep, ReleaseAllStep, FreeEntry, Finalize, KeepEntries, entryVars
<1>3. CASE CreateEntry
  BY <1>3 DEF CreateEntry, CacheTypes
<1>4. CASE (\E k : Launch(k)) \/ AcquireScratch \/ ArgResident \/ ArgMissing \/ GatherFails
           \/ EvictPassEnds \/ RunKernel \/ RecordKernel \/ ReleaseScratch \/ WalkEnds
  BY <1>4 DEF Launch, AcquireScratch, ArgResident, ArgMissing, GatherFails, EvictPassEnds,
     RunKernel, RecordKernel, ReleaseScratch, WalkEnds, entryVars
<1>5. CASE \/ \E g \in Host, write \in BOOLEAN : HostAccess(g, write)
           \/ \E kind \in {"flush", "releaseAll"} : StartWalk(kind)
           \/ \E g \in Host : Collect(g) \/ NewArray(g)
           \/ PoolStep \/ UNCHANGED cacheVars
  BY <1>5 DEF HostAccess, StartWalk, Collect, NewArray, PoolStep, cacheVars, entryVars
<1> QED
  BY <1>2, <1>3, <1>4, <1>5 DEF CacheNext, CallStep

\* A capture pins what it gives an entry; otherwise nothing gets one.
LEMMA KeptSteps ==
    ASSUME PoolInv, CacheInv, [CacheNext]_cacheVars, pc # "releaseAll",
           capturing \/ pc \notin Launching,
           NEW tp, HostsKept(tp)
    PROVE  \A h \in TapeHosts(tp) \cap alive' : h \in Pinned' \/ dptr'[h] = None
<1> SUFFICES ASSUME NEW h \in TapeHosts(tp), h \in alive', dptr'[h] # None PROVE h \in Pinned'
  OBVIOUS
<1>1. h \in alive /\ CacheTypes /\ h \in Host
  BY NewHasNone DEF CacheInv, CacheTypes
<1>2. CASE h \in Pinned
  BY <1>2, PinsStay
<1>3. CASE dptr[h] = None
  <2>1. CreateEntry /\ h = Arg.host
    BY <1>1, <1>3, WhoCreates
  <2>2. capturing
    BY <2>1 DEF CreateEntry, Ready, Launching
  <2>3. PICK p : Use(h, Arg.role, p, FALSE, FALSE)
    BY <2>1 DEF CreateEntry
  <2> QED
    BY <2>2, <2>3 DEF Use, Pinned
<1> QED
  BY <1>1, <1>2, <1>3 DEF HostsKept

\* The arrays of a longer recording.
LEMMA LongerTape ==
    ASSUME NEW tp \in Seq(Op), NEW o \in Op
    PROVE  /\ o.op = "copy" => TapeHosts(Append(tp, o)) \subseteq TapeHosts(tp) \cup {o.host}
           /\ o.op = "launch" => TapeHosts(Append(tp, o)) \subseteq
                TapeHosts(tp) \cup { o.kern.args[j].host : j \in DOMAIN o.kern.args }
<1> DEFINE t == Append(tp, o)
<1>1. \A i \in DOMAIN t : (i \in DOMAIN tp /\ t[i] = tp[i]) \/ t[i] = o
  OBVIOUS
<1> HIDE DEF t
<1>2. \A i \in Ops(t, "copy") : (i \in Ops(tp, "copy") /\ t[i] = tp[i]) \/ (t[i] = o /\ o.op = "copy")
  BY <1>1 DEF Ops
<1>3. \A i \in Ops(t, "launch") : (i \in Ops(tp, "launch") /\ t[i] = tp[i]) \/ (t[i] = o /\ o.op = "launch")
  BY <1>1 DEF Ops
<1>4. ASSUME NEW h \in TapeHosts(t)
      PROVE  \/ h \in TapeHosts(tp)
             \/ o.op = "copy" /\ h = o.host
             \/ o.op = "launch" /\ h \in { o.kern.args[j].host : j \in DOMAIN o.kern.args }
  <2>1. CASE \E i \in Ops(t, "copy") : h = t[i].host
    BY <1>2, <2>1 DEF TapeHosts
  <2>2. CASE \E i \in Ops(t, "launch") : \E j \in DOMAIN t[i].kern.args : h = t[i].kern.args[j].host
    <3>1. PICK i \in Ops(t, "launch") : \E j \in DOMAIN t[i].kern.args : h = t[i].kern.args[j].host
      BY <2>2
    <3>2. CASE i \in Ops(tp, "launch") /\ t[i] = tp[i]
      <4>1. h \in { tp[i].kern.args[j].host : j \in DOMAIN tp[i].kern.args }
        BY <3>1, <3>2
      <4> DEFINE H(l) == { tp[l].kern.args[j].host : j \in DOMAIN tp[l].kern.args }
      <4>2. H(i) \in { H(l) : l \in Ops(tp, "launch") }
        BY <3>2
      <4>3. h \in UNION { H(l) : l \in Ops(tp, "launch") }
        BY <4>1, <4>2
      <4> QED
        BY <4>3 DEF TapeHosts
    <3>3. CASE t[i] = o /\ o.op = "launch"
      BY <3>1, <3>3
    <3> QED
      BY <1>3, <3>2, <3>3
  <2> QED
    BY <2>1, <2>2 DEF TapeHosts
<1> QED
  BY <1>4 DEF t

\* While a step is captured, what its launch has gathered is pinned.
LEMMA GatheredPinned ==
    ASSUME PoolInv, CacheInv, GraphTypes, ModeInv, CapturedInv, [CacheNext]_cacheVars,
           mode = "capture"
    PROVE  \A i \in DOMAIN got' : kern'.args[i].host \in capturePinned'
<1>1. CacheTypes /\ CallInv /\ capturing /\ pc # "releaseAll"
  BY DEF CacheInv, ModeInv
<1>2. \A i \in DOMAIN got : kern.args[i].host \in capturePinned
  BY DEF CapturedInv
<1>3. ASSUME got' = << >> PROVE \A i \in DOMAIN got' : kern'.args[i].host \in capturePinned'
  BY <1>3
<1>4. ASSUME UNCHANGED << kern, got, capturePinned >>
      PROVE \A i \in DOMAIN got' : kern'.args[i].host \in capturePinned'
  BY <1>2, <1>4
<1>5. CASE \E k : Launch(k)
  BY <1>1, <1>3, <1>5 DEF Launch, Ready, CallInv, Launching
<1>6. CASE ArgResident \/ CreateEntry
  <2>1. IsLaunch(kern) /\ got \in Seq(Ptr) /\ Len(got) < Len(kern.args)
    BY <1>1, <1>6 DEF ArgResident, CreateEntry, Ready, CallInv, Launching, CacheTypes
  <2>2. PICK p \in Ptr : \E fresh, stale : Use(Arg.host, Arg.role, p, fresh, stale)
    <3>1. Arg.host \in Host
      BY <2>1, ArgType
    <3> QED
      BY <1>1, <1>6, <3>1 DEF ArgResident, CreateEntry, Resident, CacheTypes
  <2>3. got' = Append(got, p) /\ kern' = kern /\ capturePinned' = capturePinned \cup {Arg.host}
    BY <1>1, <2>2 DEF Use
  <2>4. \A i \in DOMAIN got' : i \in DOMAIN got \/ i = Len(got) + 1
    BY <2>1, <2>3
  <2> QED
    BY <1>2, <2>3, <2>4 DEF Arg
<1>7. CASE GatherFails \/ RunKernel \/ RecordKernel \/ ReleaseScratch
  BY <1>3, <1>4, <1>7 DEF GatherFails, RunKernel, RecordKernel, ReleaseScratch, LaunchEnds, captureVars
<1>8. CASE AcquireScratch \/ ArgMissing \/ EvictStep \/ EvictPassEnds \/ FlushStep \/ ReleaseAllStep \/ WalkEnds
  BY <1>1, <1>4, <1>8 DEF AcquireScratch, ArgMissing, EvictStep, EvictPassEnds, FlushStep, ReleaseAllStep, WalkEnds,
     captureVars
<1>9. CASE \E h \in Host : Collect(h)
  BY <1>1, <1>3, <1>9 DEF Collect, Ready, CallInv, Launching, callVars
<1>10. CASE \/ \E g \in Host, write \in BOOLEAN : HostAccess(g, write)
            \/ \E kind \in {"flush", "releaseAll"} : StartWalk(kind)
            \/ \E g \in Host : Finalize(g) \/ NewArray(g)
            \/ PoolStep \/ UNCHANGED cacheVars
  BY <1>4, <1>10 DEF HostAccess, StartWalk, Finalize, NewArray, PoolStep, cacheVars, captureVars, callVars
<1> QED
  BY <1>5, <1>6, <1>7, <1>8, <1>9, <1>10 DEF CacheNext, CallStep

\* What a step of the cache adds to the recording is pinned.
LEMMA AddsPinned ==
    ASSUME PoolInv, CacheInv, GraphTypes, ModeInv, CapturedInv, [CacheNext]_cacheVars,
           mode = "capture", NEW h \in TapeHosts(tape'), h \notin TapeHosts(tape)
    PROVE  h \in Pinned'
<1>1. CacheTypes /\ CallInv /\ capturing /\ tape \in Seq(Op)
  BY DEF CacheInv, ModeInv, GraphTypes
<1>2. CASE ArgResident \/ CreateEntry
  <2>1. IsLaunch(kern) /\ got \in Seq(Ptr) /\ Len(got) < Len(kern.args)
    BY <1>1, <1>2 DEF ArgResident, CreateEntry, Ready, CallInv, Launching, CacheTypes
  <2>2. Arg.host \in Host
    BY <2>1, ArgType
  <2>3. PICK p \in Ptr : \E fresh, stale : Use(Arg.host, Arg.role, p, fresh, stale)
    BY <1>1, <1>2, <2>2 DEF ArgResident, CreateEntry, Resident, CacheTypes
  <2> DEFINE o == [op |-> "copy", host |-> Arg.host, ptr |-> p]
  <2>4. o \in Op /\ o.op = "copy" /\ o.host = Arg.host
    BY <2>2 DEF Op
  <2>5. tape' \in {tape, Append(tape, o)} /\ capturePinned' = capturePinned \cup {Arg.host}
    BY <1>1, <2>3 DEF Use
  <2> HIDE DEF o
  <2>6. h = Arg.host
    BY <1>1, <2>4, <2>5, LongerTape
  <2> QED
    BY <2>5, <2>6 DEF Pinned
<1>3. CASE RecordKernel
  <2> DEFINE o == [op |-> "launch", kern |-> kern, ptrs |-> got, scr |-> scratchPtr]
  <2>1. IsLaunch(kern) /\ got \in Seq(Ptr) /\ Len(got) = Len(kern.args) /\ scratchPtr \in Ptr \cup {None}
    BY <1>1, <1>3 DEF RecordKernel, Ready, CallInv, Launching, CacheTypes
  <2>2. DOMAIN got = DOMAIN kern.args
    BY <2>1, LaunchArgs
  <2>3. kern \in Launches
    <3>1. kern.args # << >>
      BY <2>1 DEF IsLaunch
    <3> QED
      BY <3>1 DEF NoKernel, GraphTypes
  <2>4. o \in Op /\ o.op = "launch" /\ o.kern = kern
    BY <2>1, <2>3 DEF Op
  <2>5. tape' = Append(tape, o) /\ capturePinned' = capturePinned
    BY <1>3 DEF RecordKernel
  <2> HIDE DEF o
  <2>6. h \in { kern.args[j].host : j \in DOMAIN kern.args }
    BY <1>1, <2>4, <2>5, LongerTape
  <2>7. h \in capturePinned
    BY <2>2, <2>6 DEF CapturedInv
  <2> QED
    BY <2>5, <2>7 DEF Pinned
<1>4. CASE tape' = tape
  BY <1>4
<1>5. CASE (\E k : Launch(k)) \/ AcquireScratch \/ ArgMissing \/ GatherFails \/ EvictStep \/ EvictPassEnds \/ RunKernel
           \/ ReleaseScratch \/ FlushStep \/ ReleaseAllStep \/ WalkEnds
  BY <1>4, <1>5 DEF Launch, AcquireScratch, ArgMissing, GatherFails, EvictStep, EvictPassEnds, RunKernel,
     ReleaseScratch, FlushStep, ReleaseAllStep, WalkEnds, captureVars
<1>6. CASE \/ \E g \in Host, write \in BOOLEAN : HostAccess(g, write)
           \/ \E kind \in {"flush", "releaseAll"} : StartWalk(kind)
           \/ \E g \in Host : Collect(g) \/ Finalize(g) \/ NewArray(g)
           \/ PoolStep \/ UNCHANGED cacheVars
  BY <1>4, <1>6 DEF HostAccess, StartWalk, Collect, Finalize, NewArray, PoolStep, cacheVars, captureVars
<1> QED
  BY <1>2, <1>3, <1>5, <1>6 DEF CacheNext, CallStep

\* Every step keeps the arrays of a recording in place.
LEMMA CapturedSteps ==
    ASSUME PoolInv, CacheInv, GraphTypes, ModeInv, CapturedInv, [GNext]_gvars
    PROVE  CapturedInv'
<1>1. ASSUME UNCHANGED << alive, dptr, pinned, capturePinned >>
      PROVE  \A tp : HostsKept(tp) =>
                \A h \in TapeHosts(tp) \cap alive' : h \in Pinned' \/ dptr'[h] = None
  BY <1>1 DEF HostsKept, Pinned
<1>2. CASE BeginCapture
  <2>1. tape' = << >> /\ mode' = "capture" /\ got' = got /\ got = << >>
    BY <1>2 DEF BeginCapture, Between, Idle, Ready, callVars, CacheInv, CallInv, Launching
  <2>2. TapeHosts(tape') = {}
    BY <2>1 DEF TapeHosts, Ops
  <2> QED
    BY <2>1, <2>2 DEF CapturedInv, HostsKept
<1>3. CASE EndCapture
  <2>1. /\ mode' = "replay" /\ mode = "capture" /\ graph' = [graph EXCEPT !.tape = tape, !.input = batch,
           !.output = loss, !.lossPtr = dptr[loss]]
        /\ UNCHANGED << alive, dptr, pinned, capturePinned >>
    BY <1>3 DEF EndCapture, entryVars
  <2>2. graph'.tape = tape
    BY <2>1 DEF GraphTypes, GraphRecords
  <2>3. HostsKept(tape)
    BY <2>1 DEF CapturedInv
  <2> QED
    BY <1>1, <2>1, <2>2, <2>3 DEF CapturedInv, HostsKept
<1>4. CASE \E y \in Host, place \in CapturePlaces : CaptureFails(y, place)
  BY <1>4 DEF CaptureFails, CapturedInv
<1>5. CASE RunRecorded \/ ReplayEnds \/ (\E x \in Host : ReplayStep(x))
  <2>1. UNCHANGED << alive, dptr, pinned, capturePinned, mode, graph, tape, kern, got >>
    BY <1>5 DEF RunRecorded, ReplayEnds, ReplayStep, entryVars, captureVars, callVars
  <2> QED
    BY <1>1, <2>1 DEF CapturedInv, HostsKept
<1>6. CASE ~BehindBack
  <2>1. [CacheNext]_cacheVars
    BY <1>6, FitSteps
  <2>2. /\ mode' = "capture" => mode = "capture"
        /\ mode' = "replay" => mode = "replay" /\ graph' = graph
    BY <1>6 DEF GNext, BehindBack, gvars, graphVars, EagerStep, CaptureUpload, StepLaunch, EagerStepEnds,
       FitEnds, TeardownEnds, CacheStep, GHostAccess, GCollect, GNewArray, GFinalize
  <2>3. ASSUME mode' = "capture"
        PROVE  HostsKept(tape)' /\ \A i \in DOMAIN got' : kern'.args[i].host \in capturePinned'
    <3>1. mode = "capture" /\ capturing /\ HostsKept(tape) /\ pc # "releaseAll"
      BY <2>2, <2>3 DEF ModeInv, CapturedInv
    <3>2. \A h \in TapeHosts(tape) \cap alive' : h \in Pinned' \/ dptr'[h] = None
      BY <2>1, <3>1, KeptSteps
    <3>3. \A h \in TapeHosts(tape') : h \in TapeHosts(tape) \/ h \in Pinned'
      BY <2>1, <3>1, AddsPinned
    <3>4. \A i \in DOMAIN got' : kern'.args[i].host \in capturePinned'
      BY <2>1, <3>1, GatheredPinned
    <3>5. \A h \in TapeHosts(tape') \cap alive' : h \in Pinned' \/ dptr'[h] = None
      BY <3>2, <3>3
    <3> QED
      BY <3>4, <3>5 DEF HostsKept
  <2>4. ASSUME mode' = "replay" PROVE HostsKept(graph.tape)'
    <3>1. mode = "replay" /\ graph' = graph /\ pc \notin Launching /\ HostsKept(graph.tape) /\ pc # "releaseAll"
      BY <2>2, <2>4 DEF ModeInv, CapturedInv
    <3>2. \A h \in TapeHosts(graph.tape) \cap alive' : h \in Pinned' \/ dptr'[h] = None
      BY <2>1, <3>1, KeptSteps
    <3> QED
      BY <3>1, <3>2 DEF HostsKept
  <2> QED
    BY <2>3, <2>4 DEF CapturedInv
<1> QED
  BY <1>2, <1>3, <1>4, <1>5, <1>6 DEF BehindBack

\* No fit has begun.
LEMMA InitFit == GInit => GInv
<1> SUFFICES ASSUME GInit PROVE GInv
  OBVIOUS
<1>1. RInit /\ mode = "off" /\ seen = 0 /\ step = << >> /\ batch = None /\ loss = None
      /\ grad = None /\ graph = NoGraph /\ work = << >>
  BY DEF GInit
<1>2. PoolInv /\ CacheInv
  BY <1>1, InitCache
<1>3. capturing = FALSE /\ pc = "idle" /\ kern = NoKernel /\ got = << >> /\ tape = << >>
  BY <1>1 DEF RInit
<1>4. GraphTypes
  <2>1. << >> \in Seq(Op) /\ << >> \in Seq(Launches)
    BY EmptySeq
  <2>2. graph \in GraphRecords
    BY <1>1, <2>1 DEF GraphRecords, NoGraph
  <2>3. 0 \in 0..WarmupSteps
    BY GraphAssumption
  <2>4. GTypeOK
    BY <1>1, <2>1, <2>3 DEF GTypeOK, NoGraph, Launches, Uploads
  <2> QED
    BY <1>1, <1>3, <2>1, <2>2, <2>4 DEF GraphTypes
<1>5. ModeInv /\ CapturedInv
  <2>1. capturing = (mode = "capture")
    BY <1>1, <1>3
  <2> QED
    BY <1>1, <1>3, <2>1 DEF ModeInv, CapturedInv, Launching
<1> QED
  BY <1>2, <1>4, <1>5 DEF GInv

\* Every step keeps it all, and is a step of the pool.
LEMMA NextFit == GInv /\ [GNext]_gvars => GInv' /\ [Next]_poolVars
<1> SUFFICES ASSUME GInv, [GNext]_gvars PROVE GInv' /\ [Next]_poolVars
  OBVIOUS
<1>1. PoolInv /\ CacheInv /\ GraphTypes /\ ModeInv /\ CapturedInv
  BY DEF GInv
<1>2. [Next]_poolVars /\ PoolInv' /\ CacheInv'
  BY <1>1, FitSteps, CacheStepKeeps, BehindBackKeeps
<1> QED
  BY <1>1, <1>2, GraphTypeSteps, ModeSteps, CapturedSteps DEF GInv

\* So it holds in every behaviour of a fit.
LEMMA FitInvariant == GSpec => []GInv
  BY InitFit, NextFit, PTL DEF GSpec

(* Type correctness of the fit: mode, warm-up count, the launches of the    *)
(* step and the captured graph's pointers.                                  *)
THEOREM GraphTypeOK == GSpec => []GTypeOK
<1>1. GInv => GTypeOK
  BY DEF GInv, GraphTypes
<1> QED
  BY <1>1, FitInvariant, PTL

(* Every entry keeps a buffer of its own through captures, failed captures, *)
(* replays and teardowns, which change the cache's state behind its back.   *)
THEOREM GraphOwnership == GSpec => []EntryOwnership
<1>1. GInv => EntryOwnership
  BY DEF GInv, CacheInv, BufferInv
<1> QED
  BY <1>1, FitInvariant, PTL

(* No flush, eviction or finalizer between replays moves a buffer of an     *)
(* array that the graph names and that is still alive: the raw pointers of  *)
(* the recording stay good, for any program and any number of replays.      *)
THEOREM GraphCapturedStays == GSpec => CapturedStays
<1> DEFINE Stays == mode = "replay" /\ mode' = "replay" =>
                        \A h \in GraphHosts \cap alive : dptr'[h] = dptr[h]
<1>1. GInv /\ [GNext]_gvars => Stays
  <2> SUFFICES ASSUME GInv, [GNext]_gvars, mode = "replay", mode' = "replay",
                      NEW h \in GraphHosts \cap alive
               PROVE  dptr'[h] = dptr[h]
    OBVIOUS
  <2>1. /\ PoolInv /\ CacheInv /\ GraphTypes /\ CacheTypes
        /\ pc \notin Launching /\ pc # "releaseAll" /\ HostsKept(graph.tape)
    BY DEF GInv, ModeInv, CapturedInv, CacheInv
  <2>2. h \in Host /\ (h \in Pinned \/ dptr[h] = None)
    BY <2>1 DEF HostsKept, GraphHosts, TapeHosts, CacheTypes
  <2>3. CASE BehindBack
    BY <2>3 DEF BehindBack, BeginCapture, EndCapture, CaptureFails, ReplayStep, RunRecorded, ReplayEnds, entryVars
  <2>4. CASE [CacheNext]_cacheVars
    <3>1. CASE dptr[h] = None
      BY <2>1, <2>2, <2>4, <3>1, WhoCreates DEF CreateEntry, Ready, Launching
    <3>2. CASE dptr[h] # None
      BY <2>1, <2>2, <2>4, <3>2, WhoDrops DEF Residents
    <3> QED
      BY <3>1, <3>2
  <2> QED
    BY <2>1, <2>3, <2>4, FitSteps
<1> QED
  BY <1>1, FitInvariant, PTL DEF GSpec, CapturedStays
-----------------------------------------------------------------------------
(* The contents, for programs that train in place.                          *)

\* The arrays whose contents nobody relies on: those the program dropped, and
\* the loss of a step that is captured or replayed, which no launch has made
\* where its marks say.  The recorded launches have not run, so an array they
\* will write still has its old contents.
Unsettled == dropped \cup (IF mode \in {"capture", "replay"} THEN {loss} ELSE {})

Unwritten == IF mode = "capture" THEN {} ELSE Pending

ContentsInv == AgreeBut(Unwritten \cup Unsettled) /\ GatherInv /\ NotSpoilt

\* The arrays of the step: the weights are never dropped, batch and loss not
\* before the step ends, every step starts without gradients, and what is left
\* of the step uses just its arrays.
StepArrays ==
    /\ Params \subseteq alive \ dropped
    /\ {batch, loss} \ {None} \subseteq alive \ (dropped \cup Params)
    /\ batch = loss => batch = None
    /\ batch = None => loss = None
    /\ grad = None
    /\ mode \in {"off", "teardown"} => seen = 0 /\ batch = None
    /\ mode = "capture" => pc \notin {"clean", "dirty", "flush", "releaseAll"}
    /\ \A i \in DOMAIN step : StepUses(step[i], batch, loss)
    /\ StepUses(kern, batch, loss)

\* After the first step of a fit every weight is on the device to stay, but
\* for those that the running step has still to pin or to gather.
Warm(h) == h \in pinned /\ dptr[h] # None /\ deviceFresh[h]

Coming(h) ==
    \/ \E i \in DOMAIN step : h \in step[i].pins
    \/ /\ h \in kern.pins /\ h \in pinned /\ pc # "release"
       /\ \A i \in DOMAIN got : kern.args[i].host # h

WarmInv ==
    /\ mode \in {"warmup", "upload"} => \A h \in Weights : Warm(h) \/ Coming(h)
    /\ mode = "upload" => /\ Warm(batch) \/ Coming(batch)
                          /\ dptr[loss] = None /\ ~Passes(kern, loss)
                          /\ \A i \in DOMAIN step : ~Passes(step[i], loss)
    /\ mode = "capture" => \A h \in Weights \cup {batch} : Warm(h)
    /\ mode = "replay" => \A h \in Weights : Warm(h)

\* A recorded launch of the step on x with the loss y, whose arrays were at
\* where[h], of entries at d[h] with the marks stale[h].  Only the buffer of y
\* may be one that was scratch before.
StepOp(o, x, y, where, d, stale) ==
    /\ o.op = "launch" /\ DOMAIN o.ptrs = DOMAIN o.kern.args
    /\ \A j \in DOMAIN o.kern.args :
          LET h == o.kern.args[j].host IN
          /\ h \in Weights \cup {x, y} /\ o.ptrs[j] = where[h]
          /\ h \in Weights /\ o.kern.args[j].role # "in" => stale[h]
    /\ PassesAs(o.kern, x, "in")
    /\ o.scr # None => \A h \in Host : d[h] = o.scr => h = y
    /\ o.scr # where[x]

\* The recording makes the loss y, at p, before it reads it, and from then on
\* p is no launch's scratch.
MadeFirst(ops, y, p) ==
    \E n \in DOMAIN ops : /\ \A i \in 1..(n - 1) : ~Passes(ops[i].kern, y)
                          /\ Passes(ops[n].kern, y) /\ PassesAs(ops[n].kern, y, "out")
                          /\ \A i \in n..Len(ops) : ops[i].scr # p

\* How far the capture is with its loss: no launch has passed it, the launch
\* under way makes it, or a recorded launch makes it.
LossUntouched ==
    /\ ~Passes(kern, loss) /\ FirstWritten(step, loss)
    /\ dptr[loss] = None /\ \A i \in DOMAIN tape : ~Passes(tape[i].kern, loss)

LossComing ==
    /\ Passes(kern, loss) /\ PassesAs(kern, loss, "out") /\ pc # "release"
    /\ dptr[loss] # None => \E i \in DOMAIN got : kern.args[i].host = loss
    /\ \A i \in DOMAIN tape : ~Passes(tape[i].kern, loss)

LossRecorded ==
    /\ dptr[loss] # None /\ deviceFresh[loss] /\ hostStale[loss] /\ loss \in Pinned
    /\ MadeFirst(tape, loss, dptr[loss])

CaptureInv ==
    mode = "capture" =>
        /\ \A i \in DOMAIN tape : StepOp(tape[i], batch, loss, dptr, dptr, hostStale)
        /\ graph.inPtr = dptr[batch]
        /\ hostHas[loss]
        /\ LossUntouched \/ LossComing \/ LossRecorded

\* Where a captured step finds its arrays.
Captured == [dptr EXCEPT ![graph.input] = graph.inPtr, ![graph.output] = graph.lossPtr]

\* The graph: its input and output buffers are nobody else's, its arrays are
\* those of the step that was captured.
GraphInv ==
    mode = "replay" =>
        /\ graph.input \in Host \ Params /\ graph.output \in Host \ Params
        /\ graph.input # graph.output
        /\ graph.inPtr \in Ptr /\ graph.lossPtr \in Ptr /\ graph.inPtr # graph.lossPtr
        /\ \A h \in Host : /\ dptr[h] = graph.inPtr => h = graph.input
                           /\ dptr[h] = graph.lossPtr => h = graph.output
        /\ graph.input \in alive /\ dptr[graph.input] = graph.inPtr =>
              graph.input \in dropped \cup {batch}
        /\ graph.output \in alive => graph.output \in dropped \cup {loss}
        /\ \A i \in DOMAIN graph.tape : StepOp(graph.tape[i], graph.input, graph.output, Captured, dptr, hostStale)
        /\ MadeFirst(graph.tape, graph.output, graph.lossPtr)

\* The replay: the input buffer has the batch, and what is left of the
\* recording makes the loss unless it is made.
LossMade ==
    /\ devHas[graph.lossPtr] = graph.output
    /\ \A i \in DOMAIN work : work[i].scr # graph.lossPtr

ReplayInv ==
    /\ mode = "replay" =>
          /\ batch # None => pc = "replay"
          /\ loss # None => /\ loss = graph.output /\ dptr[loss] = graph.lossPtr
                            /\ deviceFresh[loss] /\ hostStale[loss]
    /\ pc = "replay" =>
          /\ batch # graph.output
          /\ devHas[graph.inPtr] = batch
          /\ \A i \in DOMAIN work : \E l \in DOMAIN graph.tape : work[i] = graph.tape[l]
          /\ MadeFirst(work, graph.output, graph.lossPtr) \/ LossMade

GContentInv == StepArrays /\ ContentsInv /\ WarmInv /\ CaptureInv /\ GraphInv /\ ReplayInv
-----------------------------------------------------------------------------
(* The program, and what its steps do to the arrays.                        *)

\* What TrainsInPlace says of one step.
LEMMA ProgramFacts ==
    ASSUME TrainsInPlace, NEW x \in Host \ Params, NEW y \in Host \ Params, x # y
    PROVE  /\ \A i \in DOMAIN Program(x, y, None) : StepUses(Program(x, y, None)[i], x, y)
           /\ FirstWritten(Program(x, y, None), y)
           /\ \A h \in Weights : \E i \in DOMAIN Program(x, y, None) : h \in Program(x, y, None)[i].pins
  BY DEF TrainsInPlace

\* The weights are parameters, and those are arrays.
LEMMA WeightFacts == Weights \subseteq Params /\ Params \subseteq Host
  BY GraphAssumption DEF Weights

\* No launch passes no array.
LEMMA NoKernelFacts ==
    /\ \A x, y : StepUses(NoKernel, x, y)
    /\ \A h : ~Passes(NoKernel, h)
    /\ NoKernel.pins = {} /\ NoKernel.args = << >>
  BY DEF NoKernel, StepUses, PassesAs, SafeLaunch, OutputsApart, PinsAhead, Passes

\* The upload of the batch before a capture is a launch of the step too.
LEMMA UploadFacts ==
    ASSUME NEW x, NEW y, NEW ks,
           ks = << [args |-> << [host |-> x, role |-> "in"] >>, scratch |-> FALSE, pins |-> {x}] >>
    PROVE  /\ DOMAIN ks = {1} /\ ks[1].pins = {x}
           /\ \A i \in DOMAIN ks : StepUses(ks[i], x, y)
<1> DEFINE r == [host |-> x, role |-> "in"]
           args == << r >>
           k == [args |-> args, scratch |-> FALSE, pins |-> {x}]
<1>1. r.host = x /\ r.role = "in"
  OBVIOUS
<1> HIDE DEF r
<1>2. DOMAIN args = {1} /\ args[1] = r /\ Len(args) = 1
  OBVIOUS
<1> HIDE DEF args
<1>3. k.args = args /\ k.pins = {x}
  OBVIOUS
<1> HIDE DEF k
<1>4. DOMAIN ks = {1} /\ ks[1] = k
  BY DEF k, args, r
<1>5. StepUses(k, x, y)
  <2>1. \A i \in DOMAIN k.args : k.args[i].host = x /\ k.args[i].role = "in" /\ ~(i < Len(k.args))
    BY <1>1, <1>2, <1>3
  <2> QED
    BY <2>1 DEF StepUses, PassesAs, SafeLaunch, OutputsApart, PinsAhead
<1> QED
  BY <1>3, <1>4, <1>5

\* Between calls nothing is under way.
LEMMA IdleFacts ==
    CacheInv /\ pc \notin Launching =>
        kern = NoKernel /\ got = << >> /\ scratchPtr = None /\ Pending = {}
<1> SUFFICES ASSUME CacheInv, pc \notin Launching
             PROVE  kern = NoKernel /\ got = << >> /\ scratchPtr = None /\ Pending = {}
  OBVIOUS
<1>1. kern = NoKernel /\ got = << >> /\ scratchPtr = None
  BY DEF CacheInv, CallInv
<1> QED
  BY <1>1 DEF Pending, MarkedOutputs

\* What the calls of the cache leave of the launch, the modes and the arrays.
LEMMA CallFrame ==
    ASSUME CacheStep
    PROVE  /\ UNCHANGED << mode, seen, step, batch, loss, grad, graph, work, dropped, alive >>
           /\ kern' \in {kern, NoKernel}
           /\ capturing' = capturing
           /\ pc' \in {"clean", "dirty", "flush", "releaseAll"} =>
                 ~capturing \/ pc \in {"clean", "dirty", "flush", "releaseAll"}
<1>1. CASE AcquireScratch \/ ReleaseScratch \/ EvictStep \/ EvictPassEnds \/ RunKernel \/ RecordKernel
  BY <1>1 DEF CacheStep, graphVars, AcquireScratch, ReleaseScratch, EvictStep, EvictPassEnds, RunKernel, RecordKernel,
     LaunchEnds, captureVars
<1>2. CASE ArgResident \/ ArgMissing \/ CreateEntry
  BY <1>2 DEF CacheStep, graphVars, ArgResident, ArgMissing, CreateEntry, Use, NextArg, captureVars
<1>3. CASE FlushStep \/ ReleaseAllStep \/ WalkEnds
  BY <1>3 DEF CacheStep, graphVars, FlushStep, ReleaseAllStep, WalkEnds, captureVars, Ready
<1>4. CASE TrimStep /\ UNCHANGED << entryVars, pinned, captureVars, alive, dataVars, callVars, ghosts >>
  BY <1>4 DEF CacheStep, graphVars, captureVars, callVars
<1> QED
  BY <1>1, <1>2, <1>3, <1>4 DEF CacheStep

\* The arrays of a step stay what they are until it ends.
LEMMA ArraySteps ==
    ASSUME TrainsInPlace, FailsClean, WarmupSteps # 0,
           CacheInv, GraphTypes, ModeInv, StepArrays, ReplayInv, [GNext]_gvars
    PROVE  StepArrays'
<1>1. /\ Params \subseteq Host /\ alive \subseteq Host /\ None \notin Host /\ None \notin Params
      /\ batch \in Host \cup {None} /\ loss \in Host \cup {None}
  BY WeightFacts, HostAssumption DEF CacheInv, CacheTypes, GraphTypes, GTypeOK
<1>2. pc \notin Launching => kern = NoKernel
  BY IdleFacts
<1>3. /\ Params \subseteq alive \ dropped
      /\ {batch, loss} \ {None} \subseteq alive \ (dropped \cup Params)
      /\ batch = loss => batch = None
      /\ batch = None => loss = None
      /\ grad = None
      /\ mode \in {"off", "teardown"} => seen = 0 /\ batch = None
      /\ mode = "capture" => pc \notin {"clean", "dirty", "flush", "releaseAll"}
      /\ \A i \in DOMAIN step : StepUses(step[i], batch, loss)
      /\ StepUses(kern, batch, loss)
  BY DEF StepArrays
<1>4. ASSUME UNCHANGED << step, batch, loss, grad >>, kern' \in {kern, NoKernel},
             Params \subseteq alive' \ dropped', alive \ dropped \subseteq alive' \ dropped',
             mode' \in {"off", "teardown"} => (mode' = mode /\ seen' = seen) \/ (seen' = 0 /\ batch = None),
             mode' = "capture" => pc' \notin {"clean", "dirty", "flush", "releaseAll"}
      PROVE  StepArrays'
  BY <1>3, <1>4, NoKernelFacts DEF StepArrays
<1>5. ASSUME kern' = NoKernel, \A i \in DOMAIN step' : StepUses(step'[i], batch', loss'),
             Params \subseteq alive' \ dropped',
             {batch', loss'} \ {None} \subseteq alive' \ (dropped' \cup Params),
             batch' = loss' => batch' = None,
             batch' = None => loss' = None, grad' = None,
             mode' \notin {"off", "teardown"},
             mode' = "capture" => pc' \notin {"clean", "dirty", "flush", "releaseAll"}
      PROVE  StepArrays'
  BY <1>5, NoKernelFacts DEF StepArrays
<1>6. ASSUME NEW x \in Host, NEW y \in Host, EagerStep(x, y) PROVE StepArrays'
  <2>1. /\ x \in alive \ (Params \cup dropped) /\ y \in alive \ (Params \cup dropped) /\ x # y
        /\ kern' = NoKernel /\ step' = Program(x, y, None) /\ batch' = x /\ loss' = y /\ grad' = None
        /\ alive' = alive /\ dropped' = dropped /\ mode' \in {"warmup", "disabled"}
    BY <1>2, <1>3, <1>6 DEF EagerStep, Fresh, Between, Idle, Ready, Launching, vars, callVars
  <2>2. x \in Host \ Params /\ y \in Host \ Params /\ x # None /\ y # None
    BY <1>1, <2>1
  <2> QED
    BY <1>3, <1>5, <2>1, <2>2, ProgramFacts
<1>7. ASSUME NEW x \in Host, NEW y \in Host, CaptureUpload(x, y) PROVE StepArrays'
  <2>1. /\ x \in alive \ (Params \cup dropped) /\ y \in alive \ (Params \cup dropped) /\ x # y
        /\ kern' = NoKernel /\ batch' = x /\ loss' = y /\ grad' = None
        /\ step' = << [args |-> << [host |-> x, role |-> "in"] >>, scratch |-> FALSE, pins |-> {x}] >>
        /\ alive' = alive /\ dropped' = dropped /\ mode' = "upload"
    BY <1>2, <1>3, <1>7 DEF CaptureUpload, Fresh, Between, Idle, Ready, Launching, vars, callVars
  <2>2. \A i \in DOMAIN step' : StepUses(step'[i], x, y)
    BY <2>1, UploadFacts
  <2>3. x # None /\ y # None
    BY <1>1
  <2> QED
    BY <1>3, <1>5, <2>1, <2>2, <2>3
<1>8. CASE StepLaunch
  <2>1. step # << >> /\ step \in Seq(Launches) /\ kern' = Head(step) /\ step' = Tail(step)
        /\ UNCHANGED << mode, seen, batch, loss, grad, dropped, alive >>
        /\ pc' \in {"scratch", "arg"}
    BY <1>8 DEF StepLaunch, Launch, GraphTypes, GTypeOK, Launches, Uploads
  <2>2. 1 \in DOMAIN step /\ Head(step) = step[1]
        /\ \A i \in DOMAIN Tail(step) : i + 1 \in DOMAIN step /\ Tail(step)[i] = step[i + 1]
    BY <2>1
  <2>3. /\ \A i \in DOMAIN step' : StepUses(step'[i], batch, loss)
        /\ StepUses(kern', batch, loss)
    BY <1>3, <2>1, <2>2
  <2> QED
    BY <1>3, <2>1, <2>3 DEF StepArrays
<1>9. CASE EagerStepEnds \/ ReplayEnds
  <2>1. /\ batch' = None /\ loss' = None /\ grad' = None /\ dropped' = dropped \cup ({batch, loss} \ {None})
        /\ alive' = alive /\ kern' = kern /\ step' = step /\ mode' = mode
        /\ pc \notin Launching /\ mode \in {"warmup", "disabled", "replay"}
    BY <1>3, <1>9 DEF EagerStepEnds, ReplayEnds, DropStep, StartWalk, Between, Idle, Ready, Launching, ModeInv
  <2>2. step = << >>
    BY <1>9 DEF EagerStepEnds, ReplayEnds, Between, ModeInv
  <2> QED
    BY <1>2, <1>3, <1>5, <2>1, <2>2
<1>10. CASE FitEnds
  BY <1>3, <1>4, <1>10 DEF FitEnds, StartWalk
<1>11. CASE TeardownEnds
  BY <1>3, <1>4, <1>11 DEF TeardownEnds, callVars
<1>12. CASE BeginCapture
  <2>1. /\ kern' = NoKernel /\ step' = Program(batch, loss, None) /\ mode' = "capture"
        /\ UNCHANGED << batch, loss, grad, dropped, alive >> /\ pc' = "idle"
        /\ batch \in Host /\ loss \in Host
    BY <1>2, <1>3, <1>12 DEF BeginCapture, Between, Idle, Ready, Launching, callVars, ModeInv
  <2>2. batch \in Host \ Params /\ loss \in Host \ Params /\ batch # loss
    BY <1>1, <1>3, <2>1
  <2> QED
    BY <1>3, <1>5, <2>1, <2>2, ProgramFacts
<1>13. CASE EndCapture
  BY <1>3, <1>4, <1>13 DEF EndCapture
<1>14. ASSUME NEW y \in Host, NEW place \in CapturePlaces, CaptureFails(y, place) PROVE StepArrays'
  <2>1. /\ kern' = NoKernel /\ step' = Program(batch, y, None) /\ mode' = "disabled"
        /\ batch' = batch /\ loss' = y /\ grad' = None /\ dropped' = dropped \cup {loss} /\ alive' = alive
        /\ batch \in Host /\ loss \in Host
        /\ y \in alive \ (Params \cup dropped) /\ y \notin {batch, loss}
    BY <1>1, <1>2, <1>14 DEF FailsClean, CaptureFails, Fresh, Idle, Ready, Launching, callVars, ModeInv
  <2>2. batch \in Host \ Params /\ y \in Host \ Params /\ batch # loss
    BY <1>1, <1>3, <2>1
  <2> QED
    BY <1>1, <1>3, <1>5, <2>1, <2>2, ProgramFacts
<1>15. ASSUME NEW x \in Host, ReplayStep(x) PROVE StepArrays'
  <2>1. /\ kern' = NoKernel /\ step' = << >> /\ batch' = x /\ loss' = loss /\ grad' = grad /\ mode' = "replay"
        /\ UNCHANGED << dropped, alive >> /\ x \in alive \ (Params \cup dropped)
        /\ mode = "replay" /\ pc = "idle"
    BY <1>2, <1>15 DEF ReplayStep, Fresh, Between, Idle, Ready, Launching
  <2>2. batch = None /\ loss = None
    BY <1>3, <2>1 DEF ReplayInv
  <2> QED
    BY <1>1, <1>3, <1>5, <2>1, <2>2
<1>16. CASE RunRecorded
  BY <1>3, <1>4, <1>16 DEF RunRecorded, callVars
<1>17. CASE CacheStep
  BY <1>3, <1>4, <1>17, CallFrame DEF ModeInv
<1>18. CASE \/ \E h \in Host, write \in BOOLEAN : GHostAccess(h, write)
            \/ \E h \in Host : GCollect(h) \/ GNewArray(h)
            \/ (mode = "off" /\ StartWalk("releaseAll") /\ UNCHANGED graphVars)
            \/ GFinalize \/ UNCHANGED gvars
  <2>1. /\ UNCHANGED << step, batch, loss, grad, kern, mode, seen >>
        /\ alive \ dropped \subseteq alive' \ dropped'
        /\ mode = "capture" => pc' = pc
    BY <1>18 DEF GHostAccess, HostAccess, GCollect, Collect, GNewArray, NewArray, GFinalize, Finalize, LateFinalize, StartWalk, ModeInv,
       gvars, vars, graphVars, callVars
  <2> QED
    BY <1>3, <1>4, <2>1
<1> QED
  BY <1>6, <1>7, <1>8, <1>9, <1>10, <1>11, <1>12, <1>13, <1>14, <1>15, <1>16, <1>17, <1>18 DEF GNext
-----------------------------------------------------------------------------
(* The weights stay on the device.                                          *)

\* The cache's steps but for accesses to h: the entry of a pinned array h
\* stays, and its marks are not taken back.
LEMMA PinnedKeeps ==
    ASSUME CacheInv, NEW h \in Host, dptr[h] # None, h \in Pinned, h \in alive',
           pc # "releaseAll",
           [CallStep]_cacheVars \/ \E g \in Host, write \in BOOLEAN : g # h /\ HostAccess(g, write)
    PROVE  /\ dptr'[h] = dptr[h]
           /\ deviceFresh[h] => deviceFresh'[h]
           /\ hostStale[h] => hostStale'[h]
           /\ h \in pinned => h \in pinned'
<1> DEFINE Kept == /\ dptr'[h] = dptr[h] /\ (deviceFresh[h] => deviceFresh'[h])
                   /\ (hostStale[h] => hostStale'[h]) /\ (h \in pinned => h \in pinned')
<1>1. /\ CacheTypes /\ CallInv /\ h \in alive
      /\ dptr \in [Host -> Ptr \cup {None}]
      /\ deviceFresh \in [Host -> BOOLEAN] /\ hostStale \in [Host -> BOOLEAN]
  BY DEF CacheInv, CacheTypes, PinInv
<1>2. ASSUME UNCHANGED << dptr, deviceFresh, hostStale >>, pinned \subseteq pinned' PROVE Kept
  BY <1>2
<1>3. ASSUME NEW g, NEW wb, ReclaimEntry(g, wb), g # h, pinned' = pinned PROVE Kept
  BY <1>1, <1>3 DEF ReclaimEntry
<1>4. CASE EvictStep \/ FlushStep
  BY <1>1, <1>2, <1>3, <1>4 DEF EvictStep, FlushStep, FreeEntry, Evictable, KeepEntries, entryVars
<1>5. CASE ReleaseAllStep
  BY <1>5 DEF ReleaseAllStep, Ready
<1>6. ASSUME NEW g \in Host, Finalize(g) PROVE Kept
  BY <1>1, <1>3, <1>6 DEF Finalize
<1>7. CASE ArgResident \/ CreateEntry
  <2>1. /\ pinned' = pinned
        /\ \E p, fresh, stale : Use(Arg.host, Arg.role, p, fresh, stale) /\ (stale = hostStale[Arg.host] \/ Arg.host # h)
    BY <1>1, <1>7 DEF ArgResident, CreateEntry, Ready, CallInv
  <2>2. dptr'[h] = dptr[h]
    <3>1. CASE ArgResident
      BY <3>1 DEF ArgResident
    <3>2. CASE CreateEntry
      <4>1. Arg.host # h /\ \E p : dptr' = [dptr EXCEPT ![Arg.host] = p]
        BY <3>2 DEF CreateEntry, CacheInv, CallInv, Ready
      <4> QED
        BY <1>1, <4>1
    <3> QED
      BY <1>7, <3>1, <3>2
  <2>3. PICK p, fresh, stale : Use(Arg.host, Arg.role, p, fresh, stale) /\ (stale = hostStale[Arg.host] \/ Arg.host # h)
    BY <2>1
  <2>4. /\ deviceFresh' = [deviceFresh EXCEPT ![Arg.host] = TRUE]
        /\ hostStale' = [hostStale EXCEPT ![Arg.host] = stale \/ MarksStale(Arg.role)]
    BY <2>3 DEF Use
  <2> QED
    BY <1>1, <2>1, <2>2, <2>3, <2>4
<1>8. CASE (\E k : Launch(k)) \/ AcquireScratch \/ ArgMissing \/ GatherFails
           \/ EvictPassEnds \/ RunKernel \/ RecordKernel \/ ReleaseScratch \/ WalkEnds
  BY <1>2, <1>8 DEF Launch, AcquireScratch, ArgMissing, GatherFails, EvictPassEnds,
     RunKernel, RecordKernel, ReleaseScratch, WalkEnds, entryVars
<1>9. CASE \E g \in Host, write \in BOOLEAN : g # h /\ HostAccess(g, write)
  <2>1. PICK g \in Host, write \in BOOLEAN : g # h /\ HostAccess(g, write)
    BY <1>9
  <2> QED
    BY <1>1, <2>1 DEF HostAccess, AccessMarks
<1>10. ASSUME NEW g \in Host, Collect(g) PROVE Kept
  BY <1>1, <1>10 DEF Collect, entryVars
<1>11. CASE \/ \E kind \in {"flush", "releaseAll"} : StartWalk(kind)
            \/ \E g \in Host : NewArray(g)
            \/ PoolStep \/ UNCHANGED cacheVars
  BY <1>2, <1>11 DEF StartWalk, NewArray, PoolStep, cacheVars, entryVars
<1> QED
  BY <1>4, <1>5, <1>6, <1>7, <1>8, <1>9, <1>10, <1>11 DEF CallStep

\* So a weight that is warm stays so while the fit goes on.
LEMMA StaysWarm ==
    ASSUME ~CallbacksTouch, CacheInv, GraphTypes, ModeInv, StepArrays, StepArrays', [GNext]_gvars,
           mode \in {"warmup", "upload", "capture", "replay"},
           NEW h \in Host, h \in Params \/ (h = batch /\ mode \in {"upload", "capture"} /\ h \in alive'), Warm(h)
    PROVE  Warm(h)' /\ dptr'[h] = dptr[h] /\ (hostStale[h] => hostStale'[h])
<1>1. /\ h \in alive' /\ h \in Pinned /\ pc # "releaseAll" /\ dptr[h] # None /\ h \in pinned /\ deviceFresh[h]
  BY DEF StepArrays, Warm, Pinned, ModeInv
<1>2. CASE BehindBack
  BY <1>1, <1>2 DEF BehindBack, BeginCapture, EndCapture, CaptureFails, ReplayStep, RunRecorded, ReplayEnds,
     entryVars, Warm
<1>3. CASE [CallStep]_cacheVars \/ \E g \in Host, write \in BOOLEAN : GHostAccess(g, write) /\ HostAccess(g, write)
  <2>1. [CallStep]_cacheVars \/ \E g \in Host, write \in BOOLEAN : g # h /\ HostAccess(g, write)
    BY <1>3 DEF GHostAccess
  <2> QED
    BY <1>1, <2>1, PinnedKeeps DEF Warm
<1> QED
  BY <1>2, <1>3, FitCalls
\* What a launch pins has its entry as soon as it is gathered.
LEMMA GatherWarms ==
    ASSUME CacheInv, CacheStep, NEW h \in Host, h \in kern.pins, h \in pinned, pc # "release",
           \A i \in DOMAIN got : kern.args[i].host # h
    PROVE  \/ Warm(h)'
           \/ h \in kern'.pins /\ h \in pinned' /\ pc' # "release" /\ \A i \in DOMAIN got' : kern'.args[i].host # h
<1>1. pc \in Launching /\ CacheTypes /\ CallInv
  BY NoKernelFacts DEF CacheInv, CallInv
<1>2. IsLaunch(kern) /\ got \in Seq(Ptr)
  BY <1>1 DEF CallInv, CacheTypes
<1>3. CASE \/ AcquireScratch \/ ArgMissing \/ EvictStep \/ EvictPassEnds
           \/ TrimStep /\ UNCHANGED << entryVars, pinned, captureVars, alive, dataVars, callVars, ghosts >>
  <2>1. UNCHANGED << kern, got, pinned >> /\ pc' # "release"
    BY <1>3 DEF AcquireScratch, ArgMissing, EvictStep, EvictPassEnds, callVars, Ready
  <2> QED
    BY <2>1
<1>4. CASE ArgResident \/ CreateEntry
  <2>1. Len(got) < Len(kern.args)
    BY <1>1, <1>4 DEF ArgResident, CreateEntry, Ready, CallInv
  <2>2. Arg.host \in Host
    BY <1>2, <2>1, ArgType
  <2>3. PICK p \in Ptr : /\ \E fresh, stale : Use(Arg.host, Arg.role, p, fresh, stale)
                         /\ dptr' = [dptr EXCEPT ![Arg.host] = p]
    BY <1>1, <1>4, <2>2 DEF ArgResident, CreateEntry, Resident, CacheTypes
  <2>4. /\ got' = Append(got, p) /\ kern' = kern /\ pinned' = pinned /\ pc' \in {"launch", "arg"}
        /\ deviceFresh' = [deviceFresh EXCEPT ![Arg.host] = TRUE]
    BY <1>4, <2>3 DEF Use, NextArg, ArgResident, CreateEntry
  <2>5. CASE Arg.host = h
    BY <1>1, <2>3, <2>4, <2>5, ByteFacts DEF Warm, CacheTypes
  <2>6. CASE Arg.host # h
    <3>1. \A i \in DOMAIN got' : i \in DOMAIN got \/ i = Len(got) + 1
      BY <1>2, <2>4
    <3> QED
      BY <2>4, <2>6, <3>1 DEF Arg
  <2> QED
    BY <2>5, <2>6
<1>5. CASE RunKernel \/ RecordKernel
  <2>1. Len(got) = Len(kern.args)
    BY <1>1, <1>5 DEF RunKernel, RecordKernel, Ready, CallInv
  <2>2. DOMAIN got = DOMAIN kern.args
    BY <1>2, <2>1, LaunchArgs
  <2> QED
    BY <1>2, <2>2 DEF IsLaunch
<1>6. CASE ReleaseScratch \/ FlushStep \/ ReleaseAllStep \/ WalkEnds
  BY <1>1, <1>6 DEF ReleaseScratch, FlushStep, ReleaseAllStep, WalkEnds, Ready, Launching
<1> QED
  BY <1>3, <1>4, <1>5, <1>6 DEF CacheStep

\* An entry keeps its buffer until it is freed, and only a launch makes one.
LEMMA EntrySteps ==
    ASSUME CacheInv, [CacheNext]_cacheVars, NEW h \in Host
    PROVE  \/ dptr'[h] = dptr[h] \/ dptr'[h] = None
           \/ CreateEntry /\ h = Arg.host /\ dptr[h] = None
<1>1. CacheTypes
  BY DEF CacheInv
<1>2. ASSUME NEW g, NEW wb, ReclaimEntry(g, wb) PROVE dptr'[h] = dptr[h] \/ dptr'[h] = None
  BY <1>1, <1>2 DEF ReclaimEntry, CacheTypes
<1>3. CASE EvictStep \/ FlushStep \/ ReleaseAllStep \/ (\E g \in Host : Finalize(g))
  BY <1>2, <1>3 DEF EvictStep, FlushStep, ReleaseAllStep, FreeEntry, Finalize, KeepEntries, entryVars
<1>4. CASE CreateEntry
  <2>1. dptr[Arg.host] = None
    BY <1>4 DEF CreateEntry, CacheInv, CallInv, Ready
  <2> QED
    BY <1>1, <1>4, <2>1 DEF CreateEntry, CacheTypes
<1>5. CASE (\E k : Launch(k)) \/ AcquireScratch \/ ArgResident \/ ArgMissing \/ GatherFails
           \/ EvictPassEnds \/ RunKernel \/ RecordKernel \/ ReleaseScratch \/ WalkEnds
  BY <1>5 DEF Launch, AcquireScratch, ArgResident, ArgMissing, GatherFails, EvictPassEnds,
     RunKernel, RecordKernel, ReleaseScratch, WalkEnds, entryVars
<1>6. CASE \/ \E g \in Host, write \in BOOLEAN : HostAccess(g, write)
           \/ \E kind \in {"flush", "releaseAll"} : StartWalk(kind)
           \/ \E g \in Host : Collect(g) \/ NewArray(g)
           \/ PoolStep \/ UNCHANGED cacheVars
  BY <1>6 DEF HostAccess, StartWalk, Collect, NewArray, PoolStep, cacheVars, entryVars
<1> QED
  BY <1>3, <1>4, <1>5, <1>6 DEF CacheNext, CallStep
\* The weights are on the device, or on their way, from the first step on.
LEMMA WarmSteps ==
    ASSUME TrainsInPlace, WarmupSteps # 0, ~CallbacksTouch,
           CacheInv, GraphTypes, ModeInv, StepArrays, StepArrays', WarmInv, [GNext]_gvars
    PROVE  WarmInv'
<1>1. /\ Weights \subseteq Params /\ Params \subseteq Host /\ None \notin Host
      /\ \A h \in Host : h \notin NoKernel.pins /\ ~Passes(NoKernel, h)
      /\ batch \in Host \cup {None} /\ loss \in Host \cup {None}
  BY WeightFacts, NoKernelFacts, HostAssumption DEF GraphTypes, GTypeOK
<1>2. pc \notin Launching => kern = NoKernel
  BY IdleFacts
<1>3. ASSUME mode \in {"warmup", "upload", "capture", "replay"}, NEW h \in Weights, Warm(h) PROVE Warm(h)'
  BY <1>1, <1>3, StaysWarm
<1>4. ASSUME mode \in {"upload", "capture"}, batch' = batch, Warm(batch) PROVE Warm(batch)'
  <2>1. batch \in Host /\ batch \in alive'
    BY <1>1, <1>4 DEF ModeInv, StepArrays
  <2> QED
    BY <1>4, <2>1, StaysWarm
<1>5. ASSUME pc \notin Launching, step = << >>, mode \in {"warmup", "upload"}
      PROVE  (\A h \in Weights : Warm(h)) /\ (mode = "upload" => Warm(batch))
  BY <1>1, <1>2, <1>5 DEF WarmInv, Coming, ModeInv
<1>6. ASSUME NEW x \in Host, NEW y \in Host, EagerStep(x, y) PROVE WarmInv'
  <2>1. /\ x \in Host \ Params /\ y \in Host \ Params /\ x # y
        /\ step' = Program(x, y, None) /\ mode' \in {"warmup", "disabled"}
    BY <1>6 DEF EagerStep, Fresh, StepArrays
  <2>2. \A h \in Weights : \E i \in DOMAIN step' : h \in step'[i].pins
    BY <2>1, ProgramFacts
  <2> QED
    BY <2>1, <2>2 DEF WarmInv, Coming
<1>7. ASSUME NEW x \in Host, NEW y \in Host, CaptureUpload(x, y) PROVE WarmInv'
  <2>1. /\ mode = "warmup" /\ step = << >> /\ pc \notin Launching
        /\ step' = << [args |-> << [host |-> x, role |-> "in"] >>, scratch |-> FALSE, pins |-> {x}] >>
        /\ batch' = x /\ loss' = y /\ mode' = "upload" /\ UNCHANGED vars /\ x # y /\ dptr[y] = None
    BY <1>7, GraphAssumption DEF CaptureUpload, WarmingUp, StepArrays, Fresh, Resident, Between, Idle, Ready, Launching
  <2>2. /\ 1 \in DOMAIN step' /\ x \in step'[1].pins
        /\ \A i \in DOMAIN step' : ~Passes(step'[i], y)
    <3>1. DOMAIN step' = {1} /\ step'[1].pins = {x}
      BY <2>1, UploadFacts
    <3>2. step'[1] = [args |-> << [host |-> x, role |-> "in"] >>, scratch |-> FALSE, pins |-> {x}]
      BY <2>1
    <3>3. ~Passes(step'[1], y)
      BY <2>1, <3>2 DEF Passes
    <3> QED
      BY <3>1, <3>3
  <2>3. UNCHANGED << dptr, pinned, deviceFresh, kern, pc, got >>
    BY <2>1 DEF vars, entryVars, callVars
  <2>4. \A h \in Weights : Warm(h)'
    BY <1>5, <2>1, <2>3 DEF Warm
  <2>5. kern' = NoKernel
    BY <1>2, <2>1, <2>3
  <2> QED
    BY <1>1, <2>1, <2>2, <2>3, <2>4, <2>5 DEF WarmInv, Coming
<1>8. CASE StepLaunch
  <2>1. /\ step # << >> /\ step \in Seq(Launches) /\ kern' = Head(step) /\ step' = Tail(step)
        /\ UNCHANGED << mode, batch, loss, dptr >> /\ pinned' = pinned \cup Head(step).pins
        /\ pc' # "release" /\ got' = << >> /\ pc \notin Launching
    BY <1>8 DEF StepLaunch, Launch, GraphTypes, GTypeOK, Launches, Uploads, Ready, Launching, entryVars,
       CacheInv, CallInv
  <2>2. /\ 1 \in DOMAIN step /\ Head(step) = step[1]
        /\ \A i \in DOMAIN step : i = 1 \/ (i - 1 \in DOMAIN Tail(step) /\ Tail(step)[i - 1] = step[i])
        /\ \A i \in DOMAIN Tail(step) : i + 1 \in DOMAIN step /\ Tail(step)[i] = step[i + 1]
    BY <2>1
  <2>3. ASSUME NEW h \in Host, Coming(h) PROVE Coming(h)'
    <3>1. PICK i \in DOMAIN step : h \in step[i].pins
      BY <1>1, <1>2, <2>1, <2>3 DEF Coming
    <3>2. CASE i = 1
      <4>1. h \in kern'.pins /\ h \in pinned' /\ DOMAIN got' = {}
        BY <2>1, <2>2, <3>1, <3>2
      <4> QED
        BY <2>1, <4>1 DEF Coming
    <3>3. CASE i # 1
      <4>1. i - 1 \in DOMAIN step' /\ h \in step'[i - 1].pins
        BY <2>1, <2>2, <3>1, <3>3
      <4> QED
        BY <4>1 DEF Coming
    <3> QED
      BY <3>2, <3>3
  <2>4. mode = "upload" => batch \in Host /\ ~Passes(kern', loss) /\ \A i \in DOMAIN step' : ~Passes(step'[i], loss)
    BY <2>1, <2>2 DEF WarmInv, ModeInv
  <2>5. mode # "replay"
    BY <1>8 DEF StepLaunch, ModeInv
  <2>6. \A h \in Weights : h \in Host
    BY <1>1
  <2> QED
    BY <1>3, <1>4, <2>1, <2>3, <2>4, <2>5, <2>6 DEF WarmInv
<1>9. CASE EagerStepEnds
  <2>1. mode \in {"warmup", "disabled"} /\ mode' = mode /\ step = << >> /\ pc \notin Launching
    BY <1>9 DEF EagerStepEnds, Between, Idle, Ready, Launching
  <2> QED
    BY <1>3, <1>5, <2>1 DEF WarmInv
<1>10. CASE FitEnds \/ TeardownEnds \/ (\E y \in Host, place \in CapturePlaces : CaptureFails(y, place))
  BY <1>10 DEF FitEnds, TeardownEnds, CaptureFails, WarmInv
<1>11. CASE BeginCapture
  <2>1. mode = "upload" /\ mode' = "capture" /\ batch' = batch /\ step = << >> /\ pc \notin Launching
    BY <1>11 DEF BeginCapture, Between, Idle, Ready, Launching
  <2> QED
    BY <1>3, <1>4, <1>5, <2>1 DEF WarmInv
<1>12. CASE EndCapture
  <2>1. mode = "capture" /\ mode' = "replay"
    BY <1>12 DEF EndCapture
  <2> QED
    BY <1>3, <2>1 DEF WarmInv
<1>13. CASE RunRecorded \/ ReplayEnds \/ (\E x \in Host : ReplayStep(x))
  <2>1. mode = "replay" /\ mode' = "replay"
    BY <1>13 DEF RunRecorded, ReplayEnds, ReplayStep, ModeInv
  <2> QED
    BY <1>3, <2>1 DEF WarmInv
<1>14. ASSUME UNCHANGED << mode, step, batch, loss >>, kern' \in {kern, NoKernel},
              mode = "upload" /\ dptr[loss] = None /\ ~Passes(kern, loss) => dptr'[loss] = None,
              \A h \in Host : Coming(h) => Warm(h)' \/ Coming(h)'
       PROVE  WarmInv'
  <2>1. \A h \in Weights : h \in Host
    BY <1>1
  <2>2. mode \in {"upload", "capture"} => batch \in Host /\ loss \in Host
    BY DEF ModeInv
  <2>3. mode \in {"warmup", "upload"} => \A h \in Weights : Warm(h)' \/ Coming(h)'
    BY <1>3, <1>14, <2>1 DEF WarmInv
  <2>4. mode = "upload" => /\ Warm(batch)' \/ Coming(batch)'
                           /\ dptr'[loss] = None /\ ~Passes(kern', loss)
                           /\ \A i \in DOMAIN step : ~Passes(step[i], loss)
    BY <1>1, <1>4, <1>14, <2>2 DEF WarmInv
  <2>5. /\ mode = "capture" => \A h \in Weights \cup {batch} : Warm(h)'
        /\ mode = "replay" => \A h \in Weights : Warm(h)'
    BY <1>3, <1>4, <1>14, <2>1 DEF WarmInv
  <2> QED
    BY <1>14, <2>3, <2>4, <2>5 DEF WarmInv
<1>15. CASE CacheStep
  <2>1. UNCHANGED << mode, step, batch, loss >> /\ kern' \in {kern, NoKernel}
    BY <1>15, CallFrame
  <2>2. ASSUME NEW h \in Host, Coming(h) PROVE Warm(h)' \/ Coming(h)'
    <3>1. CASE \E i \in DOMAIN step : h \in step[i].pins
      BY <2>1, <3>1 DEF Coming
    <3>2. CASE ~\E i \in DOMAIN step : h \in step[i].pins
      <4>1. h \in kern.pins /\ h \in pinned /\ pc # "release" /\ \A i \in DOMAIN got : kern.args[i].host # h
        BY <2>2, <3>2 DEF Coming
      <4> QED
        BY <1>15, <4>1, GatherWarms DEF Coming
    <3> QED
      BY <3>1, <3>2
  <2>3. ASSUME mode = "upload", dptr[loss] = None, ~Passes(kern, loss) PROVE dptr'[loss] = None
    <3>1. loss \in Host /\ [CacheNext]_cacheVars
      BY <1>15, <2>3 DEF ModeInv, CacheStep, CacheNext, CallStep, PoolStep
    <3>2. CreateEntry => \E j \in DOMAIN kern.args : kern.args[j] = Arg
      <4> SUFFICES ASSUME CreateEntry PROVE \E j \in DOMAIN kern.args : kern.args[j] = Arg
        OBVIOUS
      <4>1. IsLaunch(kern) /\ got \in Seq(Ptr) /\ Len(got) < Len(kern.args)
        BY DEF CreateEntry, Ready, CacheInv, CallInv, Launching, CacheTypes
      <4>2. Len(got) + 1 \in DOMAIN kern.args
        BY <4>1, LaunchArgs
      <4> QED
        BY <4>2 DEF Arg
    <3> QED
      BY <2>3, <3>1, <3>2, EntrySteps DEF Passes
  <2> QED
    BY <1>14, <2>1, <2>2, <2>3
<1>16. CASE \/ \E h \in Host, write \in BOOLEAN : GHostAccess(h, write)
            \/ \E h \in Host : GCollect(h) \/ GNewArray(h)
            \/ GFinalize
  <2>1. UNCHANGED << mode, step, batch, loss, kern, got, pc >> /\ pc \notin Launching /\ ~CreateEntry
    BY <1>16 DEF GHostAccess, HostAccess, GCollect, Collect, GNewArray, NewArray, GFinalize, Finalize, LateFinalize,
       graphVars, callVars, Ready, Launching, CreateEntry
  <2>4. [CacheNext]_cacheVars
    BY <1>16, FinalizeKinds DEF GHostAccess, GCollect, GNewArray, CacheNext, CallStep
  <2>2. \A h \in Host : Coming(h) => Coming(h)'
    BY <1>1, <1>2, <2>1 DEF Coming
  <2>3. mode = "upload" /\ dptr[loss] = None => dptr'[loss] = None
    BY <2>1, <2>4, EntrySteps DEF ModeInv
  <2> QED
    BY <1>14, <2>1, <2>2, <2>3
<1>17. CASE (mode = "off" /\ StartWalk("releaseAll") /\ UNCHANGED graphVars) \/ UNCHANGED gvars
  <2>1. mode' = "off" \/ UNCHANGED gvars
    BY <1>17 DEF graphVars
  <2>2. CASE UNCHANGED gvars
    BY <2>2 DEF gvars, vars, graphVars, entryVars, callVars, WarmInv, Warm, Coming
  <2> QED
    BY <2>1, <2>2 DEF WarmInv
<1> QED
  BY <1>6, <1>7, <1>8, <1>9, <1>10, <1>11, <1>12, <1>13, <1>15, <1>16, <1>17 DEF GNext
-----------------------------------------------------------------------------
(* The recording.                                                           *)

\* A step that keeps recording: of the fit's and the cache's steps few can be.
LEMMA CapturingSteps ==
    ASSUME CacheInv, GraphTypes, ModeInv, StepArrays, [GNext]_gvars, mode = "capture", mode' = "capture"
    PROVE  /\ UNCHANGED << batch, loss, graph, work >>
           /\ \/ StepLaunch
              \/ (ArgResident \/ CreateEntry) /\ UNCHANGED graphVars
              \/ RecordKernel /\ UNCHANGED graphVars
              \/ /\ UNCHANGED << tape, step, deviceFresh, hostStale, hostHas, spoilt >>
                 /\ UNCHANGED << kern, got >> \/ (pc = "release" /\ kern' = NoKernel /\ got' = << >>)
                 /\ pc' = "release" => pc = "release"
                 /\ pc = "release" => pc' = "release" \/ got' = << >>
                 /\ UNCHANGED << dptr, devHas, alive, dropped >>
              \/ \E h \in Host : GCollect(h) \/ (Finalize(h) /\ UNCHANGED graphVars) \/ GNewArray(h)
<1>1. /\ capturing /\ pc \notin {"clean", "dirty", "flush", "releaseAll"}
      /\ pc # "replay"
  BY DEF ModeInv, StepArrays
<1>2. CASE StepLaunch
  BY <1>2 DEF StepLaunch
<1>3. CASE CacheStep
  <2>1. UNCHANGED graphVars
    BY <1>3 DEF CacheStep
  <2>2. UNCHANGED << batch, loss, graph, work, step, dropped >>
    BY <2>1 DEF graphVars
  <2>3. CASE ArgResident \/ CreateEntry \/ RecordKernel
    BY <2>1, <2>2, <2>3
  <2>4. CASE EvictStep \/ EvictPassEnds \/ FlushStep \/ ReleaseAllStep \/ WalkEnds \/ RunKernel
    BY <1>1, <2>4 DEF EvictStep, EvictPassEnds, FlushStep, ReleaseAllStep, WalkEnds, RunKernel, Ready
  <2>5. CASE \/ AcquireScratch \/ ArgMissing
             \/ TrimStep /\ UNCHANGED << entryVars, pinned, captureVars, alive, dataVars, callVars, ghosts >>
    <3>1. /\ UNCHANGED << tape, deviceFresh, hostStale, hostHas, spoilt, kern, got, dptr, devHas, alive >>
          /\ pc' = "release" <=> pc = "release"
      BY <2>5 DEF AcquireScratch, ArgMissing, Ready, entryVars, dataVars, captureVars, callVars, ghosts
    <3> QED
      BY <2>2, <3>1
  <2>6. CASE ReleaseScratch
    <3>1. /\ UNCHANGED << tape, deviceFresh, hostStale, hostHas, spoilt, dptr, devHas, alive >>
          /\ pc = "release" /\ kern' = NoKernel /\ got' = << >> /\ pc' = "idle"
      BY <2>6 DEF ReleaseScratch, Ready, entryVars, dataVars, captureVars, ghosts
    <3> QED
      BY <2>2, <3>1
  <2> QED
    BY <1>3, <2>3, <2>4, <2>5, <2>6 DEF CacheStep
<1>4. CASE \E h \in Host : GCollect(h) \/ GNewArray(h)
  BY <1>4 DEF GCollect, GNewArray, graphVars
<1>5. CASE UNCHANGED gvars \/ GFinalize
  <2>1. CASE UNCHANGED gvars \/ \E e \in late : LateFinalize(e) /\ UNCHANGED graphVars
    <3>1. /\ UNCHANGED << batch, loss, graph, work, step, dropped >>
          /\ UNCHANGED << tape, deviceFresh, hostStale, hostHas, spoilt, kern, got, dptr, devHas, alive, pc >>
      BY <2>1 DEF gvars, vars, graphVars, entryVars, dataVars, captureVars, callVars, ghosts, LateFinalize
    <3> QED
      BY <3>1
  <2>2. CASE \E h \in Host : Finalize(h) /\ UNCHANGED graphVars
    BY <2>2 DEF graphVars
  <2> QED
    BY <1>5, <2>1, <2>2 DEF GFinalize
<1>6. CASE \/ (\E x, y \in Host : EagerStep(x, y) \/ CaptureUpload(x, y))
           \/ (\E y \in Host, place \in CapturePlaces : CaptureFails(y, place)) \/ (\E x \in Host : ReplayStep(x))
           \/ EagerStepEnds \/ BeginCapture \/ EndCapture
           \/ RunRecorded \/ ReplayEnds \/ FitEnds \/ TeardownEnds
           \/ \E h \in Host, write \in BOOLEAN : GHostAccess(h, write)
           \/ mode = "off" /\ StartWalk("releaseAll") /\ UNCHANGED graphVars
  BY <1>1, <1>6 DEF EagerStep, CaptureUpload, CaptureFails, ReplayStep, EagerStepEnds, BeginCapture, EndCapture,
     RunRecorded, ReplayEnds, FitEnds, TeardownEnds, GHostAccess
<1> QED
  BY <1>2, <1>3, <1>4, <1>5, <1>6 DEF GNext

\* An argument of a captured launch: a weight or the batch, which is on the
\* device, or the loss. It is uploaded for nobody.
LEMMA CapturedArgument ==
    ASSUME CacheInv, CacheInv', ModeInv, StepArrays, GatherInv, WarmInv, CaptureInv,
           mode = "capture", ArgResident \/ CreateEntry
    PROVE  /\ tape' = tape /\ devHas' = devHas /\ spoilt' = spoilt
           /\ Arg.host \in Weights \cup {batch, loss}
           /\ CreateEntry => Arg.host = loss
           /\ Passes(kern, Arg.host) /\ (Arg.host = loss /\ PassesAs(kern, loss, "out") => Arg.role = "out")
           /\ \E p \in Ptr : UseResult(p) /\ dptr' = [dptr EXCEPT ![Arg.host] = p] /\ dptr[Arg.host] \in {p, None}
<1>1. CacheTypes /\ CallInv /\ capturing /\ MarksInv /\ GatheredInv
  BY DEF CacheInv, ModeInv, GatherInv
<1>2. PICK p \in Ptr : /\ dptr' = [dptr EXCEPT ![Arg.host] = p] /\ dptr[Arg.host] \in {p, None}
                       /\ Use(Arg.host, Arg.role, p, deviceFresh[Arg.host], hostStale[Arg.host])
  BY <1>1, TakesBuffer
<1>3. UseResult(p)
  <2>1. pc \in {"arg", "create"}
    BY <1>1, TakesBuffer
  <2> QED
    BY <1>2, <2>1, UseFacts
<1>4. /\ Len(got) + 1 \in DOMAIN kern.args /\ kern.args[Len(got) + 1] = Arg
      /\ Arg.host \in Host /\ Arg.role \in Roles
  BY <1>3 DEF UseResult
<1>5. /\ Arg.host \in Weights \cup {batch, loss} /\ Passes(kern, Arg.host)
      /\ Arg.host = loss /\ PassesAs(kern, loss, "out") => Arg.role = "out"
  BY <1>4 DEF StepArrays, StepUses, Passes, PassesAs
<1>6. Arg.role # "out" => deviceFresh[Arg.host]
  <2>1. Arg.host \in Weights \cup {batch} => deviceFresh[Arg.host]
    BY DEF WarmInv, Warm
  <2>2. Arg.host = loss /\ Arg.role # "out" => deviceFresh[loss]
    BY <1>5 DEF CaptureInv, LossUntouched, LossComing, LossRecorded
  <2> QED
    BY <1>5, <2>1, <2>2
<1>7. tape' = tape /\ devHas' = devHas /\ spoilt' = spoilt
  BY <1>1, <1>2, <1>6 DEF Use, ghosts
<1>8. CreateEntry => Arg.host = loss
  <2>1. CreateEntry => dptr[Arg.host] = None
    BY DEF CreateEntry, CacheInv, CallInv, Ready
  <2> QED
    BY <1>5, <2>1 DEF WarmInv, Warm
<1> QED
  BY <1>2, <1>3, <1>5, <1>7, <1>8
\* What the steps of a capture keep of the arrays that are recorded.
LEMMA CapturedKeeps ==
    ASSUME ~CallbacksTouch, CacheInv, CacheInv', GraphTypes, ModeInv, StepArrays, StepArrays',
           GatherInv, WarmInv, CaptureInv, [GNext]_gvars, mode = "capture", mode' = "capture"
    PROVE  /\ batch \in Host /\ loss \in Host /\ batch' = batch /\ loss' = loss
           /\ \A h \in Weights \cup {batch} :
                 dptr[h] # None /\ dptr'[h] = dptr[h] /\ (hostStale[h] => hostStale'[h])
           /\ \A h \in Host : dptr'[h] = dptr[h] \/ dptr'[h] = None \/ h = loss
           /\ LossRecorded => dptr'[loss] = dptr[loss] /\ deviceFresh'[loss] /\ hostStale'[loss] /\ loss \in Pinned'
           /\ ~CreateEntry => dptr'[loss] = dptr[loss]
           /\ hostHas'[loss] /\ hostHas[loss]
<1>1. /\ UNCHANGED << batch, loss >> /\ batch \in Host /\ loss \in Host
      /\ loss \in alive /\ loss \in alive' /\ batch \in alive' /\ pc # "releaseAll"
      /\ CacheTypes /\ CallInv /\ hostHas[loss] /\ Weights \subseteq Host
  <2>1. UNCHANGED << batch, loss >>
    BY CapturingSteps
  <2>2. batch \in Host /\ loss \in Host /\ pc # "releaseAll" /\ hostHas[loss]
    BY DEF ModeInv, CaptureInv
  <2>3. /\ {batch, loss} \ {None} \subseteq alive /\ {batch', loss'} \ {None} \subseteq alive'
    BY DEF StepArrays
  <2>4. None \notin Host /\ CacheTypes /\ CallInv /\ Weights \subseteq Host
    BY HostAssumption, WeightFacts DEF CacheInv
  <2> QED
    BY <2>1, <2>2, <2>3, <2>4
<1>2. ASSUME NEW h \in Weights \cup {batch}
      PROVE  dptr[h] # None /\ dptr'[h] = dptr[h] /\ (hostStale[h] => hostStale'[h])
  <2>1. h \in Host /\ (h \in Params \/ h = batch) /\ Warm(h)
    BY <1>1, WeightFacts DEF WarmInv
  <2> QED
    BY <1>1, <2>1, StaysWarm DEF Warm
<1>3. ~BehindBack
  BY DEF BehindBack, BeginCapture, EndCapture, CaptureFails, ReplayStep, RunRecorded, ReplayEnds, ModeInv
<1>4. [CacheNext]_cacheVars /\ [CallStep]_cacheVars
  <2>1. \A h \in Host, write \in BOOLEAN : ~GHostAccess(h, write)
    BY DEF GHostAccess
  <2> QED
    BY <1>3, <2>1, FitCalls DEF CacheNext
<1>5. ASSUME NEW h \in Host
      PROVE  dptr'[h] = dptr[h] \/ dptr'[h] = None \/ h = loss
  BY <1>4, EntrySteps, CapturedArgument
<1>6. ASSUME LossRecorded
      PROVE  dptr'[loss] = dptr[loss] /\ deviceFresh'[loss] /\ hostStale'[loss] /\ loss \in Pinned'
  <2>1. dptr[loss] # None /\ loss \in Pinned /\ deviceFresh[loss] /\ hostStale[loss]
    BY <1>6 DEF LossRecorded
  <2>2. loss \in Pinned'
    BY <1>1, <1>4, <2>1, PinsStay
  <2> QED
    BY <1>1, <1>4, <2>1, <2>2, PinnedKeeps
<1>7. ASSUME NEW h \in Host, Finalize(h) PROVE dptr'[loss] = dptr[loss] /\ hostHas' = hostHas
  BY <1>1, <1>7 DEF Finalize, ReclaimEntry, CacheTypes
<1>8. ~CreateEntry => dptr'[loss] = dptr[loss]
  BY <1>1, <1>7, CapturingSteps
     DEF StepLaunch, Launch, ArgResident, RecordKernel, GCollect, Collect, GNewArray, NewArray, entryVars
<1>9. hostHas'[loss]
  <2>1. hostHas' = hostHas \/ \E h \in Host : hostHas' = [hostHas EXCEPT ![h] = TRUE]
    BY <1>7, CapturingSteps
       DEF StepLaunch, Launch, ArgResident, CreateEntry, Use, RecordKernel, GCollect, Collect, GNewArray, NewArray, dataVars
  <2> QED
    BY <1>1, <2>1 DEF CacheTypes
<1> QED
  BY <1>1, <1>2, <1>5, <1>6, <1>8, <1>9

\* A recorded launch found its arguments where they are, and its scratch
\* buffer is nobody's.
LEMMA NewStepOp ==
    ASSUME CacheInv, ModeInv, GatherInv, StepArrays, WarmInv, mode = "capture", RecordKernel, NEW o,
           o = [op |-> "launch", kern |-> kern, ptrs |-> got, scr |-> scratchPtr]
    PROVE  /\ tape' = Append(tape, o) /\ o.kern = kern /\ o.ptrs = got /\ o.scr = scratchPtr
           /\ UNCHANGED << dptr, deviceFresh, hostStale >>
           /\ StepOp(o, batch, loss, dptr, dptr, hostStale)
           /\ \A h \in Host : dptr[h] # None => dptr[h] # scratchPtr
           /\ \A j \in DOMAIN kern.args : LET h == kern.args[j].host IN
                 /\ j \in DOMAIN got /\ dptr[h] = got[j] /\ got[j] # None /\ deviceFresh[h]
                 /\ kern.args[j].role # "in" => hostStale[h]
<1>1. /\ pc = "launch" /\ IsLaunch(kern) /\ Len(got) = Len(kern.args) /\ got \in Seq(Ptr)
      /\ UNCHANGED << dptr, deviceFresh, hostStale >> /\ tape' = Append(tape, o)
      /\ o.op = "launch" /\ o.kern = kern /\ o.ptrs = got /\ o.scr = scratchPtr
  BY DEF RecordKernel, Ready, CacheInv, CallInv, Launching, CacheTypes, entryVars
<1>2. DOMAIN got = DOMAIN kern.args
  BY <1>1, LaunchArgs
<1>3. ASSUME NEW j \in DOMAIN kern.args
      PROVE  LET h == kern.args[j].host IN
             /\ j \in DOMAIN got /\ dptr[h] = got[j] /\ got[j] # None /\ deviceFresh[h]
             /\ kern.args[j].role # "in" => hostStale[h]
  <2>1. j \in DOMAIN got /\ got[j] \in Ptr
    BY <1>1, <1>2
  <2> QED
    BY <1>1, <2>1, ByteFacts DEF GatherInv, GatheredInv
<1>4. \A h \in Host : dptr[h] # None => dptr[h] # scratchPtr
  BY DEF CacheInv, BufferInv, EntryOwnership
<1>5. StepOp(o, batch, loss, dptr, dptr, hostStale)
  <2>1. /\ \A j \in DOMAIN kern.args : kern.args[j].host \in Weights \cup {batch, loss}
        /\ PassesAs(kern, batch, "in")
    BY DEF StepArrays, StepUses
  <2>2. dptr[batch] # None /\ batch \in Host
    BY DEF WarmInv, Warm, ModeInv
  <2>3. scratchPtr # None => scratchPtr # dptr[batch] /\ \A h \in Host : dptr[h] # scratchPtr
    BY <1>4, <2>2 DEF CacheInv, BufferInv, EntryOwnership, WarmInv
  <2>4. o.scr # dptr[batch]
    BY <1>1, <2>2, <2>3
  <2>5. \A j \in DOMAIN kern.args :
           LET h == kern.args[j].host IN
           /\ h \in Weights \cup {batch, loss} /\ got[j] = dptr[h]
           /\ h \in Weights /\ kern.args[j].role # "in" => hostStale[h]
    BY <1>3, <2>1
  <2>6. o.scr # None => \A h \in Host : dptr[h] = o.scr => h = loss
    <3>1. o.scr = scratchPtr
      BY <1>1
    <3> QED
      BY <2>3, <3>1, Zenon
  <2> QED
    BY <1>1, <1>2, <2>1, <2>4, <2>5, <2>6 DEF StepOp
<1> QED
  BY <1>1, <1>3, <1>4, <1>5
\* What keeps a recorded launch one of the step.
LEMMA OpKept ==
    ASSUME NEW o, NEW x, NEW y, NEW where, NEW d, NEW stale, StepOp(o, x, y, where, d, stale),
           NEW newWhere, NEW newD, NEW newStale,
           \A h \in Weights \cup {x} : newWhere[h] = where[h],
           Passes(o.kern, y) => newWhere[y] = where[y],
           \A h \in Weights : stale[h] => newStale[h],
           \A h \in Host : newD[h] = d[h] \/ newD[h] = None \/ h = y
    PROVE  StepOp(o, x, y, newWhere, newD, newStale)
<1>1. \A j \in DOMAIN o.kern.args :
         LET h == o.kern.args[j].host IN
         /\ h \in Weights \cup {x, y} /\ o.ptrs[j] = newWhere[h]
         /\ h \in Weights /\ o.kern.args[j].role # "in" => newStale[h]
  BY DEF StepOp, Passes
<1> QED
  BY <1>1 DEF StepOp

\* The capture begins with an empty recording and a loss that nothing has
\* passed.
LEMMA CaptureBegins ==
    ASSUME TrainsInPlace, CacheInv, GraphTypes, ModeInv, StepArrays, ContentsInv, WarmInv, BeginCapture
    PROVE  CaptureInv'
<1>1. /\ mode = "upload" /\ pc = "idle" /\ batch \in Host \ Params /\ loss \in Host \ Params /\ batch # loss
      /\ loss \in alive \ dropped /\ dptr[loss] = None /\ kern = NoKernel /\ Pending = {}
  BY IdleFacts, HostAssumption
     DEF BeginCapture, Between, Idle, Ready, ModeInv, StepArrays, WarmInv, Launching
<1>2. /\ tape' = << >> /\ step' = Program(batch, loss, None)
      /\ graph' = [graph EXCEPT !.inPtr = dptr[batch]]
      /\ UNCHANGED << batch, loss, kern, dptr, hostHas >>
  BY DEF BeginCapture, StepArrays, entryVars, dataVars, callVars
<1>3. graph'.inPtr = dptr'[batch']
  BY <1>2 DEF GraphTypes, GraphRecords
<1>4. hostHas[loss]
  <2>1. Agrees(loss)
    BY <1>1 DEF ContentsInv, AgreeBut, Unwritten, Unsettled
  <2> QED
    BY <1>1, <2>1 DEF Agrees
<1>5. LossUntouched'
  <2>1. FirstWritten(Program(batch, loss, None), loss) /\ ~Passes(NoKernel, loss)
    BY <1>1, ProgramFacts, NoKernelFacts
  <2> QED
    BY <1>1, <1>2, <2>1 DEF LossUntouched
<1>6. DOMAIN tape' = {}
  BY <1>2
<1> QED
  BY <1>2, <1>3, <1>4, <1>5, <1>6 DEF CaptureInv
\* A recording one operation longer.
LEMMA RecordedMore ==
    ASSUME NEW S, NEW ops \in Seq(S), NEW o, NEW more, more = Append(ops, o)
    PROVE  /\ DOMAIN more = 1..Len(more) /\ Len(more) = Len(ops) + 1 /\ Len(ops) \in Nat
           /\ DOMAIN ops = 1..Len(ops)
           /\ \A i \in DOMAIN ops : more[i] = ops[i]
           /\ more[Len(ops) + 1] = o
  OBVIOUS

\* A loss once made stays made, a loss not yet passed is made by this one.
LEMMA MadeMore ==
    ASSUME NEW S, NEW ops \in Seq(S), NEW o, NEW y, NEW p, o.scr # p,
           MadeFirst(ops, y, p) \/ /\ \A i \in DOMAIN ops : ~Passes(ops[i].kern, y)
                                   /\ Passes(o.kern, y) /\ PassesAs(o.kern, y, "out")
    PROVE  MadeFirst(Append(ops, o), y, p)
<1> DEFINE more == Append(ops, o)
<1>1. /\ DOMAIN more = 1..Len(more) /\ Len(more) = Len(ops) + 1 /\ Len(ops) \in Nat
      /\ DOMAIN ops = 1..Len(ops)
      /\ \A i \in DOMAIN ops : more[i] = ops[i]
      /\ more[Len(ops) + 1] = o
  BY RecordedMore
<1> HIDE DEF more
<1> SUFFICES MadeFirst(more, y, p)
  BY DEF more
<1>2. CASE MadeFirst(ops, y, p)
  <2>1. PICK n \in DOMAIN ops : /\ \A i \in 1..(n - 1) : ~Passes(ops[i].kern, y)
                                /\ Passes(ops[n].kern, y) /\ PassesAs(ops[n].kern, y, "out")
                                /\ \A i \in n..Len(ops) : ops[i].scr # p
    BY <1>2 DEF MadeFirst
  <2>2. n \in DOMAIN more /\ more[n] = ops[n] /\ \A i \in 1..(n - 1) : more[i] = ops[i]
    BY <1>1, <2>1
  <2>3. \A i \in n..Len(more) : more[i].scr # p
    BY <1>1, <2>1
  <2> QED
    BY <1>1, <2>1, <2>2, <2>3 DEF MadeFirst
<1>3. CASE /\ \A i \in DOMAIN ops : ~Passes(ops[i].kern, y)
           /\ Passes(o.kern, y) /\ PassesAs(o.kern, y, "out")
  <2>1. Len(ops) + 1 \in DOMAIN more
    BY <1>1
  <2>2. \A i \in 1..(Len(ops) + 1 - 1) : ~Passes(more[i].kern, y)
    BY <1>1, <1>3
  <2>3. \A i \in (Len(ops) + 1)..Len(more) : more[i].scr # p
    BY <1>1
  <2> QED
    BY <1>1, <1>3, <2>1, <2>2, <2>3 DEF MadeFirst
<1> QED
  BY <1>2, <1>3

\* The launches a step has still to make, one fewer.
LEMMA FirstStep ==
    ASSUME NEW S, NEW ks \in Seq(S), ks # << >>, NEW y, FirstWritten(ks, y)
    PROVE  \/ Passes(Head(ks), y) /\ PassesAs(Head(ks), y, "out")
           \/ ~Passes(Head(ks), y) /\ FirstWritten(Tail(ks), y)
<1>1. PICK n \in DOMAIN ks : /\ \A i \in 1..(n - 1) : ~Passes(ks[i], y)
                             /\ Passes(ks[n], y) /\ PassesAs(ks[n], y, "out")
  BY DEF FirstWritten
<1>2. /\ Head(ks) = ks[1] /\ n \in 1..Len(ks) /\ Len(ks) \in Nat
      /\ DOMAIN Tail(ks) = 1..(Len(ks) - 1) /\ \A i \in 1..(Len(ks) - 1) : Tail(ks)[i] = ks[i + 1]
  BY <1>1
<1>3. CASE n = 1
  BY <1>1, <1>2, <1>3
<1>4. CASE n # 1
  <2>1. 1 \in 1..(n - 1) /\ n - 1 \in 1..(Len(ks) - 1)
    BY <1>2, <1>4
  <2>2. \A i \in 1..((n - 1) - 1) : i + 1 \in 1..(n - 1) /\ i \in 1..(Len(ks) - 1)
    BY <1>2, <1>4
  <2>3. Tail(ks)[n - 1] = ks[n] /\ \A i \in 1..((n - 1) - 1) : ~Passes(Tail(ks)[i], y)
    BY <1>1, <1>2, <2>1, <2>2
  <2> QED
    BY <1>1, <1>2, <2>1, <2>3 DEF FirstWritten
<1> QED
  BY <1>3, <1>4

\* While the capture goes on.
LEMMA CaptureGoesOn ==
    ASSUME ~CallbacksTouch, CacheInv, CacheInv', GraphTypes, ModeInv, CapturedInv, StepArrays, StepArrays',
           GatherInv, WarmInv, CaptureInv, [GNext]_gvars, mode = "capture", mode' = "capture"
    PROVE  CaptureInv'
<1>1. /\ batch \in Host /\ loss \in Host /\ batch' = batch /\ loss' = loss
      /\ \A h \in Weights \cup {batch} :
            dptr[h] # None /\ dptr'[h] = dptr[h] /\ (hostStale[h] => hostStale'[h])
      /\ \A h \in Host : dptr'[h] = dptr[h] \/ dptr'[h] = None \/ h = loss
      /\ LossRecorded => dptr'[loss] = dptr[loss] /\ deviceFresh'[loss] /\ hostStale'[loss] /\ loss \in Pinned'
      /\ ~CreateEntry => dptr'[loss] = dptr[loss]
      /\ hostHas'[loss]
  BY CapturedKeeps
<1>2. /\ \A i \in DOMAIN tape : StepOp(tape[i], batch, loss, dptr, dptr, hostStale)
      /\ graph.inPtr = dptr[batch]
      /\ LossUntouched \/ LossComing \/ LossRecorded
      /\ tape \in Seq(Op) /\ step \in Seq(Launches)
  BY DEF CaptureInv, GraphTypes, GTypeOK, Launches, Uploads
<1>3. graph' = graph
  BY CapturingSteps
<1>4. ASSUME NEW i \in DOMAIN tape PROVE StepOp(tape[i], batch, loss, dptr', dptr', hostStale')
  <2>1. Passes(tape[i].kern, loss) => dptr'[loss] = dptr[loss]
    BY <1>1, <1>2 DEF LossUntouched, LossComing
  <2> QED
    BY <1>1, <1>2, <2>1, OpKept
<1>5. ASSUME tape' = tape, (LossUntouched \/ LossComing) => (LossUntouched' \/ LossComing') PROVE CaptureInv'
  <2>1. LossRecorded => LossRecorded'
    BY <1>1, <1>5 DEF LossRecorded
  <2>2. \A i \in DOMAIN tape' : StepOp(tape'[i], batch', loss', dptr', dptr', hostStale')
    BY <1>1, <1>4, <1>5
  <2> QED
    BY <1>1, <1>2, <1>3, <1>5, <2>1, <2>2 DEF CaptureInv
<1>6. CASE StepLaunch
  <2>1. /\ tape' = tape /\ dptr' = dptr /\ step # << >> /\ kern' = Head(step) /\ step' = Tail(step)
        /\ pc = "idle" /\ pc' # "release"
    BY <1>6 DEF StepLaunch, Launch, Ready, captureVars, entryVars
  <2>2. ~Passes(kern, loss)
    BY <2>1, IdleFacts, NoKernelFacts DEF Launching
  <2>3. ASSUME LossUntouched PROVE LossUntouched' \/ LossComing'
    <3>1. FirstWritten(step, loss) /\ dptr[loss] = None /\ \A i \in DOMAIN tape : ~Passes(tape[i].kern, loss)
      BY <2>3 DEF LossUntouched
    <3>2. \/ Passes(kern', loss) /\ PassesAs(kern', loss, "out")
          \/ ~Passes(kern', loss) /\ FirstWritten(step', loss)
      BY <1>2, <2>1, <3>1, FirstStep
    <3> QED
      BY <1>1, <2>1, <3>1, <3>2 DEF LossUntouched, LossComing
  <2> QED
    BY <1>5, <2>1, <2>2, <2>3 DEF LossComing
<1>7. CASE (ArgResident \/ CreateEntry) /\ UNCHANGED graphVars
  <2>1. /\ tape' = tape /\ Passes(kern, Arg.host)
        /\ \E p \in Ptr : UseResult(p)
    BY <1>7, CapturedArgument
  <2>2. /\ kern' = kern /\ step' = step /\ pc' \in {"arg", "launch"}
        /\ Arg.host # loss => dptr'[loss] = dptr[loss]
        /\ DOMAIN got' = 1..(Len(got) + 1) /\ DOMAIN got = 1..Len(got) /\ Len(got) \in Nat
        /\ kern.args[Len(got) + 1] = Arg
    BY <1>1, <1>7, <2>1 DEF UseResult, graphVars
  <2>3. LossUntouched => LossUntouched'
    BY <1>1, <2>1, <2>2 DEF LossUntouched
  <2>4. ASSUME LossComing PROVE LossComing'
    <3>1. dptr'[loss] # None => \E i \in DOMAIN got' : kern'.args[i].host = loss
      <4>1. CASE Arg.host = loss
        BY <2>2, <4>1
      <4>2. CASE Arg.host # loss
        BY <2>2, <2>4, <4>2 DEF LossComing
      <4> QED
        BY <4>1, <4>2
    <3> QED
      BY <1>1, <2>1, <2>2, <2>4, <3>1 DEF LossComing
  <2> QED
    BY <1>5, <2>1, <2>3, <2>4
<1>8. CASE RecordKernel /\ UNCHANGED graphVars
  <2>1. PICK o : o = [op |-> "launch", kern |-> kern, ptrs |-> got, scr |-> scratchPtr]
    OBVIOUS
  <2>2. /\ tape' = Append(tape, o) /\ o.kern = kern /\ o.ptrs = got /\ o.scr = scratchPtr
        /\ UNCHANGED << dptr, deviceFresh, hostStale >>
        /\ StepOp(o, batch, loss, dptr, dptr, hostStale)
        /\ \A h \in Host : dptr[h] # None => dptr[h] # scratchPtr
        /\ \A j \in DOMAIN kern.args : LET h == kern.args[j].host IN
              /\ j \in DOMAIN got /\ dptr[h] = got[j] /\ got[j] # None /\ deviceFresh[h]
              /\ kern.args[j].role # "in" => hostStale[h]
    BY <1>8, <2>1, NewStepOp
  <2>3. /\ DOMAIN tape' = 1..Len(tape') /\ Len(tape') = Len(tape) + 1 /\ Len(tape) \in Nat
        /\ DOMAIN tape = 1..Len(tape)
        /\ \A i \in DOMAIN tape : tape'[i] = tape[i]
        /\ tape'[Len(tape) + 1] = o
    BY <1>2, <2>2, RecordedMore
  <2>4. /\ step' = step /\ kern' \in {kern, NoKernel}
        /\ capturePinned' = capturePinned /\ mode = "capture"
    BY <1>8 DEF RecordKernel, LaunchEnds, graphVars
  <2>5. \A i \in DOMAIN tape' : StepOp(tape'[i], batch', loss', dptr', dptr', hostStale')
    <3> SUFFICES ASSUME NEW i \in DOMAIN tape' PROVE StepOp(tape'[i], batch, loss, dptr', dptr', hostStale')
      BY <1>1
    <3>1. i \in DOMAIN tape \/ i = Len(tape) + 1
      BY <2>3
    <3> QED
      BY <1>4, <2>2, <2>3, <3>1
  <2>6. CASE LossUntouched
    <3>1. \A i \in DOMAIN tape' : ~Passes(tape'[i].kern, loss)
      <4> SUFFICES ASSUME NEW i \in DOMAIN tape' PROVE ~Passes(tape'[i].kern, loss)
        OBVIOUS
      <4>1. i \in DOMAIN tape \/ i = Len(tape) + 1
        BY <2>3
      <4> QED
        BY <2>2, <2>3, <2>6, <4>1 DEF LossUntouched
    <3>2. LossUntouched'
      BY <1>1, <2>2, <2>4, <2>6, <3>1, NoKernelFacts DEF LossUntouched
    <3> QED
      BY <1>1, <1>2, <1>3, <2>5, <3>2 DEF CaptureInv
  <2>7. CASE LossComing
    <3>1. PICK j \in DOMAIN kern.args : kern.args[j].host = loss /\ kern.args[j].role = "out"
      BY <2>7 DEF LossComing, Passes, PassesAs
    <3>2. dptr[loss] # None /\ deviceFresh[loss] /\ hostStale[loss] /\ j \in DOMAIN got
      BY <2>2, <3>1
    <3>3. loss \in Pinned'
      BY <2>4, <3>1, <3>2 DEF CapturedInv, Pinned
    <3>4. MadeFirst(tape', loss, dptr[loss])
      BY <1>1, <1>2, <2>2, <2>7, <3>2, MadeMore DEF LossComing
    <3>5. LossRecorded'
      BY <1>1, <2>2, <3>2, <3>3, <3>4 DEF LossRecorded
    <3> QED
      BY <1>1, <1>2, <1>3, <2>5, <3>5 DEF CaptureInv
  <2>8. CASE LossRecorded
    <3>1. dptr[loss] # None /\ MadeFirst(tape, loss, dptr[loss])
      BY <2>8 DEF LossRecorded
    <3>2. MadeFirst(tape', loss, dptr[loss])
      BY <1>1, <1>2, <2>2, <3>1, MadeMore
    <3>3. LossRecorded'
      BY <1>1, <2>2, <2>8, <3>1, <3>2 DEF LossRecorded
    <3> QED
      BY <1>1, <1>2, <1>3, <2>5, <3>3 DEF CaptureInv
  <2> QED
    BY <1>2, <2>6, <2>7, <2>8
<1>9. CASE /\ UNCHANGED << tape, step, deviceFresh, hostStale, hostHas, spoilt >>
           /\ UNCHANGED << kern, got >> \/ (pc = "release" /\ kern' = NoKernel /\ got' = << >>)
           /\ pc' = "release" => pc = "release"
           /\ UNCHANGED << dptr, devHas, alive, dropped >>
  <2>1. LossUntouched => LossUntouched'
    BY <1>1, <1>9, NoKernelFacts DEF LossUntouched
  <2>2. LossComing => LossComing'
    BY <1>1, <1>9 DEF LossComing
  <2> QED
    BY <1>5, <1>9, <2>1, <2>2
<1>10. CASE \E h \in Host : GCollect(h) \/ (Finalize(h) /\ UNCHANGED graphVars) \/ GNewArray(h)
  <2>1. /\ pc = "idle" /\ UNCHANGED << tape, step, kern >>
    BY <1>10 DEF GCollect, GNewArray, Collect, NewArray, Finalize, Ready, graphVars, captureVars, callVars
  <2>2. ~CreateEntry /\ ~Passes(kern, loss)
    BY <2>1, IdleFacts, NoKernelFacts DEF Launching, CreateEntry, Ready
  <2>3. LossUntouched => LossUntouched'
    BY <1>1, <2>1, <2>2 DEF LossUntouched
  <2> QED
    BY <1>5, <2>1, <2>2, <2>3 DEF LossComing
<1> QED
  BY <1>6, <1>7, <1>8, <1>9, <1>10, CapturingSteps

\* So the capture records the step.
LEMMA CaptureSteps ==
    ASSUME TrainsInPlace, ~CallbacksTouch, CacheInv, CacheInv', GraphTypes, ModeInv, CapturedInv,
           StepArrays, StepArrays', ContentsInv, WarmInv, CaptureInv, [GNext]_gvars
    PROVE  CaptureInv'
<1>1. CASE mode' # "capture"
  BY <1>1 DEF CaptureInv
<1>2. CASE mode = "capture" /\ mode' = "capture"
  BY <1>2, CaptureGoesOn DEF ContentsInv
<1>3. CASE mode # "capture" /\ mode' = "capture"
  <2>1. BeginCapture
    BY <1>3 DEF GNext, gvars, graphVars, EagerStep, CaptureUpload, CaptureFails, ReplayStep, StepLaunch, EagerStepEnds,
       EndCapture, RunRecorded, ReplayEnds, FitEnds, TeardownEnds, CacheStep, GHostAccess, GCollect, GNewArray, GFinalize
  <2> QED
    BY <2>1, CaptureBegins
<1> QED
  BY <1>1, <1>2, <1>3
-----------------------------------------------------------------------------
(* The graph.                                                               *)

\* When a capture ends, its recording made the loss, and its arrays are where
\* the graph will look for them.
LEMMA GraphBegins ==
    ASSUME CacheInv, GraphTypes, ModeInv, StepArrays, WarmInv, CaptureInv, EndCapture
    PROVE  GraphInv'
<1>1. /\ mode = "capture" /\ pc = "idle" /\ step = << >> /\ kern = NoKernel
      /\ batch \in Host \ Params /\ loss \in Host \ Params /\ batch # loss
      /\ batch \in alive /\ loss \in alive /\ dptr \in [Host -> Ptr \cup {None}]
  BY IdleFacts, HostAssumption
     DEF EndCapture, Between, Idle, Ready, ModeInv, StepArrays, Launching, CacheInv, CacheTypes
<1>2. LossRecorded /\ graph.inPtr = dptr[batch] /\ dptr[batch] # None
      /\ \A i \in DOMAIN tape : StepOp(tape[i], batch, loss, dptr, dptr, hostStale)
  <2>1. ~FirstWritten(step, loss)
    BY <1>1 DEF FirstWritten
  <2>2. ~Passes(kern, loss)
    BY <1>1, NoKernelFacts
  <2> QED
    BY <1>1, <2>1, <2>2 DEF CaptureInv, LossUntouched, LossComing, WarmInv, Warm
<1>3. /\ dptr[batch] \in Ptr /\ dptr[loss] \in Ptr /\ dptr[batch] # dptr[loss]
      /\ MadeFirst(tape, loss, dptr[loss])
  BY <1>1, <1>2, OwnBuffers DEF LossRecorded
<1>4. /\ graph'.tape = tape /\ graph'.input = batch /\ graph'.output = loss
      /\ graph'.lossPtr = dptr[loss] /\ graph'.inPtr = dptr[batch]
      /\ UNCHANGED << batch, loss, dptr, hostStale, alive >> /\ mode' = "replay"
  <2>1. graph' = [graph EXCEPT !.tape = tape, !.input = batch, !.output = loss, !.lossPtr = dptr[loss]]
        /\ UNCHANGED << batch, loss, dptr, hostStale, alive >> /\ mode' = "replay"
    BY DEF EndCapture, entryVars
  <2> QED
    BY <1>2, <2>1 DEF GraphTypes, GraphRecords
<1>5. Captured' = dptr
  BY <1>1, <1>4 DEF Captured
<1>6. \A h \in Host : /\ dptr[h] = dptr[batch] => h = batch
                      /\ dptr[h] = dptr[loss] => h = loss
  BY <1>1, <1>2, <1>3, OwnBuffers, HostAssumption
<1>7. \A i \in DOMAIN graph'.tape : StepOp(graph'.tape[i], graph'.input, graph'.output, Captured', dptr', hostStale')
  BY <1>2, <1>4, <1>5
<1> QED
  BY <1>1, <1>3, <1>4, <1>6, <1>7 DEF GraphInv

\* A step between two replays, or of one.
LEMMA ReplayingSteps ==
    ASSUME CacheInv, GraphTypes, ModeInv, ReplayInv, [GNext]_gvars, mode = "replay", mode' = "replay"
    PROVE  /\ graph' = graph
           /\ \A h \in alive \cap dropped : h \in dropped'
           /\ \A h \in alive' \ alive : h \notin GraphHosts /\ dptr[h] = None
           /\ batch = None \/ batch' = batch \/ batch \in dropped'
           /\ loss = None \/ loss' = loss \/ loss \in dropped'
           /\ \A h \in Host : dptr'[h] = dptr[h] \/ dptr'[h] = None
           /\ \/ \E x \in Host : ReplayStep(x)
              \/ RunRecorded \/ ReplayEnds
              \/ (FlushStep \/ WalkEnds) /\ UNCHANGED graphVars
              \/ \E h \in Host, write \in BOOLEAN : GHostAccess(h, write) /\ HostAccess(h, write)
              \/ \E h \in Host : GCollect(h) \/ (Finalize(h) /\ UNCHANGED graphVars) \/ GNewArray(h)
              \/ /\ UNCHANGED << graphVars, dptr, deviceFresh, hostStale, captureVars, dataVars, callVars, ghosts >>
                 /\ UNCHANGED << pinned, alive >>
<1>1. pc \notin Launching /\ pc # "releaseAll" /\ step = << >>
  BY DEF ModeInv
<1>2. CASE \E x \in Host : ReplayStep(x)
  <2>1. /\ pc = "idle" /\ UNCHANGED << graph, dropped, alive, loss, dptr >>
        /\ batch = None
    BY <1>2 DEF ReplayStep, Between, Idle, Ready, entryVars, ReplayInv
  <2> QED
    BY <1>2, <2>1
<1>3. CASE RunRecorded
  <2>1. UNCHANGED << graph, dropped, alive, loss, batch, dptr >>
    BY <1>3 DEF RunRecorded, entryVars
  <2> QED
    BY <1>3, <2>1
<1>4. CASE ReplayEnds
  <2>1. /\ UNCHANGED << graph, alive, dptr >> /\ dropped' = dropped \cup ({batch, loss, grad} \ {None})
    BY <1>4 DEF ReplayEnds, DropStep, entryVars
  <2> QED
    BY <1>4, <2>1
<1>5. ASSUME UNCHANGED << graph, loss, batch >>, [CacheNext]_cacheVars, ~CreateEntry,
             \/ dropped' = dropped /\ alive' \subseteq alive
             \/ \E h \in Host : GNewArray(h)
      PROVE  /\ graph' = graph
             /\ \A h \in alive \cap dropped : h \in dropped'
             /\ \A h \in alive' \ alive : h \notin GraphHosts /\ dptr[h] = None
             /\ batch = None \/ batch' = batch \/ batch \in dropped'
             /\ loss = None \/ loss' = loss \/ loss \in dropped'
             /\ \A h \in Host : dptr'[h] = dptr[h] \/ dptr'[h] = None
  <2>1. \A h \in Host : dptr'[h] = dptr[h] \/ dptr'[h] = None
    BY <1>5, EntrySteps
  <2>2. /\ \A h \in alive \cap dropped : h \in dropped'
        /\ \A h \in alive' \ alive : h \notin GraphHosts /\ dptr[h] = None
    BY <1>5 DEF GNewArray, NewArray, Resident
  <2> QED
    BY <1>5, <2>1, <2>2
<1>6. CASE \/ \E h \in Host, write \in BOOLEAN : GHostAccess(h, write)
           \/ \E h \in Host : GCollect(h) \/ GNewArray(h)
  <2>1. /\ UNCHANGED << graph, loss, batch >> /\ [CacheNext]_cacheVars /\ ~CreateEntry
        /\ \/ dropped' = dropped /\ alive' \subseteq alive
           \/ \E h \in Host : GNewArray(h)
    BY <1>6 DEF GHostAccess, HostAccess, GCollect, Collect, GNewArray, Finalize, NewArray, graphVars,
       Ready, CacheNext, CallStep, CreateEntry
  <2>2. \/ \E h \in Host, write \in BOOLEAN : GHostAccess(h, write) /\ HostAccess(h, write)
        \/ \E h \in Host : GCollect(h) \/ GNewArray(h)
    BY <1>6 DEF GHostAccess
  <2> QED
    BY <1>5, <2>1, <2>2
<1>7. CASE GFinalize
  <2>1. /\ UNCHANGED graphVars /\ UNCHANGED << graph, loss, batch, dropped, alive >>
    BY <1>7 DEF GFinalize, Finalize, LateFinalize, graphVars
  <2>2. [CacheNext]_cacheVars /\ ~CreateEntry
    BY <1>1, <1>7, FinalizeKinds DEF CacheNext, CallStep, CreateEntry, Ready, Launching
  <2>3. \/ \E h \in Host : Finalize(h) /\ UNCHANGED graphVars
        \/ /\ UNCHANGED << graphVars, dptr, deviceFresh, hostStale, captureVars, dataVars, callVars, ghosts >>
           /\ UNCHANGED << pinned, alive >>
    BY <1>7, <2>1 DEF GFinalize, LateFinalize
  <2> QED
    BY <1>5, <2>1, <2>2, <2>3
<1>8. CASE CacheStep
  <2>1. /\ UNCHANGED graphVars /\ UNCHANGED << graph, loss, batch, dropped, alive >>
        /\ [CacheNext]_cacheVars /\ ~CreateEntry
    BY <1>1, <1>8, CallFrame DEF CacheStep, CacheNext, CallStep, PoolStep, CreateEntry, Ready, Launching
  <2>2. \/ FlushStep \/ WalkEnds
        \/ TrimStep /\ UNCHANGED << entryVars, pinned, captureVars, alive, dataVars, callVars, ghosts >>
    BY <1>1, <1>8 DEF CacheStep, AcquireScratch, ArgResident, ArgMissing, CreateEntry, EvictStep, EvictPassEnds,
       RunKernel, RecordKernel, ReleaseScratch, ReleaseAllStep, Ready, Launching
  <2> QED
    BY <1>5, <2>1, <2>2 DEF entryVars
<1>9. CASE UNCHANGED gvars
  <2>1. /\ UNCHANGED << graphVars, dptr, deviceFresh, hostStale, captureVars, dataVars, callVars, ghosts >>
        /\ UNCHANGED << pinned, alive >> /\ UNCHANGED << graph, loss, batch, dropped >> /\ [CacheNext]_cacheVars
    BY <1>9, SameCache DEF gvars, vars, graphVars, entryVars
  <2>2. ~CreateEntry
    BY <1>1 DEF CreateEntry, Ready, Launching
  <2> QED
    BY <1>5, <2>1, <2>2
<1>10. CASE \/ (\E x, y \in Host : EagerStep(x, y) \/ CaptureUpload(x, y))
           \/ (\E y \in Host, place \in CapturePlaces : CaptureFails(y, place))
           \/ StepLaunch \/ EagerStepEnds \/ BeginCapture \/ EndCapture \/ FitEnds \/ TeardownEnds
           \/ (mode = "off" /\ StartWalk("releaseAll") /\ UNCHANGED graphVars)
  BY <1>1, <1>10 DEF EagerStep, WarmingUp, CaptureUpload, CaptureFails, StepLaunch, EagerStepEnds, BeginCapture,
     EndCapture, FitEnds, TeardownEnds
<1> QED
  BY <1>2, <1>3, <1>4, <1>6, <1>7, <1>8, <1>9, <1>10 DEF GNext

\* The graph keeps its buffers to itself, and its weights where they were.
LEMMA GraphGoesOn ==
    ASSUME ~CallbacksTouch, CacheInv, CacheInv', GraphTypes, ModeInv, StepArrays, StepArrays', WarmInv, GraphInv, ReplayInv,
           [GNext]_gvars, mode = "replay", mode' = "replay"
    PROVE  GraphInv'
<1>1. /\ graph' = graph
      /\ \A h \in alive \cap dropped : h \in dropped'
      /\ \A h \in alive' \ alive : h \notin GraphHosts /\ dptr[h] = None
      /\ batch = None \/ batch' = batch \/ batch \in dropped'
      /\ loss = None \/ loss' = loss \/ loss \in dropped'
      /\ \A h \in Host : dptr'[h] = dptr[h] \/ dptr'[h] = None
  BY ReplayingSteps
<1>2. /\ graph.input \in Host \ Params /\ graph.output \in Host \ Params
      /\ graph.input # graph.output
      /\ graph.inPtr \in Ptr /\ graph.lossPtr \in Ptr /\ graph.inPtr # graph.lossPtr
      /\ \A h \in Host : /\ dptr[h] = graph.inPtr => h = graph.input
                         /\ dptr[h] = graph.lossPtr => h = graph.output
      /\ graph.input \in alive /\ dptr[graph.input] = graph.inPtr =>
            graph.input \in dropped \cup {batch}
      /\ graph.output \in alive => graph.output \in dropped \cup {loss}
      /\ \A i \in DOMAIN graph.tape : StepOp(graph.tape[i], graph.input, graph.output, Captured, dptr, hostStale)
      /\ MadeFirst(graph.tape, graph.output, graph.lossPtr)
  BY DEF GraphInv
<1>3. /\ Weights \subseteq Params /\ Params \subseteq Host /\ None \notin Host /\ None \notin Ptr
      /\ CacheTypes /\ CacheTypes'
      /\ \A h \in Weights : dptr'[h] = dptr[h] /\ (hostStale[h] => hostStale'[h])
  <2>1. Weights \subseteq Params /\ Params \subseteq Host /\ None \notin Host /\ None \notin Ptr
    BY WeightFacts, HostAssumption
  <2>2. \A h \in Weights : Warm(h)
    BY DEF WarmInv
  <2>3. ASSUME NEW h \in Weights PROVE dptr'[h] = dptr[h] /\ (hostStale[h] => hostStale'[h])
    BY <2>1, <2>2, StaysWarm
  <2> QED
    BY <2>1, <2>3 DEF CacheInv
<1>4. graph.output \in GraphHosts
  <2>1. PICK n \in DOMAIN graph.tape : Passes(graph.tape[n].kern, graph.output)
    BY <1>2 DEF MadeFirst
  <2>2. graph.tape[n].op = "launch"
    BY <1>2 DEF StepOp
  <2> QED
    BY <2>1, <2>2 DEF GraphHosts, Ops, Passes
<1>5. \A h \in Host : /\ dptr'[h] = graph.inPtr => h = graph.input
                      /\ dptr'[h] = graph.lossPtr => h = graph.output
  BY <1>1, <1>2, <1>3
<1>6. graph.input \in alive' /\ dptr'[graph.input] = graph.inPtr =>
         graph.input \in dropped' \cup {batch'}
  BY <1>1, <1>2, <1>3
<1>7. graph.output \in alive' => graph.output \in dropped' \cup {loss'}
  BY <1>1, <1>2, <1>3, <1>4
<1>8. ASSUME NEW i \in DOMAIN graph.tape
      PROVE  StepOp(graph.tape[i], graph.input, graph.output, Captured', dptr', hostStale')
  <2>1. Captured' = [dptr' EXCEPT ![graph.input] = graph.inPtr, ![graph.output] = graph.lossPtr]
    BY <1>1 DEF Captured
  <2>2. \A h \in Weights \cup {graph.input} : Captured'[h] = Captured[h]
    BY <1>2, <1>3, <2>1 DEF Captured, CacheTypes
  <2>3. Captured'[graph.output] = Captured[graph.output]
    BY <1>2, <1>3, <2>1 DEF Captured, CacheTypes
  <2>4. \A h \in Host : dptr'[h] = dptr[h] \/ dptr'[h] = None \/ h = graph.output
    BY <1>1
  <2> QED
    BY <1>2, <1>3, <2>2, <2>3, <2>4, OpKept
<1> QED
  BY <1>1, <1>2, <1>5, <1>6, <1>7, <1>8 DEF GraphInv

\* So the graph stays one of the step that was captured.
LEMMA GraphSteps ==
    ASSUME ~CallbacksTouch, CacheInv, CacheInv', GraphTypes, ModeInv, StepArrays, StepArrays', WarmInv, CaptureInv,
           GraphInv, ReplayInv, [GNext]_gvars
    PROVE  GraphInv'
<1>1. CASE mode' # "replay"
  BY <1>1 DEF GraphInv
<1>2. CASE mode = "replay" /\ mode' = "replay"
  BY <1>2, GraphGoesOn
<1>3. CASE mode # "replay" /\ mode' = "replay"
  <2>1. EndCapture
    BY <1>3 DEF GNext, gvars, graphVars, EagerStep, CaptureUpload, CaptureFails, ReplayStep, StepLaunch, EagerStepEnds,
       BeginCapture, RunRecorded, ReplayEnds, FitEnds, TeardownEnds, CacheStep, GHostAccess, GCollect, GNewArray, GFinalize
  <2> QED
    BY <2>1, GraphBegins
<1> QED
  BY <1>1, <1>2, <1>3
-----------------------------------------------------------------------------
(* The replay.                                                              *)

\* A kernel that finds what it reads, in buffers of one array each.
LEMMA KernelRuns ==
    ASSUME CacheTypes, NEW k, NEW ptrs, NEW scr,
           \A i \in DOMAIN k.args : k.args[i].host \in Host /\ ptrs[i] \in Ptr,
           \A i, j \in DOMAIN k.args : k.args[i].host # k.args[j].host => ptrs[i] # ptrs[j],
           \A i \in Reads(k) : devHas[ptrs[i]] = k.args[i].host,
           KernelEffect(k, ptrs, scr)
    PROVE  /\ SeesArguments(k, ptrs)
           /\ \A i \in Writes(k) : devHas'[ptrs[i]] = k.args[i].host
           /\ \A p \in Ptr : /\ \A i \in Writes(k) : ptrs[i] # p /\ k.args[i].host # devHas[p]
                             /\ p # scr
                             => devHas'[p] = devHas[p]
           /\ \A h \in Host : (\A i \in Writes(k) : k.args[i].host # h) => hostHas'[h] = hostHas[h]
<1> DEFINE written == { k.args[i].host : i \in Writes(k) }
           buffers == { ptrs[i] : i \in Writes(k) }
<1>1. \A i \in Writes(k) : i \in DOMAIN k.args
  BY DEF Writes
<1>2. SeesArguments(k, ptrs)
  BY <1>1 DEF SeesArguments
<1>3. /\ hostHas' = [h \in Host |-> hostHas[h] /\ h \notin written]
      /\ devHas' = [p \in Ptr |->
             IF p \in buffers THEN k.args[CHOOSE i \in Writes(k) : ptrs[i] = p].host
             ELSE IF p = scr \/ devHas[p] \in written THEN None
             ELSE devHas[p]]
  BY <1>2 DEF KernelEffect
<1>4. ASSUME NEW i \in Writes(k) PROVE devHas'[ptrs[i]] = k.args[i].host
  <2> DEFINE j == CHOOSE j \in Writes(k) : ptrs[j] = ptrs[i]
  <2>1. j \in Writes(k) /\ ptrs[j] = ptrs[i]
    OBVIOUS
  <2>2. ptrs[i] \in Ptr /\ ptrs[i] \in buffers
    BY <1>1
  <2>3. devHas'[ptrs[i]] = k.args[j].host
    BY <1>3, <2>2
  <2> HIDE DEF j
  <2> QED
    BY <1>1, <2>1, <2>3
<1>5. ASSUME NEW p \in Ptr, \A i \in Writes(k) : ptrs[i] # p /\ k.args[i].host # devHas[p], p # scr
      PROVE  devHas'[p] = devHas[p]
  BY <1>3, <1>5
<1>6. ASSUME NEW h \in Host, \A i \in Writes(k) : k.args[i].host # h PROVE hostHas'[h] = hostHas[h]
  <2>1. h \notin written
    BY <1>6
  <2> QED
    BY <1>3, <2>1 DEF CacheTypes
<1> QED
  BY <1>2, <1>4, <1>5, <1>6

\* What is left of a recording that has still to make the loss.
LEMMA MadeLess ==
    ASSUME NEW S, NEW ops \in Seq(S), ops # << >>, NEW y, NEW p, MadeFirst(ops, y, p)
    PROVE  \/ /\ Passes(Head(ops).kern, y) /\ PassesAs(Head(ops).kern, y, "out")
              /\ \A i \in DOMAIN Tail(ops) : Tail(ops)[i].scr # p
              /\ Head(ops).scr # p
           \/ ~Passes(Head(ops).kern, y) /\ MadeFirst(Tail(ops), y, p)
<1>1. PICK n \in DOMAIN ops : /\ \A i \in 1..(n - 1) : ~Passes(ops[i].kern, y)
                              /\ Passes(ops[n].kern, y) /\ PassesAs(ops[n].kern, y, "out")
                              /\ \A i \in n..Len(ops) : ops[i].scr # p
  BY DEF MadeFirst
<1> DEFINE tl == Tail(ops)
<1>2. /\ Head(ops) = ops[1] /\ n \in 1..Len(ops) /\ Len(ops) \in Nat
      /\ DOMAIN tl = 1..(Len(ops) - 1) /\ Len(tl) = Len(ops) - 1
      /\ \A i \in 1..(Len(ops) - 1) : tl[i] = ops[i + 1]
  BY <1>1
<1> HIDE DEF tl
<1>3. CASE n = 1
  <2>1. \A i \in DOMAIN tl : tl[i].scr # p
    BY <1>1, <1>2, <1>3
  <2> QED
    BY <1>1, <1>2, <1>3, <2>1 DEF tl
<1>4. CASE n # 1
  <2>1. 1 \in 1..(n - 1) /\ n - 1 \in DOMAIN tl
    BY <1>2, <1>4
  <2>2. \A i \in 1..((n - 1) - 1) : i + 1 \in 1..(n - 1) /\ i \in 1..(Len(ops) - 1)
    BY <1>2, <1>4
  <2>3. tl[n - 1] = ops[n] /\ \A i \in 1..((n - 1) - 1) : ~Passes(tl[i].kern, y)
    BY <1>1, <1>2, <2>1, <2>2
  <2>4. \A i \in (n - 1)..Len(tl) : tl[i].scr # p
    BY <1>1, <1>2, <1>4
  <2>5. MadeFirst(tl, y, p)
    BY <1>1, <2>1, <2>3, <2>4 DEF MadeFirst
  <2> QED
    BY <1>1, <1>2, <2>1, <2>5 DEF tl
<1> QED
  BY <1>3, <1>4

\* A replayed launch finds the batch in the captured buffer, the weights in
\* theirs and the loss where an earlier launch of the replay made it, and
\* leaves every settled array as its marks say.
LEMMA RecordedRuns ==
    ASSUME CacheInv, GraphTypes, ModeInv, StepArrays, ContentsInv, WarmInv, GraphInv, ReplayInv, RunRecorded
    PROVE  /\ spoilt' = spoilt
           /\ devHas'[graph.inPtr] = batch
           /\ MadeFirst(work', graph.output, graph.lossPtr) \/ LossMade'
           /\ \A i \in DOMAIN work' : \E l \in DOMAIN graph.tape : work'[i] = graph.tape[l]
           /\ \A h \in alive \ Unsettled : Agrees(h)'
<1> DEFINE o == Head(work)
           k == OnBatch(o.kern)
<1>1. /\ mode = "replay" /\ pc = "replay" /\ batch \in Host /\ work # << >> /\ work \in Seq(Op)
      /\ work' = Tail(work) /\ UNCHANGED << dptr, deviceFresh, hostStale, alive, graph >>
      /\ CacheTypes /\ MarksInv /\ Pending = {} /\ None \notin Host /\ None \notin Ptr
      /\ Weights \subseteq Params /\ Params \subseteq Host
  BY WeightFacts, HostAssumption, IdleFacts
     DEF RunRecorded, ModeInv, GraphTypes, entryVars, CacheInv, ContentsInv, GatherInv, Launching
<1>2. /\ o = work[1] /\ 1 \in DOMAIN work /\ o \in Op
      /\ \A i \in DOMAIN work' : work'[i] = work[i + 1] /\ i + 1 \in DOMAIN work
  BY <1>1
<1>3. /\ graph.input \in Host \ Params /\ graph.output \in Host \ Params /\ graph.input # graph.output
      /\ graph.inPtr \in Ptr /\ graph.lossPtr \in Ptr /\ graph.inPtr # graph.lossPtr
      /\ \A h \in Host : /\ dptr[h] = graph.inPtr => h = graph.input
                         /\ dptr[h] = graph.lossPtr => h = graph.output
      /\ graph.output \in alive => graph.output \in dropped \cup {loss}
  BY <1>1 DEF GraphInv
<1>4. /\ batch # graph.output /\ batch \notin Params /\ devHas[graph.inPtr] = batch
      /\ \A i \in DOMAIN work : \E l \in DOMAIN graph.tape : work[i] = graph.tape[l]
      /\ MadeFirst(work, graph.output, graph.lossPtr) \/ LossMade
  BY <1>1 DEF ReplayInv, StepArrays
<1>5. StepOp(o, graph.input, graph.output, Captured, dptr, hostStale)
  BY <1>1, <1>2, <1>4 DEF GraphInv
<1> HIDE DEF o
<1>6. /\ o.op = "launch" /\ o.kern \in Launches
      /\ KernelEffect(k, o.ptrs, o.scr) /\ spoilt' = (spoilt \/ ~SeesArguments(k, o.ptrs))
  <2>1. o.op = "launch"
    BY <1>5 DEF StepOp
  <2> QED
    BY <1>2, <2>1 DEF o, Op, RunRecorded, Recorded
<1> DEFINE was(i) == o.kern.args[i].host
           host(i) == k.args[i].host
           role(i) == k.args[i].role
<1>7. /\ DOMAIN k.args = DOMAIN o.kern.args
      /\ \A i \in DOMAIN k.args : /\ host(i) \in Host /\ role(i) = o.kern.args[i].role
                                  /\ host(i) = IF was(i) = graph.input THEN batch ELSE was(i)
  BY <1>1, <1>6, BatchHosts
<1> HIDE DEF k
<1>8. \A i \in DOMAIN k.args :
         /\ was(i) \in Weights \cup {graph.input, graph.output} /\ o.ptrs[i] = Captured[was(i)]
         /\ was(i) \in Weights /\ role(i) # "in" => hostStale[was(i)]
         /\ was(i) = graph.input => role(i) = "in"
  BY <1>5, <1>7 DEF StepOp, PassesAs
<1>9. /\ \A h \in Weights : /\ Captured[h] = dptr[h] /\ dptr[h] \in Ptr /\ deviceFresh[h] /\ devHas[dptr[h]] = h
                            /\ dptr[h] # graph.inPtr /\ dptr[h] # graph.lossPtr
      /\ Captured[graph.input] = graph.inPtr /\ Captured[graph.output] = graph.lossPtr
  <2>1. ASSUME NEW h \in Weights
        PROVE  /\ Captured[h] = dptr[h] /\ dptr[h] \in Ptr /\ deviceFresh[h] /\ devHas[dptr[h]] = h
               /\ dptr[h] # graph.inPtr /\ dptr[h] # graph.lossPtr
    <3>1. h \in Host /\ h \in Params /\ h # graph.input /\ h # graph.output /\ h # loss
      BY <1>1, <1>3 DEF StepArrays
    <3>2. dptr[h] # None /\ deviceFresh[h]
      BY <1>1 DEF WarmInv, Warm
    <3>3. Agrees(h)
      BY <1>1, <3>1 DEF ContentsInv, AgreeBut, Unwritten, Unsettled, StepArrays
    <3> QED
      BY <1>1, <1>3, <3>1, <3>2, <3>3 DEF Captured, CacheTypes, Agrees
  <2>2. Captured[graph.input] = graph.inPtr /\ Captured[graph.output] = graph.lossPtr
    BY <1>1, <1>3 DEF Captured, CacheTypes
  <2> QED
    BY <2>1, <2>2
<1>10. \A i \in DOMAIN k.args :
          \/ was(i) \in Weights /\ host(i) = was(i) /\ o.ptrs[i] = dptr[host(i)] /\ (role(i) # "in" => hostStale[host(i)])
          \/ was(i) = graph.input /\ host(i) = batch /\ o.ptrs[i] = graph.inPtr /\ role(i) = "in"
          \/ was(i) = graph.output /\ host(i) = graph.output /\ o.ptrs[i] = graph.lossPtr
  BY <1>1, <1>3, <1>7, <1>8, <1>9
<1> HIDE DEF was, host, role
<1>11. \A i \in DOMAIN k.args : host(i) \in Host /\ o.ptrs[i] \in Ptr
  BY <1>3, <1>7, <1>9, <1>10
<1>12. \A i, j \in DOMAIN k.args : host(i) # host(j) => o.ptrs[i] # o.ptrs[j]
  BY <1>1, <1>3, <1>9, <1>10, OwnBuffers
<1>13. \A i \in DOMAIN k.args : host(i) = graph.output /\ role(i) # "out" => LossMade
  <2> SUFFICES ASSUME NEW i \in DOMAIN k.args, host(i) = graph.output, role(i) # "out",
                      MadeFirst(work, graph.output, graph.lossPtr)
               PROVE  FALSE
    BY <1>4
  <2>1. was(i) = graph.output
    BY <1>1, <1>3, <1>4, <1>10
  <2>2. Passes(o.kern, graph.output) /\ ~PassesAs(o.kern, graph.output, "out")
    BY <1>7, <2>1 DEF Passes, PassesAs, was, role
  <2> QED
    BY <1>1, <2>2, MadeLess DEF o
<1>14. \A i \in Reads(k) : devHas[o.ptrs[i]] = host(i)
  <2> SUFFICES ASSUME NEW i \in DOMAIN k.args, role(i) # "out" PROVE devHas[o.ptrs[i]] = host(i)
    BY DEF Reads, role
  <2>1. host(i) = graph.output => devHas[graph.lossPtr] = graph.output
    BY <1>13 DEF LossMade
  <2> QED
    BY <1>4, <1>9, <1>10, <2>1
<1>15. /\ SeesArguments(k, o.ptrs)
       /\ \A i \in Writes(k) : devHas'[o.ptrs[i]] = host(i)
       /\ \A p \in Ptr : /\ \A i \in Writes(k) : o.ptrs[i] # p /\ host(i) # devHas[p]
                         /\ p # o.scr
                         => devHas'[p] = devHas[p]
       /\ \A h \in Host : (\A i \in Writes(k) : host(i) # h) => hostHas'[h] = hostHas[h]
  BY <1>1, <1>6, <1>11, <1>12, <1>14, KernelRuns DEF host
<1>16. \A i \in Writes(k) : /\ i \in DOMAIN k.args /\ role(i) # "in"
                            /\ \/ /\ host(i) \in Weights /\ o.ptrs[i] = dptr[host(i)] /\ hostStale[host(i)]
                               \/ host(i) = graph.output /\ o.ptrs[i] = graph.lossPtr
  BY <1>10 DEF Writes, role
<1>17. spoilt' = spoilt
  BY <1>1, <1>6, <1>15 DEF CacheTypes
<1>18. devHas'[graph.inPtr] = batch
  <2>1. \A i \in Writes(k) : o.ptrs[i] # graph.inPtr /\ host(i) # batch
    BY <1>1, <1>3, <1>4, <1>9, <1>16
  <2>2. graph.inPtr # o.scr
    BY <1>5, <1>9 DEF StepOp
  <2> QED
    BY <1>3, <1>4, <1>15, <2>1, <2>2
<1>19. ASSUME o.scr # graph.lossPtr,
              devHas[graph.lossPtr] = graph.output \/ \E i \in Writes(k) : host(i) = graph.output
       PROVE  devHas'[graph.lossPtr] = graph.output
  <2>1. CASE \E i \in Writes(k) : host(i) = graph.output
    BY <1>1, <1>3, <1>15, <1>16, <2>1
  <2>2. CASE ~\E i \in Writes(k) : host(i) = graph.output
    <3>1. \A i \in Writes(k) : o.ptrs[i] # graph.lossPtr /\ host(i) # graph.output
      BY <1>9, <1>16, <2>2
    <3> QED
      BY <1>3, <1>15, <1>19, <2>2, <3>1
  <2> QED
    BY <2>1, <2>2
<1>20. MadeFirst(work', graph.output, graph.lossPtr) \/ LossMade'
  <2>1. CASE LossMade
    <3>1. devHas'[graph.lossPtr] = graph.output
      BY <1>2, <1>19, <2>1 DEF LossMade
    <3>2. \A i \in DOMAIN work' : work'[i].scr # graph.lossPtr
      BY <1>2, <2>1 DEF LossMade
    <3> QED
      BY <1>1, <3>1, <3>2 DEF LossMade
  <2>2. CASE MadeFirst(work, graph.output, graph.lossPtr)
    <3>1. CASE /\ Passes(o.kern, graph.output) /\ PassesAs(o.kern, graph.output, "out")
               /\ \A i \in DOMAIN work' : work'[i].scr # graph.lossPtr
               /\ o.scr # graph.lossPtr
      <4>1. PICK i \in DOMAIN k.args : was(i) = graph.output /\ role(i) = "out"
        BY <1>7, <3>1 DEF Passes, PassesAs, was, role
      <4>2. i \in Writes(k) /\ host(i) = graph.output
        BY <1>3, <1>10, <4>1 DEF Writes, role
      <4> QED
        BY <1>1, <1>19, <3>1, <4>2 DEF LossMade
    <3>2. CASE MadeFirst(work', graph.output, graph.lossPtr)
      BY <3>2
    <3> QED
      BY <1>1, <2>2, <3>1, <3>2, MadeLess DEF o
  <2> QED
    BY <1>4, <2>1, <2>2
<1>21. ASSUME NEW h \in alive \ Unsettled PROVE Agrees(h)'
  <2>1. h \in Host /\ Agrees(h) /\ h # graph.output
    BY <1>1, <1>3 DEF ContentsInv, AgreeBut, Unwritten, Unsettled, CacheTypes
  <2>2. CASE \E i \in Writes(k) : host(i) = h
    <3>1. deviceFresh[h] /\ hostStale[h] /\ dptr[h] # None /\ devHas'[dptr[h]] = h
      BY <1>1, <1>9, <1>15, <1>16, <2>1, <2>2
    <3> QED
      BY <1>1, <3>1 DEF Agrees
  <2>3. CASE \A i \in Writes(k) : host(i) # h
    <3>1. hostHas'[h] = hostHas[h]
      BY <1>15, <2>1, <2>3
    <3>2. ASSUME deviceFresh[h] PROVE devHas'[dptr[h]] = h
      <4>1. dptr[h] # None /\ dptr[h] \in Ptr /\ devHas[dptr[h]] = h
        BY <1>1, <2>1, <3>2 DEF MarksInv, Agrees, CacheTypes
      <4>2. \A i \in Writes(k) : o.ptrs[i] # dptr[h]
        BY <1>1, <1>3, <1>16, <2>1, <2>3, <4>1, OwnBuffers
      <4>3. dptr[h] # o.scr
        BY <1>5, <2>1, <4>1 DEF StepOp
      <4> QED
        BY <1>15, <2>3, <4>1, <4>2, <4>3
    <3> QED
      BY <1>1, <2>1, <3>1, <3>2 DEF Agrees
  <2> QED
    BY <2>2, <2>3
<1>22. \A i \in DOMAIN work' : \E l \in DOMAIN graph.tape : work'[i] = graph.tape[l]
  BY <1>2, <1>4
<1> QED
  BY <1>17, <1>18, <1>20, <1>21, <1>22
\* The first replay begins with the batch on the device.
LEMMA ReplayBegins ==
    ASSUME CacheInv, GraphTypes, ModeInv, StepArrays, ContentsInv, WarmInv, CaptureInv, EndCapture
    PROVE  ReplayInv'
<1>1. /\ mode = "capture" /\ pc = "idle" /\ step = << >> /\ kern = NoKernel /\ Pending = {}
      /\ batch \in Host \ Params /\ loss \in Host \ Params /\ batch # loss
      /\ batch \in alive \ dropped /\ dptr[batch] # None /\ deviceFresh[batch]
  BY IdleFacts, HostAssumption
     DEF EndCapture, Between, Idle, Ready, ModeInv, StepArrays, Launching, WarmInv, Warm
<1>2. LossRecorded /\ graph.inPtr = dptr[batch]
  <2>1. ~FirstWritten(step, loss)
    BY <1>1 DEF FirstWritten
  <2>2. ~Passes(kern, loss)
    BY <1>1, NoKernelFacts
  <2> QED
    BY <1>1, <2>1, <2>2 DEF CaptureInv, LossUntouched, LossComing
<1>3. /\ graph'.tape = tape /\ graph'.output = loss
      /\ graph'.lossPtr = dptr[loss] /\ graph'.inPtr = dptr[batch]
      /\ UNCHANGED << batch, loss, dptr, deviceFresh, hostStale, devHas >>
      /\ work' = tape /\ mode' = "replay" /\ pc' = "replay"
  <2>1. graph' = [graph EXCEPT !.tape = tape, !.input = batch, !.output = loss, !.lossPtr = dptr[loss]]
        /\ UNCHANGED << batch, loss, dptr, deviceFresh, hostStale, devHas >>
        /\ work' = tape /\ mode' = "replay" /\ pc' = "replay"
    BY DEF EndCapture, entryVars, dataVars
  <2> QED
    BY <1>2, <2>1 DEF GraphTypes, GraphRecords
<1>4. devHas[dptr[batch]] = batch
  <2>1. Agrees(batch)
    BY <1>1 DEF ContentsInv, AgreeBut, Unwritten, Unsettled
  <2> QED
    BY <1>1, <2>1 DEF Agrees
<1>5. /\ deviceFresh[loss] /\ hostStale[loss] /\ MadeFirst(tape, loss, dptr[loss])
  BY <1>2 DEF LossRecorded
<1> QED
  BY <1>1, <1>3, <1>4, <1>5 DEF ReplayInv

\* A replay runs to its end.
LEMMA ReplayGoesOn ==
    ASSUME CacheInv, GraphTypes, ModeInv, StepArrays, ContentsInv, WarmInv, GraphInv, ReplayInv,
           [GNext]_gvars, mode = "replay", mode' = "replay"
    PROVE  ReplayInv'
<1>1. graph' = graph
  BY ReplayingSteps
<1>2. /\ batch # None => pc = "replay"
      /\ loss # None => /\ loss = graph.output /\ dptr[loss] = graph.lossPtr
                        /\ deviceFresh[loss] /\ hostStale[loss]
      /\ batch = None => loss = None
  BY DEF ReplayInv, StepArrays
<1>3. /\ graph.inPtr \in Ptr /\ graph.output \in Host
      /\ graph.output \in alive => graph.output \in dropped \cup {loss}
      /\ MadeFirst(graph.tape, graph.output, graph.lossPtr)
      /\ None \notin Host /\ CacheTypes
  BY HostAssumption DEF GraphInv, CacheInv
<1>4. ASSUME NEW x \in Host, ReplayStep(x) PROVE ReplayInv'
  <2>1. /\ pc = "idle" /\ pc' = "replay" /\ x \in alive \ dropped
        /\ batch' = x /\ loss' = loss /\ work' = graph.tape
        /\ devHas' = [devHas EXCEPT ![graph.inPtr] = x]
        /\ UNCHANGED << dptr, deviceFresh, hostStale >>
    BY <1>4 DEF ReplayStep, Between, Idle, Ready, Fresh, entryVars
  <2>2. loss = None
    BY <1>2, <2>1
  <2>3. x # graph.output /\ devHas'[graph.inPtr] = x
    BY <1>3, <2>1, <2>2 DEF CacheTypes
  <2> QED
    BY <1>1, <1>3, <2>1, <2>2, <2>3 DEF ReplayInv
<1>5. CASE RunRecorded
  <2>1. /\ pc = "replay" /\ pc' = "replay" /\ UNCHANGED << batch, loss, dptr, deviceFresh, hostStale >>
    BY <1>5 DEF RunRecorded, entryVars, callVars
  <2>2. batch # graph.output
    BY <2>1 DEF ReplayInv
  <2>3. /\ devHas'[graph.inPtr] = batch
        /\ MadeFirst(work', graph.output, graph.lossPtr) \/ LossMade'
        /\ \A i \in DOMAIN work' : \E l \in DOMAIN graph.tape : work'[i] = graph.tape[l]
    BY <1>5, RecordedRuns
  <2> QED
    BY <1>1, <1>2, <2>1, <2>2, <2>3 DEF ReplayInv
<1>6. CASE ReplayEnds
  <2>1. batch' = None /\ loss' = None /\ pc' = "flush"
    BY <1>6 DEF ReplayEnds, DropStep
  <2> QED
    BY <2>1 DEF ReplayInv
<1>7. CASE \/ (FlushStep \/ WalkEnds) /\ UNCHANGED graphVars
           \/ \E h \in Host, write \in BOOLEAN : GHostAccess(h, write) /\ HostAccess(h, write)
           \/ \E h \in Host : GCollect(h) \/ (Finalize(h) /\ UNCHANGED graphVars) \/ GNewArray(h)
  <2>1. pc # "replay" /\ pc' # "replay" /\ UNCHANGED << batch, loss >>
    BY <1>7 DEF FlushStep, WalkEnds, GHostAccess, HostAccess, GCollect, Collect, GNewArray, NewArray, Finalize,
       Ready, graphVars, callVars
  <2> QED
    BY <1>2, <2>1 DEF ReplayInv
<1>8. CASE UNCHANGED << graphVars, dptr, deviceFresh, hostStale, captureVars, dataVars, callVars, ghosts >>
  BY <1>8 DEF graphVars, dataVars, callVars, ReplayInv, LossMade
<1> QED
  BY <1>4, <1>5, <1>6, <1>7, <1>8, ReplayingSteps

\* So every replay makes its loss from its batch.
LEMMA ReplaySteps ==
    ASSUME CacheInv, GraphTypes, ModeInv, ModeInv', StepArrays, ContentsInv, WarmInv, CaptureInv, GraphInv, ReplayInv,
           [GNext]_gvars
    PROVE  ReplayInv'
<1>1. CASE mode' # "replay"
  BY <1>1 DEF ReplayInv, ModeInv
<1>2. CASE mode = "replay" /\ mode' = "replay"
  BY <1>2, ReplayGoesOn
<1>3. CASE mode # "replay" /\ mode' = "replay"
  <2>1. EndCapture
    BY <1>3 DEF GNext, gvars, graphVars, EagerStep, CaptureUpload, CaptureFails, ReplayStep, StepLaunch, EagerStepEnds,
       BeginCapture, RunRecorded, ReplayEnds, FitEnds, TeardownEnds, CacheStep, GHostAccess, GCollect, GNewArray, GFinalize
  <2> QED
    BY <2>1, ReplayBegins
<1> QED
  BY <1>1, <1>2, <1>3
-----------------------------------------------------------------------------
(* The contents.                                                            *)

\* Outside a capture a launch passes settled arrays only.
LEMMA PassesSettled ==
    ASSUME CacheInv, ModeInv, StepArrays, mode # "capture"
    PROVE  PassesNone(Unsettled) /\ SafeLaunch(kern) /\ ~capturing
<1>1. SafeLaunch(kern) /\ ~capturing
  BY DEF StepArrays, StepUses, ModeInv
<1>2. CASE pc \notin Launching
  BY <1>1, <1>2, IdleFacts, NoKernelFacts DEF PassesNone
<1>3. CASE pc \in Launching
  <2>1. Unsettled = dropped
    BY <1>3 DEF ModeInv, Unsettled
  <2>2. ASSUME NEW i \in DOMAIN kern.args PROVE kern.args[i].host \notin dropped
    <3>1. kern.args[i].host \in Weights \cup {batch, loss} /\ kern.args[i].host # None
      BY <1>3, LaunchFacts, HostAssumption DEF StepArrays, StepUses
    <3> QED
      BY <3>1, WeightFacts DEF StepArrays
  <2> QED
    BY <1>1, <2>1, <2>2 DEF PassesNone
<1> QED
  BY <1>2, <1>3

\* Which arrays become settled: those that a new array takes the place of.
LEMMA SettledSteps ==
    ASSUME CacheInv, CacheInv', GraphTypes, ModeInv, StepArrays, ReplayInv, [GNext]_gvars, ~BehindBack,
           ~\E h \in Host : GNewArray(h)
    PROVE  \A h \in alive' : h \in Unsettled => h \in Unsettled'
<1>1. alive' \subseteq Host /\ None \notin Host
  BY HostAssumption DEF CacheInv, CacheTypes
<1>2. ASSUME dropped \subseteq dropped', UNCHANGED << mode, loss >>
      PROVE  \A h \in alive' : h \in Unsettled => h \in Unsettled'
  BY <1>2 DEF Unsettled
<1>3. ASSUME dropped \subseteq dropped', mode \notin {"capture", "replay"} \/ loss = None
      PROVE  \A h \in alive' : h \in Unsettled => h \in Unsettled'
  BY <1>1, <1>3 DEF Unsettled
<1>4. CASE \E x, y \in Host : EagerStep(x, y) \/ CaptureUpload(x, y)
  BY <1>3, <1>4 DEF EagerStep, CaptureUpload, WarmingUp
<1>5. CASE EagerStepEnds
  BY <1>3, <1>5 DEF EagerStepEnds, DropStep
<1>6. CASE FitEnds
  <2>1. dropped' = dropped /\ loss = None
    BY <1>6 DEF FitEnds, StepArrays
  <2> QED
    BY <1>3, <2>1
<1>7. CASE TeardownEnds
  BY <1>3, <1>7 DEF TeardownEnds
<1>8. CASE StepLaunch \/ CacheStep \/ (mode = "off" /\ StartWalk("releaseAll") /\ UNCHANGED graphVars) \/ UNCHANGED gvars
  BY <1>2, <1>8 DEF StepLaunch, CacheStep, graphVars, gvars
<1>9. CASE \/ \E h \in Host, write \in BOOLEAN : GHostAccess(h, write)
           \/ (\E h \in Host : GCollect(h)) \/ GFinalize
  BY <1>2, <1>9 DEF GHostAccess, GCollect, GFinalize, graphVars
<1> QED
  BY <1>4, <1>5, <1>6, <1>7, <1>8, <1>9 DEF GNext, BehindBack

\* Outside a capture the cache keeps the contents, and a host access is to a
\* settled array.
LEMMA CallContents ==
    ASSUME PoolInv, CacheInv, CacheInv', GraphTypes, ModeInv, StepArrays, ContentsInv, ReplayInv, [GNext]_gvars,
           ~BehindBack, mode # "capture", mode' # "capture"
    PROVE  ContentsInv'
<1>1. PassesNone(Unsettled) /\ SafeLaunch(kern) /\ ~capturing /\ GatherInv /\ NotSpoilt
      /\ AgreeBut(Pending \cup Unsettled) /\ CacheTypes
  BY PassesSettled DEF ContentsInv, Unwritten, CacheInv
<1>2. CASE \E h \in Host : GNewArray(h)
  <2>1. PICK h \in Host : GNewArray(h)
    BY <1>2
  <2>2. /\ NewArray(h) /\ dropped' = dropped \ {h} /\ UNCHANGED << mode, loss >>
        /\ pc = "idle" /\ pc' = "idle" /\ got' = got
    BY <2>1 DEF GNewArray, NewArray, Ready, callVars
  <2>3. Pending = {} /\ got = << >>
    BY <2>2, IdleFacts DEF Launching
  <2>4. Pending' = {}
    BY <2>2, <2>3 DEF Pending, MarkedOutputs
  <2>5. PICK E : E = Unsettled
    OBVIOUS
  <2>6. AgreeBut(E)
    BY <1>1, <2>3, <2>5 DEF AgreeBut
  <2>7. AgreeBut(E \ {h})' /\ GatheredInv' /\ MarksInv' /\ spoilt' = spoilt
    BY <1>1, <2>2, <2>6, NewContent DEF GatherInv
  <2>8. KeepsGathered'
    BY <1>1, <2>2, KeepsSteps DEF GatherInv, CacheNext, CallStep
  <2>9. \A g : g \in E \ {h} => g \in Unsettled'
    BY <2>2, <2>5 DEF Unsettled
  <2>10. AgreeBut(Unwritten \cup Unsettled)'
    BY <2>7, <2>9 DEF AgreeBut
  <2> QED
    BY <1>1, <2>7, <2>8, <2>10 DEF ContentsInv, GatherInv, NotSpoilt
<1>3. CASE ~\E h \in Host : GNewArray(h)
  <2>1. PICK D : D = Unsettled
    OBVIOUS
  <2>2. [CallStep]_cacheVars \/ \E h \in Host \ D, write \in BOOLEAN : HostAccess(h, write)
    <3>1. ASSUME NEW h \in Host, NEW write \in BOOLEAN, GHostAccess(h, write) PROVE h \notin Unsettled
      <4>1. h \notin dropped /\ pc = "idle" /\ h # None
        BY <3>1, HostAssumption DEF GHostAccess, HostAccess, Ready
      <4>2. mode = "replay" => loss = None
        BY <4>1 DEF ReplayInv, StepArrays
      <4> QED
        BY <1>1, <4>1, <4>2 DEF Unsettled, ModeInv
    <3> QED
      BY <2>1, <3>1, FitCalls
  <2>3. AgreeBut(Pending \cup D)
    BY <1>1, <2>1
  <2>4. AgreeBut(Pending \cup D)' /\ GatherInv' /\ NotSpoilt'
    BY <1>1, <2>1, <2>2, <2>3, ContentSteps
  <2>5. \A h \in alive' : h \in D => h \in Unsettled'
    BY <1>3, <2>1, SettledSteps
  <2>6. Unwritten' = Pending'
    BY DEF Unwritten
  <2>7. AgreeBut(Unwritten \cup Unsettled)'
    BY <2>4, <2>5, <2>6 DEF AgreeBut
  <2> QED
    BY <2>4, <2>7 DEF ContentsInv
<1> QED
  BY <1>2, <1>3

\* A capture marks its arrays, and moves no contents.
LEMMA CaptureContents ==
    ASSUME PoolInv, CacheInv, CacheInv', GraphTypes, ModeInv, StepArrays, ContentsInv, WarmInv, CaptureInv,
           [GNext]_gvars, mode = "capture", mode' = "capture"
    PROVE  ContentsInv'
<1>1. /\ AgreeBut(Unsettled) /\ GatheredInv /\ MarksInv /\ KeepsGathered /\ GatherInv /\ ~spoilt
      /\ CacheTypes /\ None \notin Host /\ Unwritten' = {}
  BY HostAssumption DEF ContentsInv, GatherInv, NotSpoilt, Unwritten, CacheInv, AgreeBut
<1>2. batch' = batch /\ loss' = loss
  BY CapturingSteps
<1>3. KeepsGathered'
  <2>1. \A h \in Host, write \in BOOLEAN : ~GHostAccess(h, write)
    BY DEF GHostAccess
  <2>2. ~BehindBack
    BY DEF BehindBack, BeginCapture, EndCapture, CaptureFails, ReplayStep, RunRecorded, ReplayEnds, ModeInv
  <2>3. [CacheNext]_cacheVars
    BY <2>1, <2>2, FitCalls DEF CacheNext
  <2> QED
    BY <1>1, <2>3, KeepsSteps
<1>4. ASSUME AgreeBut(Unsettled)', GatheredInv', MarksInv', spoilt' = spoilt PROVE ContentsInv'
  <2>1. AgreeBut(Unwritten \cup Unsettled)'
    BY <1>1, <1>4 DEF AgreeBut
  <2> QED
    BY <1>1, <1>3, <1>4, <2>1 DEF ContentsInv, GatherInv, NotSpoilt
<1>5. ASSUME UNCHANGED << dptr, deviceFresh, hostStale, hostHas, devHas, spoilt >>,
             alive' \subseteq alive, dropped' = dropped,
             \/ got' = << >> \/ pc' = "release"
             \/ UNCHANGED << kern, got >> /\ pc # "release"
      PROVE  ContentsInv'
  <2>1. AgreeBut(Unsettled)' /\ MarksInv' /\ GatheredInv'
    BY <1>1, <1>2, <1>5 DEF AgreeBut, Agrees, Unsettled, MarksInv, GatheredInv
  <2> QED
    BY <1>4, <1>5, <2>1
<1>6. CASE StepLaunch
  <2>1. /\ UNCHANGED << dptr, deviceFresh, hostStale, hostHas, devHas, spoilt, alive, dropped, got >>
        /\ pc = "idle"
    BY <1>6 DEF StepLaunch, Launch, Ready, entryVars, dataVars, ghosts
  <2>2. got = << >>
    BY <2>1, IdleFacts DEF Launching
  <2> QED
    BY <1>5, <2>1, <2>2
<1>7. CASE (ArgResident \/ CreateEntry) /\ UNCHANGED graphVars
  <2>1. /\ devHas' = devHas /\ spoilt' = spoilt /\ dropped' = dropped
        /\ Arg.host \in Weights \cup {batch, loss}
    BY <1>1, <1>7, CapturedArgument DEF graphVars
  <2>2. PICK p \in Ptr : /\ dptr' = [dptr EXCEPT ![Arg.host] = p] /\ dptr[Arg.host] \in {p, None}
                         /\ Use(Arg.host, Arg.role, p, deviceFresh[Arg.host], hostStale[Arg.host])
    BY <1>1, <1>7, TakesBuffer
  <2>3. pc \in {"arg", "create"}
    BY <1>7 DEF ArgResident, CreateEntry, Ready
  <2>4. UseResult(p) /\ GatheredInv' /\ MarksInv'
    BY <1>1, <2>2, <2>3, UseFacts, UseGathers
  <2>5. ASSUME NEW h \in alive \ (dropped \cup {loss}) PROVE Agrees(h)'
    <3>1. Agrees(h) /\ h \in Host
      BY <1>1 DEF AgreeBut, Unsettled, CacheTypes
    <3>2. CASE h = Arg.host
      <4>1. dptr[h] # None /\ deviceFresh[h]
        BY <2>1, <3>2 DEF WarmInv, Warm
      <4>2. dptr'[h] = dptr[h] /\ deviceFresh'[h] /\ (~hostStale'[h] => ~hostStale[h]) /\ hostHas' = hostHas
        BY <2>2, <2>4, <3>2, <4>1 DEF UseResult
      <4> QED
        BY <2>1, <3>1, <4>1, <4>2 DEF Agrees
    <3>3. CASE h # Arg.host
      <4>1. dptr'[h] = dptr[h] /\ deviceFresh'[h] = deviceFresh[h] /\ hostStale'[h] = hostStale[h] /\ hostHas' = hostHas
        BY <2>4, <3>1, <3>3 DEF UseResult
      <4> QED
        BY <2>1, <3>1, <4>1 DEF Agrees
    <3> QED
      BY <3>2, <3>3
  <2>6. AgreeBut(Unsettled)'
    <3>1. alive' = alive
      BY <2>4 DEF UseResult
    <3> QED
      BY <1>2, <2>1, <2>5, <3>1 DEF AgreeBut, Unsettled
  <2> QED
    BY <1>4, <2>1, <2>4, <2>6
<1>8. CASE RecordKernel /\ UNCHANGED graphVars
  <2>1. /\ UNCHANGED << dptr, deviceFresh, hostStale, hostHas, devHas, spoilt, alive, dropped >>
        /\ got' = << >> \/ pc' = "release"
    BY <1>8 DEF RecordKernel, LaunchEnds, graphVars, entryVars, dataVars, ghosts
  <2> QED
    BY <1>5, <2>1
<1>9. CASE /\ UNCHANGED << tape, step, deviceFresh, hostStale, hostHas, spoilt >>
           /\ UNCHANGED << kern, got >> \/ (pc = "release" /\ kern' = NoKernel /\ got' = << >>)
           /\ pc' = "release" => pc = "release"
           /\ pc = "release" => pc' = "release" \/ got' = << >>
           /\ UNCHANGED << dptr, devHas, alive, dropped >>
  <2>1. CASE pc' = "release" \/ got' = << >>
    BY <1>5, <1>9, <2>1
  <2>2. CASE UNCHANGED << kern, got >> /\ pc # "release"
    BY <1>5, <1>9, <2>2
  <2> QED
    BY <1>9, <2>1, <2>2
<1>10. ASSUME NEW h \in Host, GCollect(h) PROVE ContentsInv'
  <2>1. /\ UNCHANGED << dptr, deviceFresh, hostStale, hostHas, devHas, spoilt, dropped, kern, got >>
        /\ alive' \subseteq alive /\ pc = "idle"
    BY <1>10 DEF GCollect, Collect, Ready, graphVars, entryVars, dataVars, callVars, ghosts
  <2> QED
    BY <1>5, <2>1
<1>11. ASSUME NEW h \in Host, GNewArray(h) PROVE ContentsInv'
  <2>1. NewArray(h) /\ dropped' = dropped \ {h}
    BY <1>11 DEF GNewArray
  <2>2. PICK E : E = Unsettled
    OBVIOUS
  <2>3. AgreeBut(E)
    BY <1>1, <2>2
  <2>4. AgreeBut(E \ {h})' /\ GatheredInv' /\ MarksInv' /\ spoilt' = spoilt
    BY <1>1, <2>1, <2>3, NewContent
  <2>5. \A g : g \in E \ {h} => g \in Unsettled'
    BY <1>2, <2>1, <2>2 DEF Unsettled
  <2>6. AgreeBut(Unsettled)'
    BY <2>4, <2>5 DEF AgreeBut
  <2> QED
    BY <1>4, <2>4, <2>6
<1>12. ASSUME NEW h \in Host, Finalize(h), UNCHANGED graphVars PROVE ContentsInv'
  <2>1. /\ ReclaimEntry(h, FALSE) /\ h \in Residents /\ pc = "idle"
        /\ UNCHANGED << pc, kern, got, alive, spoilt, dropped >>
    BY <1>12 DEF Finalize, Resident, Residents, Ready, callVars, ghosts, graphVars
  <2>2. got = << >>
    BY <2>1, IdleFacts DEF Launching
  <2>3. PICK E : E = Unsettled
    OBVIOUS
  <2>4. AgreeBut(E) /\ FALSE \in BOOLEAN /\ \A i \in DOMAIN got : kern.args[i].host # h
    BY <1>1, <2>2, <2>3
  <2>5. AgreeBut(E)' /\ GatheredInv' /\ MarksInv' /\ spoilt' = spoilt
    BY <1>1, <2>1, <2>4, DropContent
  <2>6. Unsettled' = E
    BY <1>2, <2>1, <2>3 DEF Unsettled
  <2>7. AgreeBut(Unsettled)'
    BY <2>5, <2>6 DEF AgreeBut
  <2> QED
    BY <1>4, <2>5, <2>7
<1> QED
  BY <1>6, <1>7, <1>8, <1>9, <1>10, <1>11, <1>12, CapturingSteps DEF ContentsInv
\* Behind the cache's back the settled arrays keep their contents too: a batch
\* is copied to a buffer no settled array has.
LEMMA BehindContents ==
    ASSUME FailsClean, CacheInv, GraphTypes, ModeInv, StepArrays, ContentsInv, WarmInv, GraphInv, ReplayInv, BehindBack
    PROVE  ContentsInv'
<1>1. /\ AgreeBut(Unwritten \cup Unsettled) /\ MarksInv /\ ~spoilt
      /\ CacheTypes /\ None \notin Host /\ alive \subseteq Host
  BY HostAssumption DEF ContentsInv, GatherInv, NotSpoilt, CacheInv, CacheTypes
<1>2. /\ UNCHANGED << dptr, deviceFresh, hostStale, alive, kern, got >>
      /\ pc \notin Launching /\ pc' \notin Launching
  <2>1. CASE BeginCapture \/ EndCapture
    BY <2>1 DEF BeginCapture, EndCapture, Between, Idle, Ready, Launching, entryVars, callVars
  <2>2. CASE (\E y \in Host, place \in CapturePlaces : CaptureFails(y, place)) \/ ReplayEnds
    BY <2>2 DEF CaptureFails, ReplayEnds, Idle, Ready, Launching, entryVars, callVars
  <2>3. CASE (\E x \in Host : ReplayStep(x)) \/ RunRecorded
    BY <2>3 DEF ReplayStep, RunRecorded, Between, Idle, Ready, Launching, entryVars, callVars
  <2> QED
    BY <2>1, <2>2, <2>3 DEF BehindBack
<1>3. kern = NoKernel /\ got = << >> /\ Unwritten = {} /\ Unwritten' = {}
  <2>1. kern = NoKernel /\ got = << >> /\ Pending = {}
    BY <1>2, IdleFacts
  <2>2. Pending' = {}
    BY <1>2, <2>1 DEF Pending, MarkedOutputs
  <2> QED
    BY <2>1, <2>2 DEF Unwritten
<1>4. GatherInv'
  <2>1. MarksInv' /\ GatheredInv'
    BY <1>1, <1>2, <1>3 DEF MarksInv, GatheredInv
  <2>2. KeepsGathered'
    BY <1>2, <1>3, NoKernelFacts DEF KeepsGathered, Launching
  <2> QED
    BY <2>1, <2>2 DEF GatherInv
<1>5. ASSUME spoilt' = spoilt, \A h \in alive : h \notin Unsettled' => Agrees(h)'
      PROVE  ContentsInv'
  <2>1. AgreeBut(Unwritten \cup Unsettled)'
    BY <1>2, <1>5 DEF AgreeBut
  <2> QED
    BY <1>1, <1>4, <1>5, <2>1 DEF ContentsInv, NotSpoilt
<1>6. \A h \in alive : h \notin Unsettled => Agrees(h)
  BY <1>1, <1>3 DEF AgreeBut
<1>7. ASSUME UNCHANGED << hostHas, devHas, spoilt >>,
             \A h \in alive : h \in Unsettled => h \in Unsettled'
      PROVE  ContentsInv'
  BY <1>2, <1>5, <1>6, <1>7 DEF Agrees
<1>8. CASE BeginCapture \/ EndCapture
  <2>1. UNCHANGED << hostHas, devHas, spoilt, dropped, loss >> /\ mode' \in {"capture", "replay"}
    BY <1>8 DEF BeginCapture, EndCapture, dataVars, ghosts
  <2> QED
    BY <1>7, <2>1 DEF Unsettled
<1>9. CASE \E y \in Host, place \in CapturePlaces : CaptureFails(y, place)
  <2>1. UNCHANGED << hostHas, devHas, spoilt >> /\ dropped' = dropped \cup {loss}
    BY <1>1, <1>9 DEF FailsClean, CaptureFails, ModeInv, dataVars, ghosts
  <2> QED
    BY <1>7, <2>1 DEF Unsettled
<1>10. CASE ReplayEnds
  <2>1. UNCHANGED << hostHas, devHas, spoilt >> /\ dropped' = dropped \cup ({batch, loss, grad} \ {None})
    BY <1>10 DEF ReplayEnds, DropStep, dataVars, ghosts
  <2>2. \A h \in alive : h \in Unsettled => h \in Unsettled'
    BY <1>1, <2>1 DEF Unsettled
  <2> QED
    BY <1>7, <2>1, <2>2
<1>11. ASSUME NEW x \in Host, ReplayStep(x) PROVE ContentsInv'
  <2>1. /\ mode = "replay" /\ pc = "idle" /\ UNCHANGED << hostHas, spoilt, mode, loss, dropped >>
        /\ devHas' = [devHas EXCEPT ![graph.inPtr] = x]
    BY <1>11 DEF ReplayStep, Between, Idle, Ready, ghosts
  <2>2. batch = None
    BY <2>1, <1>1 DEF ReplayInv
  <2>3. ASSUME NEW h \in alive, h \notin Unsettled PROVE dptr[h] # graph.inPtr
    <3>1. h \notin dropped \cup {batch} /\ h \in Host
      BY <1>1, <2>2, <2>3 DEF Unsettled
    <3> QED
      BY <2>1, <3>1 DEF GraphInv
  <2>4. ASSUME NEW h \in alive, h \notin Unsettled PROVE Agrees(h)'
    <3>1. devHas'[dptr[h]] = devHas[dptr[h]] \/ dptr[h] = None
      <4>1. h \in Host /\ dptr[h] \in Ptr \cup {None} /\ devHas \in [Ptr -> Host \cup {None}]
        BY <1>1 DEF CacheTypes
      <4> QED
        BY <2>1, <2>3, <2>4, <4>1
    <3>2. dptr[h] = None => ~deviceFresh[h]
      BY <1>1 DEF MarksInv
    <3>3. Agrees(h)
      BY <1>6, <2>4
    <3> QED
      BY <1>2, <2>1, <3>1, <3>2, <3>3 DEF Agrees
  <2>5. Unsettled' = Unsettled
    BY <2>1 DEF Unsettled
  <2> QED
    BY <1>5, <2>1, <2>4, <2>5
<1>12. CASE RunRecorded
  <2>1. spoilt' = spoilt /\ \A h \in alive \ Unsettled : Agrees(h)'
    BY <1>12, RecordedRuns
  <2>2. Unsettled' = Unsettled
    BY <1>12 DEF RunRecorded, Unsettled
  <2> QED
    BY <1>5, <2>1, <2>2
<1> QED
  BY <1>8, <1>9, <1>10, <1>11, <1>12 DEF BehindBack

\* So every step keeps the contents of the settled arrays.
LEMMA ContentsSteps ==
    ASSUME FailsClean, PoolInv, CacheInv, CacheInv', GraphTypes, ModeInv, StepArrays, ContentsInv, WarmInv, CaptureInv, GraphInv,
           ReplayInv, [GNext]_gvars
    PROVE  ContentsInv'
<1>1. CASE BehindBack
  BY <1>1, BehindContents
<1>2. CASE ~BehindBack /\ mode # "capture" /\ mode' # "capture"
  BY <1>2, CallContents
<1>3. CASE mode = "capture" /\ mode' = "capture"
  BY <1>3, CaptureContents
<1>4. CASE (mode = "capture") # (mode' = "capture")
  <2>1. BehindBack
    BY <1>4 DEF BehindBack, GNext, gvars, graphVars, EagerStep, CaptureUpload, WarmingUp, StepLaunch, EagerStepEnds,
       FitEnds, TeardownEnds, CacheStep, GHostAccess, GCollect, GNewArray, GFinalize
  <2> QED
    BY <2>1, BehindContents
<1> QED
  BY <1>1, <1>2, <1>3, <1>4
-----------------------------------------------------------------------------
(* The theorems about the contents.                                         *)

\* A fit starts with coherent arrays.
LEMMA InitFitContent == GInit => GContentInv
<1> SUFFICES ASSUME GInit PROVE GContentInv
  OBVIOUS
<1>1. /\ RInit /\ mode = "off" /\ seen = 0 /\ step = << >> /\ batch = None /\ loss = None /\ dropped = {}
      /\ alive = Host /\ pc = "idle" /\ kern = NoKernel /\ abandoned = {} /\ grad = None
  BY DEF GInit, RInit
<1>2. StepArrays
  BY <1>1, NoKernelFacts, GraphAssumption DEF StepArrays
<1>3. ContentsInv
  <2>1. AgreeBut(Pending \cup abandoned) /\ GatherInv /\ NotSpoilt
    BY <1>1, InitContent DEF ContentInv
  <2> QED
    BY <1>1, <2>1 DEF ContentsInv, AgreeBut, Unwritten
<1> QED
  BY <1>1, <1>2, <1>3 DEF GContentInv, WarmInv, CaptureInv, GraphInv, ReplayInv

\* Every step keeps the contents.
LEMMA NextFitContent ==
    ASSUME TrainsInPlace, FailsClean, WarmupSteps # 0, ~CallbacksTouch, GInv, GInv', GContentInv, [GNext]_gvars
    PROVE  GContentInv'
<1>1. /\ PoolInv /\ CacheInv /\ CacheInv' /\ GraphTypes /\ ModeInv /\ ModeInv' /\ CapturedInv
      /\ StepArrays /\ ContentsInv /\ WarmInv /\ CaptureInv /\ GraphInv /\ ReplayInv
  BY DEF GInv, GContentInv
<1>2. StepArrays'
  BY <1>1, ArraySteps
<1>3. WarmInv'
  BY <1>1, <1>2, WarmSteps
<1>4. CaptureInv'
  BY <1>1, <1>2, CaptureSteps
<1>5. GraphInv'
  BY <1>1, <1>2, GraphSteps
<1>6. ReplayInv' /\ ContentsInv'
  BY <1>1, ReplaySteps, ContentsSteps
<1> QED
  BY <1>2, <1>3, <1>4, <1>5, <1>6 DEF GContentInv

\* So they hold in every behaviour of a fit that trains in place.
LEMMA FitContentInvariant ==
    TrainsInPlace /\ FailsClean /\ WarmupSteps # 0 /\ ~CallbacksTouch => (GSpec => [](GInv /\ GContentInv))
<1> SUFFICES ASSUME TrainsInPlace, FailsClean, WarmupSteps # 0, ~CallbacksTouch PROVE GSpec => [](GInv /\ GContentInv)
  OBVIOUS
<1>1. GInv /\ GInv' /\ GContentInv /\ [GNext]_gvars => GContentInv'
  BY NextFitContent
<1> QED
  BY <1>1, InitFitContent, FitInvariant, PTL DEF GSpec

\* An array that a recorded launch passes is promised.
LEMMA PassedIsPromised ==
    ASSUME GraphTypes, NEW n, NEW h,
           \/ n \in DOMAIN tape /\ tape[n].op = "launch" /\ Passes(tape[n].kern, h)
           \/ n \in DOMAIN work /\ work[n].op = "launch" /\ Passes(work[n].kern, h)
    PROVE  h \in Promised
<1> DEFINE ops == tape \o work
<1>1. PICK m \in DOMAIN ops : ops[m].op = "launch" /\ Passes(ops[m].kern, h)
  <2>1. tape \in Seq(Op) /\ work \in Seq(Op)
    BY DEF GraphTypes
  <2>2. CASE n \in DOMAIN tape /\ tape[n].op = "launch" /\ Passes(tape[n].kern, h)
    <3>1. n \in DOMAIN ops /\ ops[n] = tape[n]
      BY <2>1, <2>2
    <3> QED
      BY <2>2, <3>1
  <2>3. CASE n \in DOMAIN work /\ work[n].op = "launch" /\ Passes(work[n].kern, h)
    <3>1. Len(tape) + n \in DOMAIN ops /\ ops[Len(tape) + n] = work[n]
      BY <2>1, <2>3
    <3> QED
      BY <2>3, <3>1
  <2> QED
    BY <2>2, <2>3
<1> QED
  BY <1>1 DEF Promised, Ops, Passes

\* The loss of a captured or replayed step is promised, or as its marks say.
LEMMA LossPromised ==
    ASSUME CacheInv, GraphTypes, ModeInv, GContentInv, mode \in {"capture", "replay"},
           loss \in alive \ (Pending \cup Promised)
    PROVE  /\ dptr[loss] = None => hostHas[loss]
           /\ deviceFresh[loss] => devHas[dptr[loss]] = loss
           /\ ~hostStale[loss] => hostHas[loss]
<1>1. /\ MarksInv /\ CallInv /\ loss \in Host /\ loss # None
      /\ StepArrays /\ CaptureInv /\ GraphInv /\ ReplayInv
  BY HostAssumption DEF GContentInv, ContentsInv, GatherInv, CacheInv, CacheTypes
<1>2. CASE mode = "capture"
  <2>1. ~LossRecorded
    <3> SUFFICES ASSUME LossRecorded PROVE FALSE
      OBVIOUS
    <3>1. PICK n \in DOMAIN tape : Passes(tape[n].kern, loss)
      BY DEF LossRecorded, MadeFirst
    <3>2. StepOp(tape[n], batch, loss, dptr, dptr, hostStale)
      BY <1>1, <1>2 DEF CaptureInv
    <3>3. tape[n].op = "launch"
      BY <3>2 DEF StepOp
    <3> QED
      BY <3>1, <3>3, PassedIsPromised
  <2>2. dptr[loss] = None
    <3>1. CASE LossUntouched
      BY <3>1 DEF LossUntouched
    <3>2. CASE LossComing
      <4> SUFFICES ASSUME dptr[loss] # None PROVE FALSE
        OBVIOUS
      <4>1. PICK i \in DOMAIN got : kern.args[i].host = loss
        BY <3>2 DEF LossComing
      <4>2. pc \in Launching /\ pc # "release"
        BY <3>2, <4>1, IdleFacts DEF LossComing
      <4>3. i \in DOMAIN kern.args
        BY <4>1, <4>2, LaunchFacts
      <4>4. kern.args[i].role = "out"
        BY <3>2, <4>1, <4>3 DEF LossComing, PassesAs
      <4> QED
        BY <4>1, <4>2, <4>4 DEF Pending, MarkedOutputs
    <3> QED
      BY <1>1, <1>2, <2>1, <3>1, <3>2 DEF CaptureInv
  <2> QED
    BY <1>1, <1>2, <2>2 DEF CaptureInv, MarksInv
<1>3. CASE mode = "replay"
  <2>1. /\ pc = "replay" /\ loss = graph.output /\ dptr[loss] = graph.lossPtr
        /\ deviceFresh[loss] /\ hostStale[loss] /\ graph.lossPtr \in Ptr /\ None \notin Ptr
    BY <1>1, <1>3, HostAssumption DEF ReplayInv, StepArrays, GraphInv
  <2>2. ~MadeFirst(work, graph.output, graph.lossPtr)
    <3> SUFFICES ASSUME MadeFirst(work, graph.output, graph.lossPtr) PROVE FALSE
      OBVIOUS
    <3>1. PICK n \in DOMAIN work : Passes(work[n].kern, loss)
      BY <2>1 DEF MadeFirst
    <3>2. PICK l \in DOMAIN graph.tape : work[n] = graph.tape[l]
      BY <1>1, <2>1 DEF ReplayInv
    <3>3. StepOp(graph.tape[l], graph.input, graph.output, Captured, dptr, hostStale)
      BY <1>1, <1>3 DEF GraphInv
    <3>4. work[n].op = "launch"
      BY <3>2, <3>3 DEF StepOp
    <3> QED
      BY <3>1, <3>4, PassedIsPromised
  <2>3. LossMade
    BY <1>1, <2>1, <2>2 DEF ReplayInv
  <2> QED
    BY <2>1, <2>3 DEF LossMade
<1> QED
  BY <1>2, <1>3

(* The copies of an array agree with its marks through warm-up, capture,    *)
(* replays, a capture that throws while p.grad is null and the teardown,    *)
(* for the arrays that no recorded launch has still to make: what           *)
(* eagerFlush, a host read and the next step rely on.                       *)
THEOREM GraphStaysCoherent ==
    TrainsInPlace /\ FailsClean /\ WarmupSteps # 0 /\ ~CallbacksTouch => (GSpec => []GraphCoherent)
<1>1. GInv /\ GContentInv => GraphCoherent
  <2> SUFFICES ASSUME GInv, GContentInv, NEW h \in alive \ (Pending \cup Promised \cup dropped)
               PROVE  /\ dptr[h] = None => hostHas[h]
                      /\ deviceFresh[h] => devHas[dptr[h]] = h
                      /\ ~hostStale[h] => hostHas[h]
    BY DEF GraphCoherent
  <2>1. CacheInv /\ GraphTypes /\ ModeInv /\ AgreeBut(Unwritten \cup Unsettled)
    BY DEF GInv, GContentInv, ContentsInv
  <2>2. CASE h \in Unsettled
    <3>1. mode \in {"capture", "replay"} /\ h = loss
      BY <2>2 DEF Unsettled
    <3> QED
      BY <2>1, <3>1, LossPromised
  <2>3. CASE h \notin Unsettled
    <3>1. Agrees(h)
      BY <2>1, <2>3 DEF AgreeBut, Unwritten
    <3> QED
      BY <3>1 DEF Agrees
  <2> QED
    BY <2>2, <2>3
<1> QED
  BY <1>1, FitContentInvariant, PTL

(* Every launch of a fit, eager or replayed, finds the contents of its      *)
(* inputs in the buffers it passes and shares none of them, unless a        *)
(* capture throws with a gradient in p.grad (FailsClean): the retry then    *)
(* adds to the gradient, whose launch was only recorded.                    *)
THEOREM GraphNotSpoilt ==
    TrainsInPlace /\ FailsClean /\ WarmupSteps # 0 /\ ~CallbacksTouch => (GSpec => []NotSpoilt)
<1>1. GContentInv => NotSpoilt
  BY DEF GContentInv, ContentsInv
<1> QED
  BY <1>1, FitContentInvariant, PTL

(* The value a replayed step reads back from r.lossDptr is the loss of the  *)
(* batch it was given.                                                      *)
THEOREM GraphLossIsCurrent ==
    TrainsInPlace /\ FailsClean /\ WarmupSteps # 0 /\ ~CallbacksTouch => (GSpec => []LossIsCurrent)
<1>1. GInv /\ GContentInv => LossIsCurrent
  <2> SUFFICES ASSUME GContentInv, pc = "replay", work = << >> PROVE devHas[graph.lossPtr] = graph.output
    BY DEF LossIsCurrent
  <2>1. ~MadeFirst(work, graph.output, graph.lossPtr)
    BY DEF MadeFirst
  <2> QED
    BY <2>1 DEF GContentInv, ReplayInv, LossMade
<1> QED
  BY <1>1, FitContentInvariant, PTL

(* After the fit a host read of a weight returns what training left.        *)
THEOREM GraphFinalParams ==
    TrainsInPlace /\ FailsClean /\ WarmupSteps # 0 /\ ~CallbacksTouch => (GSpec => []FinalParams)
<1>1. GInv /\ GContentInv => FinalParams
  <2> SUFFICES ASSUME GInv, GContentInv, mode = "off", Idle, NEW h \in Params
               PROVE  hostHas[h] \/ (hostStale[h] /\ devHas[dptr[h]] = h)
    BY DEF FinalParams
  <2>1. CacheInv /\ pc = "idle"
    BY DEF GInv, Idle, Ready
  <2>2. h \in alive \ dropped /\ Pending = {} /\ AgreeBut(Unwritten \cup Unsettled)
    BY <2>1, IdleFacts DEF GContentInv, StepArrays, ContentsInv, Launching
  <2>3. Agrees(h)
    BY <2>2 DEF AgreeBut, Unwritten, Unsettled
  <2> QED
    BY <2>3 DEF Agrees
<1> QED
  BY <1>1, FitContentInvariant, PTL
=============================================================================
