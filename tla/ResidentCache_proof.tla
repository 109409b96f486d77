-------------------------- MODULE ResidentCache_proof --------------------------
(***************************************************************************)
(* The device-residency cache for any arrays, kernels, limits and devices. *)
(*                                                                         *)
(* CacheInv is the inductive invariant of the bookkeeping: who owns which  *)
(* buffer, what _entries and _defBytes say, where the running call stands. *)
(* It needs the invariant of the pool under it (a pointer acquire returns  *)
(* was nobody's because the pool's own lists and sizes say so), and gives  *)
(* in return that every step is a step of the pool: each is proved along   *)
(* with the other.  Steps are those of CacheNext, which has the recording  *)
(* of a launch too, and kernels any launch, so that the whole-step graphs  *)
(* can build on the lemmas.                                                *)
(*                                                                         *)
(* The contents (Coherent, NotSpoilt, NoLostWrite) are kept only by calls  *)
(* that cannot evict what they have gathered; GathersSafely says which.    *)
(***************************************************************************)
EXTENDS ResidentCacheProps, DevicePool_proof

Residents == { h \in Host : dptr[h] # None }

Launching == {"scratch", "arg", "clean", "dirty", "create", "launch", "release"}

\* The cache's steps but for host accesses and launches that throw, and with
\* them.
CallStep ==
    \/ \E k : IsLaunch(k) /\ Launch(k)
    \/ AcquireScratch \/ ArgResident \/ ArgMissing \/ CreateEntry
    \/ EvictStep \/ EvictPassEnds
    \/ RunKernel \/ RecordKernel \/ ReleaseScratch
    \/ \E kind \in {"flush", "releaseAll"} : StartWalk(kind)
    \/ FlushStep \/ ReleaseAllStep \/ WalkEnds
    \/ \E h \in Host : Collect(h) \/ Finalize(h) \/ NewArray(h)
    \/ PoolStep

CacheNext == CallStep \/ GatherFails \/ \E h \in Host, write \in BOOLEAN : HostAccess(h, write)

\* Every variable but late: a callback that comes late changes none of them.
cacheVars == << poolVars, dptr, deviceFresh, hostStale, lru, defBytes, pinned, captureVars, alive,
                dataVars, callVars, ghosts >>

-----------------------------------------------------------------------------
(* The inductive invariant.                                                 *)

\* The types of the variables, for any kernel and any place in a call.
CacheTypes ==
    /\ dptr \in [Host -> Ptr \cup {None}]
    /\ deviceFresh \in [Host -> BOOLEAN] /\ hostStale \in [Host -> BOOLEAN]
    /\ lru \in Seq(Host) /\ scan \in Seq(Host)
    /\ defBytes \in Int
    /\ pinned \subseteq Host /\ capturePinned \subseteq Host /\ alive \subseteq Host
    /\ hostHas \in [Host -> BOOLEAN] /\ devHas \in [Ptr -> Host \cup {None}]
    /\ got \in Seq(Ptr)
    /\ scratchPtr \in Ptr \cup {None}
    /\ capturing \in BOOLEAN /\ spoilt \in BOOLEAN /\ lost \subseteq Ptr /\ abandoned \subseteq Host

\* Where a call stands: how many pointers it has, whether it has a scratch
\* buffer, that the entry it makes room for is still missing, and that a loop
\* over _entries has only entries before it, each once.
CallInv ==
    /\ pc \in Launching => IsLaunch(kern)
    /\ pc \notin Launching => kern = NoKernel /\ got = << >> /\ scratchPtr = None
    /\ pc = "scratch" => got = << >> /\ scratchPtr = None
    /\ pc \in {"scratch", "arg", "clean", "dirty", "create"} => Len(got) < Len(kern.args)
    /\ pc = "launch" => Len(got) = Len(kern.args)
    /\ pc = "release" => scratchPtr # None
    /\ pc \in {"clean", "dirty", "create"} => dptr[Arg.host] = None

ScanInv ==
    pc \in {"clean", "dirty", "flush", "releaseAll"} =>
        Once(scan) /\ ToSet(scan) \subseteq Residents

\* Only reachable arrays are pinned or passed to the running launch.
PinInv == Pinned \subseteq alive /\ \A i \in DOMAIN kern.args : kern.args[i].host \in alive

\* The buffers: what EntryOwnership and NothingForgotten say.
BufferInv == EntryOwnership /\ NothingForgotten

CacheInv ==
    CacheTypes /\ CallInv /\ ScanInv /\ PinInv /\ BufferInv /\ CacheAccounting

-----------------------------------------------------------------------------
(* What the pool's operations do to the holders.                            *)

\* What callers hold, of the invariant of the pool.
LEMMA HeldType == PoolInv => held \in [Ptr -> Bytes \cup {0}]
  BY DEF PoolInv, OwnershipInv, MapTypeOK

\* A pointer that acquire returns was nobody's.
LEMMA AcquireEffect ==
    ASSUME PoolInv, NEW b \in Bytes, NEW p \in Ptr, Acquire(b, p)
    PROVE  held[p] = 0 /\ held' = [held EXCEPT ![p] = b] /\ Next
<1>0. sizeClass(b) \in Class /\ 0 \notin Class
  BY ClassPositive DEF Class
<1>1. /\ held \in [Ptr -> Bytes \cup {0}] /\ size \in [Ptr -> Class \cup {0}]
      /\ list \in [Class -> Seq(Ptr)]
      /\ \A c \in Class : \A q \in ToSet(list[c]) : size[q] = c /\ held[q] = 0
      /\ held[p] # 0 => size[p] = sizeClass(held[p]) /\ sizeClass(held[p]) # 0
  BY ClassPositive DEF PoolInv, OwnershipInv, MapTypeOK, Ownership, Class
<1>2. CASE AcquireFromPool(b, p)
  <2> DEFINE c == sizeClass(b)
  <2>1. list[c] \in Seq(Ptr) /\ list[c] # << >> /\ p = Last(list[c])
    BY <1>0, <1>1, <1>2 DEF AcquireFromPool
  <2>2. p \in ToSet(list[c])
    BY <2>1, FrontOfList
  <2> QED
    BY <1>0, <1>1, <1>2, <2>2 DEF AcquireFromPool, HandOut, Next, Acquire
<1>3. CASE AcquireFromDriver(b, p)
  BY <1>0, <1>1, <1>3 DEF AcquireFromDriver, HandOut, Next, Acquire, Grants
<1>4. CASE AcquireAfterDrain(b, p)
  <2>1. Drained[p] = 0
    BY <1>4 DEF AcquireAfterDrain, Grants
  <2>2. held[p] = 0
    BY <1>1, <2>1 DEF Drained, Pooled
  <2> QED
    BY <1>4, <2>2 DEF AcquireAfterDrain, HandOut, Next, Acquire
<1> QED
  BY <1>2, <1>3, <1>4 DEF Acquire

\* Releasing a pointer makes it nobody's.
LEMMA ReleaseEffect ==
    ASSUME NEW p \in Ptr, Release(p)
    PROVE  held' = [held EXCEPT ![p] = 0] /\ Next
  BY DEF Release, Next

\* An acquire that fails changes no holder.
LEMMA FailEffect ==
    ASSUME NEW b \in Bytes, AcquireFails(b)
    PROVE  held' = held /\ Next
  BY DEF AcquireFails, Next

\* Nor do the steps the pool takes for others.
LEMMA PoolStepEffect == PoolStep => held' = held /\ Next
  BY DEF PoolStep, TrimStep, drainPool, Next

-----------------------------------------------------------------------------
(* Dropping an entry.                                                       *)

\* Sizes and null values, of the assumptions on the constants.
LEMMA ByteFacts ==
    /\ \A h \in Host : byteLength[h] \in Bytes /\ byteLength[h] \in Nat /\ byteLength[h] # 0
    /\ ScratchBytes \in Bytes /\ ScratchBytes # 0 /\ 0 \notin Bytes
    /\ None \notin Ptr /\ None \notin Host
  BY HostAssumption, BytesAssumption

\* The empty list is a list of anything.
LEMMA EmptySeq == \A S : << >> \in Seq(S)
  OBVIOUS

\* The arguments of a launch.
LEMMA LaunchArgs ==
    ASSUME NEW k, IsLaunch(k)
    PROVE  /\ DOMAIN k.args = 1..Len(k.args) /\ Len(k.args) \in Nat \ {0}
           /\ \A i \in DOMAIN k.args : k.args[i].host \in Host /\ k.args[i].role \in Roles
           /\ \A i \in DOMAIN k.args : k.args[i] = [host |-> k.args[i].host, role |-> k.args[i].role]
<1> DEFINE S == [host : Host, role : Roles]
           s == k.args
<1>1. s \in Seq(S) /\ s # << >>
  BY DEF IsLaunch
<1> HIDE DEF s, S
<1>2. DOMAIN s = 1..Len(s) /\ Len(s) \in Nat \ {0} /\ \A i \in DOMAIN s : s[i] \in S
  BY <1>1
<1>3. \A x \in S : x.host \in Host /\ x.role \in Roles /\ x = [host |-> x.host, role |-> x.role]
  BY DEF S
<1> QED
  BY <1>2, <1>3 DEF s

\* The argument a call is at.
LEMMA ArgType ==
    ASSUME IsLaunch(kern), got \in Seq(Ptr), Len(got) < Len(kern.args)
    PROVE  /\ Len(got) + 1 \in DOMAIN kern.args
           /\ Arg.host \in Host /\ Arg.role \in Roles
<1> DEFINE S == [host : Host, role : Roles]
           s == kern.args
           n == Len(got)
<1>1. s \in Seq(S) /\ n \in Nat /\ n < Len(s)
  BY DEF IsLaunch
<1> HIDE DEF s, n, S
<1>2. n + 1 \in DOMAIN s /\ s[n + 1] \in S
  BY <1>1
<1>3. Arg = s[n + 1]
  BY DEF Arg, s, n
<1> QED
  BY <1>2, <1>3 DEF S, s, n

\* The bytes of the entries d.
EntrySum(d) == SumFunction([h \in Host |-> IF d[h] = None THEN 0 ELSE byteLength[h]])

\* The sum when one entry comes, goes or stays.
LEMMA EntrySumMoves ==
    ASSUME NEW d \in [Host -> Ptr \cup {None}], NEW h \in Host, NEW p \in Ptr \cup {None}
    PROVE  /\ EntrySum(d) \in Int
           /\ EntrySum([d EXCEPT ![h] = p]) =
                EntrySum(d) - (IF d[h] = None THEN 0 ELSE byteLength[h])
                            + (IF p = None THEN 0 ELSE byteLength[h])
<1> DEFINE e == [d EXCEPT ![h] = p]
           f == [g \in Host |-> IF d[g] = None THEN 0 ELSE byteLength[g]]
           k == [g \in Host |-> IF e[g] = None THEN 0 ELSE byteLength[g]]
<1>1. f \in [Host -> Int] /\ k \in [Host -> Int]
  BY ByteFacts
<1>2. \A g \in Host : g # h => k[g] = f[g]
  OBVIOUS
<1>3. f[h] = (IF d[h] = None THEN 0 ELSE byteLength[h]) /\ k[h] = (IF p = None THEN 0 ELSE byteLength[h])
  OBVIOUS
<1>4. EntrySum(d) = SumFunction(f) /\ EntrySum(e) = SumFunction(k)
  BY DEF EntrySum
<1> HIDE DEF f, k, e
<1>5. SumFunction(f) \in Int /\ SumFunction(k) = SumFunction(f) - f[h] + k[h]
  BY <1>1, <1>2, HostAssumption, SumChange, SumType
<1> QED
  BY <1>3, <1>4, <1>5 DEF e

\* The two ways the specifications say that a list has no duplicates.
LEMMA InjectiveIsOnce ==
    ASSUME NEW S, NEW s \in Seq(S)
    PROVE  IsInjective(s) <=> Once(s)
  BY DEF IsInjective, Once

\* CacheAccounting in terms of Residents and EntrySum.
LEMMA AccountingMeaning ==
    ASSUME lru \in Seq(Host)
    PROVE  CacheAccounting <=>
             ToSet(lru) = Residents /\ Once(lru) /\ defBytes = EntrySum(dptr)
  BY InjectiveIsOnce DEF CacheAccounting, Residents, EntrySum

\* The same of the next state.
LEMMA AccountingMeaningNext ==
    ASSUME lru' \in Seq(Host)
    PROVE  CacheAccounting' <=>
             ToSet(lru') = Residents' /\ Once(lru') /\ defBytes' = EntrySum(dptr')
<1>1. IsInjective(lru') <=> Once(lru')
  BY InjectiveIsOnce
<1> QED
  BY <1>1 DEF CacheAccounting, Residents, EntrySum

\* Freeing an entry: its buffer goes back, its bytes are no longer counted.
LEMMA FreeEffect ==
    ASSUME PoolInv, CacheInv, NEW h \in Residents, NEW wb \in BOOLEAN,
           ReclaimEntry(h, wb), scratchPtr' = scratchPtr, lost' = lost
    PROVE  /\ Next
           /\ dptr' = [dptr EXCEPT ![h] = None]
           /\ Residents' = Residents \ {h}
           /\ BufferInv' /\ CacheAccounting'
           /\ lru' \in Seq(Host) /\ defBytes' \in Int
<1>1. /\ h \in Host /\ dptr[h] \in Ptr /\ dptr \in [Host -> Ptr \cup {None}]
      /\ lru \in Seq(Host) /\ defBytes \in Int
      /\ held \in [Ptr -> Bytes \cup {0}]
      /\ scratchPtr \in Ptr \cup {None} /\ lost \subseteq Ptr /\ abandoned \subseteq Host
  BY HeldType DEF Residents, CacheInv, CacheTypes
<1>2. held' = [held EXCEPT ![dptr[h]] = 0] /\ Next
  BY <1>1, ReleaseEffect DEF ReclaimEntry
<1>3. dptr' = [dptr EXCEPT ![h] = None] /\ Residents' = Residents \ {h}
  BY <1>1 DEF ReclaimEntry, Residents
<1>4. EntryOwnership'
  BY <1>1, <1>2, <1>3, ByteFacts DEF CacheInv, BufferInv, EntryOwnership
<1>5. NothingForgotten'
  BY <1>1, <1>2, <1>3 DEF CacheInv, BufferInv, NothingForgotten
<1>6. ToSet(lru) = Residents /\ Once(lru) /\ defBytes = EntrySum(dptr)
  BY <1>1, AccountingMeaning DEF CacheInv
<1>7. lru' \in Seq(Host) /\ Once(lru') /\ ToSet(lru') = ToSet(lru) \ {h}
  BY <1>1, <1>6, WithoutEntry DEF ReclaimEntry
<1>8. defBytes' = EntrySum(dptr') /\ defBytes' \in Int
  <2>0. dptr[h] # None /\ None \in Ptr \cup {None}
    BY DEF Residents
  <2>1. /\ EntrySum(dptr) \in Int
        /\ EntrySum([dptr EXCEPT ![h] = None]) =
             EntrySum(dptr) - (IF dptr[h] = None THEN 0 ELSE byteLength[h])
                            + (IF None = None THEN 0 ELSE byteLength[h])
    BY <1>1, <2>0, EntrySumMoves
  <2>2. EntrySum(dptr') = EntrySum(dptr) - byteLength[h]
    BY <1>1, <1>3, <2>0, <2>1, ByteFacts
  <2> QED
    BY <1>1, <1>6, <2>1, <2>2, ByteFacts DEF ReclaimEntry
<1> QED
  BY <1>2, <1>3, <1>4, <1>5, <1>6, <1>7, <1>8, AccountingMeaningNext DEF BufferInv

-----------------------------------------------------------------------------
(* The buffers and the counters, step by step.                              *)

BuffersKept ==
    /\ held' = held /\ dptr' = dptr /\ scratchPtr' = scratchPtr /\ lost' = lost
    /\ lru' = lru /\ defBytes' = defBytes

BufferStep == [Next]_poolVars /\ BufferInv' /\ CacheAccounting' /\ lru' \in Seq(Host) /\ defBytes' \in Int

\* A step that moves no buffer, no entry and no byte.
LEMMA KeepEffect ==
    ASSUME CacheInv, BuffersKept, [Next]_poolVars
    PROVE  BufferStep
  BY DEF CacheInv, CacheTypes, BuffersKept, BufferStep, BufferInv, EntryOwnership,
         NothingForgotten, CacheAccounting

\* A new entry: acquire returns a buffer that nobody held.
LEMMA CreateStep ==
    ASSUME PoolInv, CacheInv, CreateEntry
    PROVE  BufferStep
<1> DEFINE h == Arg.host
<1>1. /\ pc = "create" /\ IsLaunch(kern) /\ Len(got) < Len(kern.args) /\ dptr[h] = None
      /\ got \in Seq(Ptr)
  BY DEF CreateEntry, Ready, CacheInv, CallInv, CacheTypes, Launching
<1>2. h \in Host
  BY <1>1, ArgType
<1>3. /\ dptr \in [Host -> Ptr \cup {None}]
      /\ lru \in Seq(Host) /\ defBytes \in Int
      /\ held \in [Ptr -> Bytes \cup {0}]
      /\ scratchPtr \in Ptr \cup {None} /\ lost \subseteq Ptr /\ abandoned \subseteq Host
  BY HeldType DEF CacheInv, CacheTypes
<1>4. PICK p \in Ptr : /\ Acquire(byteLength[h], p)
                       /\ dptr' = [dptr EXCEPT ![h] = p]
                       /\ Use(h, Arg.role, p, FALSE, FALSE)
  BY DEF CreateEntry
<1>5. scratchPtr' = scratchPtr /\ lost' = lost
  BY <1>4 DEF Use, ghosts
<1>6. lru' = Append(lru, h) /\ defBytes' = defBytes + byteLength[h]
  BY DEF CreateEntry
<1> HIDE DEF h
<1>7. held[p] = 0 /\ held' = [held EXCEPT ![p] = byteLength[h]] /\ Next
  BY <1>2, <1>4, ByteFacts, AcquireEffect
<1>8. EntryOwnership'
  BY <1>1, <1>2, <1>3, <1>4, <1>5, <1>7, ByteFacts DEF CacheInv, BufferInv, EntryOwnership
<1>9. NothingForgotten'
  BY <1>1, <1>2, <1>3, <1>4, <1>5, <1>7, ByteFacts DEF CacheInv, BufferInv, NothingForgotten
<1>10. ToSet(lru) = Residents /\ Once(lru) /\ defBytes = EntrySum(dptr)
  BY <1>3, AccountingMeaning DEF CacheInv
<1>11. lru' \in Seq(Host) /\ Once(lru') /\ ToSet(lru') = ToSet(lru) \cup {h}
  <2>1. h \notin ToSet(lru)
    BY <1>1, <1>10 DEF Residents, h
  <2> QED
    BY <1>2, <1>3, <1>6, <1>10, <2>1, AppendToList
<1>12. Residents' = Residents \cup {h}
  BY <1>2, <1>3, <1>4, ByteFacts DEF Residents
<1>13. defBytes' = EntrySum(dptr') /\ defBytes' \in Int
  <2>1. /\ EntrySum(dptr) \in Int
        /\ EntrySum([dptr EXCEPT ![h] = p]) =
             EntrySum(dptr) - (IF dptr[h] = None THEN 0 ELSE byteLength[h])
                            + (IF p = None THEN 0 ELSE byteLength[h])
    BY <1>2, <1>3, EntrySumMoves
  <2>2. dptr[h] = None /\ p # None
    BY <1>1, ByteFacts DEF h
  <2> QED
    BY <1>2, <1>3, <1>4, <1>6, <1>10, <2>1, <2>2, ByteFacts
<1> QED
  BY <1>7, <1>8, <1>9, <1>10, <1>11, <1>12, <1>13, AccountingMeaningNext DEF BufferInv, BufferStep

\* The launch's own scratch buffer, taken, given back or lost when a gather fails.
LEMMA ScratchStep ==
    ASSUME PoolInv, CacheInv, AcquireScratch \/ ReleaseScratch \/ GatherFails
    PROVE  BufferStep
<1>1. /\ dptr \in [Host -> Ptr \cup {None}]
      /\ lru \in Seq(Host) /\ defBytes \in Int
      /\ held \in [Ptr -> Bytes \cup {0}]
      /\ scratchPtr \in Ptr \cup {None} /\ lost \subseteq Ptr /\ abandoned \subseteq Host
      /\ CallInv
  BY HeldType DEF CacheInv, CacheTypes
<1>2. CASE AcquireScratch
  <2>1. PICK p \in Ptr : Acquire(ScratchBytes, p) /\ scratchPtr' = p
    BY <1>2 DEF AcquireScratch
  <2>2. held[p] = 0 /\ held' = [held EXCEPT ![p] = ScratchBytes] /\ Next
    BY <2>1, ByteFacts, AcquireEffect
  <2>3. scratchPtr = None /\ UNCHANGED << entryVars, ghosts >>
    BY <1>1, <1>2 DEF AcquireScratch, Ready, CallInv
  <2>4. EntryOwnership' /\ NothingForgotten'
    BY <1>1, <2>1, <2>2, <2>3, ByteFacts
       DEF CacheInv, BufferInv, EntryOwnership, NothingForgotten, entryVars, ghosts
  <2> QED
    BY <1>1, <2>2, <2>3, <2>4 DEF BufferStep, BufferInv, CacheInv, CacheAccounting, entryVars
<1>3. CASE ReleaseScratch
  <2>1. scratchPtr \in Ptr
    BY <1>1, <1>3 DEF ReleaseScratch, Ready, CallInv
  <2>2. held' = [held EXCEPT ![scratchPtr] = 0] /\ Next
    BY <1>3, <2>1, ReleaseEffect DEF ReleaseScratch
  <2>3. scratchPtr' = None /\ UNCHANGED << entryVars, ghosts >>
    BY <1>3 DEF ReleaseScratch
  <2>4. EntryOwnership' /\ NothingForgotten'
    BY <1>1, <2>1, <2>2, <2>3, ByteFacts
       DEF CacheInv, BufferInv, EntryOwnership, NothingForgotten, entryVars, ghosts
  <2> QED
    BY <1>1, <2>2, <2>3, <2>4 DEF BufferStep, BufferInv, CacheInv, CacheAccounting, entryVars
<1>4. CASE GatherFails
  <2>1. held' = held /\ Next
    <3>1. CASE AcquireFails(ScratchBytes)
      BY <3>1, ByteFacts, FailEffect
    <3>2. CASE Ready("create") /\ AcquireFails(byteLength[Arg.host])
      <4>1. IsLaunch(kern) /\ got \in Seq(Ptr) /\ Len(got) < Len(kern.args)
        BY <1>1, <3>2 DEF CacheInv, CacheTypes, CallInv, Ready, Launching
      <4> QED
        BY <3>2, <4>1, ArgType, ByteFacts, FailEffect
    <3> QED
      BY <1>4, <3>1, <3>2 DEF GatherFails
  <2>2. scratchPtr' = None /\ lost' = lost \cup ({scratchPtr} \ {None}) /\ UNCHANGED entryVars
    BY <1>4 DEF GatherFails
  <2>3. EntryOwnership' /\ NothingForgotten'
    BY <1>1, <2>1, <2>2, ByteFacts
       DEF CacheInv, BufferInv, EntryOwnership, NothingForgotten, entryVars
  <2> QED
    BY <1>1, <2>1, <2>2, <2>3 DEF BufferStep, BufferInv, CacheInv, CacheAccounting, entryVars
<1> QED
  BY <1>2, <1>3, <1>4

\* Using an entry moves it to the newest end of _entries.
LEMMA TouchStep ==
    ASSUME PoolInv, CacheInv, ArgResident
    PROVE  BufferStep
<1> DEFINE h == Arg.host
<1>1. /\ dptr \in [Host -> Ptr \cup {None}] /\ lru \in Seq(Host) /\ defBytes \in Int
      /\ Len(got) < Len(kern.args) /\ got \in Seq(Ptr) /\ IsLaunch(kern)
  BY DEF ArgResident, Ready, CacheInv, CacheTypes, CallInv, Launching
<1>2. h \in Host
  BY <1>1, ArgType
<1>3. h \in Residents /\ lru' = Append(Without(lru, h), h) /\ held' = held /\ UNCHANGED poolVars
  BY <1>2 DEF ArgResident, Residents, Resident, poolVars
<1>4. dptr' = dptr /\ defBytes' = defBytes /\ scratchPtr' = scratchPtr /\ lost' = lost
  BY DEF ArgResident, Use, ghosts
<1> HIDE DEF h
<1>5. ToSet(lru) = Residents /\ Once(lru) /\ defBytes = EntrySum(dptr)
  BY <1>1, AccountingMeaning DEF CacheInv
<1>6. ToSet(lru') = Residents /\ Once(lru')
  <2>1. /\ ToSet(Append(Without(lru, h), h)) = ToSet(lru) \cup {h}
        /\ Once(Append(Without(lru, h), h))
    BY <1>1, <1>2, <1>5, TouchOrder
  <2> QED
    BY <1>3, <1>5, <2>1
<1>7. lru' \in Seq(Host)
  BY <1>1, <1>2, <1>3, WithoutType, AppendToList
<1>8. CacheAccounting'
  BY <1>4, <1>5, <1>6, <1>7, AccountingMeaningNext DEF Residents
<1>9. BufferInv'
  BY <1>3, <1>4 DEF CacheInv, BufferInv, EntryOwnership, NothingForgotten
<1> QED
  BY <1>1, <1>3, <1>4, <1>7, <1>8, <1>9 DEF BufferStep

\* The steps that drop an entry.
Drops(h, wb) == ReclaimEntry(h, wb) /\ scratchPtr' = scratchPtr /\ lost' = lost

\* Dropping one.
LEMMA DropIsBufferStep ==
    ASSUME PoolInv, CacheInv, NEW h \in Residents, NEW wb \in BOOLEAN, Drops(h, wb)
    PROVE  BufferStep
  BY FreeEffect DEF Drops, BufferStep

\* A loop over _entries is at an entry.
LEMMA ScanHead ==
    ASSUME CacheInv, pc \in {"clean", "dirty", "flush", "releaseAll"}, scan # << >>
    PROVE  /\ Head(scan) \in Residents /\ Head(scan) \in Host
           /\ Tail(scan) \in Seq(Host) /\ Once(Tail(scan))
           /\ ToSet(scan) = ToSet(Tail(scan)) \cup {Head(scan)}
           /\ Head(scan) \notin ToSet(Tail(scan))
<1>1. scan \in Seq(Host) /\ Once(scan) /\ ToSet(scan) \subseteq Residents
  BY DEF CacheInv, CacheTypes, ScanInv
<1>2. /\ Tail(scan) \in Seq(Host) /\ Once(Tail(scan))
      /\ ToSet(scan) = ToSet(Tail(scan)) \cup {Head(scan)}
  BY <1>1, DropOldest
<1>3. Head(scan) \notin ToSet(Tail(scan))
  <2>1. /\ Len(scan) \in Nat \ {0} /\ Len(Tail(scan)) = Len(scan) - 1 /\ Head(scan) = scan[1]
        /\ \A i \in 1..Len(Tail(scan)) : Tail(scan)[i] = scan[i + 1]
    BY <1>1
  <2> QED
    BY <2>1, <1>1 DEF ToSet, Once
<1> QED
  BY <1>1, <1>2, <1>3 DEF Residents

\* Every step either drops one entry, or makes or uses buffers otherwise.
LEMMA DroppingSteps ==
    ASSUME CacheInv, EvictStep \/ FlushStep \/ ReleaseAllStep \/ (\E h \in Host : Finalize(h))
    PROVE  \/ BuffersKept /\ UNCHANGED poolVars
           \/ \E h \in Residents, wb \in BOOLEAN : Drops(h, wb)
<1>1. ASSUME NEW h \in Host, Finalize(h)
      PROVE  \E g \in Residents, wb \in BOOLEAN : Drops(g, wb)
  BY <1>1 DEF Finalize, Resident, Residents, Drops, callVars, ghosts
<1>2. CASE EvictStep
  <2>1. Head(scan) \in Residents
    BY <1>2, ScanHead DEF EvictStep, Ready
  <2>2. scratchPtr' = scratchPtr /\ lost' = lost
    BY <1>2 DEF EvictStep, ghosts
  <2>3. \/ ReclaimEntry(Head(scan), FALSE) \/ ReclaimEntry(Head(scan), TRUE) \/ ReclaimEntry(Head(scan), pc = "dirty")
        \/ KeepEntries
    BY <1>2 DEF FreeEntry, EvictStep
  <2>4. (pc = "dirty") \in BOOLEAN
    OBVIOUS
  <2> QED
    BY <2>1, <2>2, <2>3, <2>4 DEF Drops, KeepEntries, BuffersKept, entryVars, poolVars
<1>3. CASE FlushStep
  <2>1. Head(scan) \in Residents
    BY <1>3, ScanHead DEF FlushStep, Ready
  <2>2. scratchPtr' = scratchPtr /\ lost' = lost
    BY <1>3 DEF FlushStep, ghosts
  <2>3. ReclaimEntry(Head(scan), FALSE) \/ KeepEntries
    BY <1>3 DEF FreeEntry, FlushStep
  <2> QED
    BY <2>1, <2>2, <2>3 DEF Drops, KeepEntries, BuffersKept, entryVars, poolVars
<1>4. CASE ReleaseAllStep
  <2>1. Head(scan) \in Residents
    BY <1>4, ScanHead DEF ReleaseAllStep, Ready
  <2> QED
    BY <1>4, <2>1 DEF FreeEntry, ReleaseAllStep, Drops, ghosts
<1> QED
  BY <1>1, <1>2, <1>3, <1>4

\* Every step keeps who owns which buffer.
LEMMA BufferSteps ==
    ASSUME PoolInv, CacheInv, [CacheNext]_cacheVars
    PROVE  BufferStep
<1>1. ASSUME BuffersKept, UNCHANGED poolVars PROVE BufferStep
  BY <1>1, KeepEffect
<1>2. CASE EvictStep \/ FlushStep \/ ReleaseAllStep \/ (\E h \in Host : Finalize(h))
  BY <1>1, <1>2, DroppingSteps, DropIsBufferStep
<1>3. CASE AcquireScratch \/ ReleaseScratch \/ GatherFails
  BY <1>3, ScratchStep
<1>4. CASE PoolStep
  <2>1. BuffersKept /\ Next
    BY <1>4, PoolStepEffect DEF PoolStep, BuffersKept, entryVars, callVars, ghosts
  <2> QED
    BY <2>1, KeepEffect
<1>5. CASE \/ \E k : Launch(k)
           \/ ArgMissing \/ EvictPassEnds \/ RunKernel \/ RecordKernel \/ WalkEnds
           \/ \E h \in Host, write \in BOOLEAN : HostAccess(h, write)
           \/ \E kind \in {"flush", "releaseAll"} : StartWalk(kind)
           \/ \E h \in Host : Collect(h) \/ NewArray(h)
           \/ UNCHANGED cacheVars
  <2> SUFFICES BuffersKept /\ UNCHANGED poolVars
    BY <1>1
  <2>1. CASE \E k : Launch(k)
    BY <2>1 DEF BuffersKept, poolVars, Launch, entryVars, ghosts
  <2>2. CASE ArgMissing \/ EvictPassEnds \/ WalkEnds
    BY <2>2 DEF BuffersKept, poolVars, ArgMissing, EvictPassEnds, WalkEnds, entryVars, ghosts
  <2>3. CASE RunKernel \/ RecordKernel
    BY <2>3 DEF BuffersKept, poolVars, RunKernel, RecordKernel, entryVars, ghosts
  <2>4. CASE \E h \in Host, write \in BOOLEAN : HostAccess(h, write)
    BY <2>4 DEF BuffersKept, poolVars, HostAccess, callVars, ghosts
  <2>5. CASE \E kind \in {"flush", "releaseAll"} : StartWalk(kind)
    BY <2>5 DEF BuffersKept, poolVars, StartWalk, entryVars, ghosts
  <2>6. CASE \E h \in Host : Collect(h) \/ NewArray(h)
    BY <2>6 DEF BuffersKept, poolVars, Collect, NewArray, entryVars, callVars, ghosts
  <2>7. CASE UNCHANGED cacheVars
    BY <2>7 DEF BuffersKept, poolVars, cacheVars, entryVars, callVars, ghosts
  <2> QED
    BY <1>5, <2>1, <2>2, <2>3, <2>4, <2>5, <2>6, <2>7
<1> QED
  BY <1>2, <1>3, <1>4, <1>5, CreateStep, TouchStep DEF CacheNext, CallStep

-----------------------------------------------------------------------------
(* The types.                                                               *)

\* The types that taking a buffer can change.
LEMMA UseTypes ==
    ASSUME CacheTypes, NEW h \in Host, NEW role, NEW p \in Ptr,
           NEW fresh \in BOOLEAN, NEW stale \in BOOLEAN,
           Use(h, role, p, fresh, stale)
    PROVE  /\ deviceFresh' \in [Host -> BOOLEAN] /\ hostStale' \in [Host -> BOOLEAN]
           /\ devHas' \in [Ptr -> Host \cup {None}] /\ hostHas' = hostHas
           /\ capturePinned' \subseteq Host /\ capturing' = capturing
           /\ got' \in Seq(Ptr) /\ kern' = kern /\ scratchPtr' = scratchPtr
           /\ alive' = alive /\ spoilt' = spoilt /\ lost' = lost /\ abandoned' = abandoned
<1>1. got' \in Seq(Ptr)
  BY DEF Use, CacheTypes
<1>2. deviceFresh' \in [Host -> BOOLEAN] /\ hostStale' \in [Host -> BOOLEAN]
  BY DEF Use, CacheTypes
<1>3. devHas' \in [Ptr -> Host \cup {None}]
  BY DEF Use, CacheTypes
<1> QED
  BY <1>1, <1>2, <1>3 DEF Use, CacheTypes, ghosts

\* Those that dropping an entry can.
LEMMA DropTypes ==
    ASSUME CacheTypes, NEW h \in Host, NEW wb \in BOOLEAN, ReclaimEntry(h, wb)
    PROVE  /\ dptr' \in [Host -> Ptr \cup {None}]
           /\ deviceFresh' \in [Host -> BOOLEAN] /\ hostStale' \in [Host -> BOOLEAN]
           /\ hostHas' \in [Host -> BOOLEAN] /\ devHas' \in [Ptr -> Host \cup {None}]
<1>1. dptr' \in [Host -> Ptr \cup {None}]
  BY DEF ReclaimEntry, CacheTypes
<1>2. deviceFresh' \in [Host -> BOOLEAN] /\ hostStale' \in [Host -> BOOLEAN]
  BY DEF ReclaimEntry, CacheTypes
<1>3. devHas' \in [Ptr -> Host \cup {None}]
  BY DEF ReclaimEntry, CacheTypes
<1>4. hostHas' \in [Host -> BOOLEAN]
  <2>1. (wb => devHas[dptr[h]] = h) \in BOOLEAN
    OBVIOUS
  <2> QED
    BY <2>1, Zenon DEF ReclaimEntry, CacheTypes
<1> QED
  BY <1>1, <1>2, <1>3, <1>4

\* Those that a kernel can.
LEMMA KernelTypes ==
    ASSUME CacheTypes, IsLaunch(kern), NEW scr, KernelEffect(kern, got, scr)
    PROVE  hostHas' \in [Host -> BOOLEAN] /\ devHas' \in [Ptr -> Host \cup {None}]
<1>1. hostHas' \in [Host -> BOOLEAN]
  <2>1. \A h \in Host : (hostHas[h] /\ h \notin { kern.args[i].host : i \in Writes(kern) }) \in BOOLEAN
    OBVIOUS
  <2> QED
    BY <2>1, Zenon DEF KernelEffect
<1>2. devHas' \in [Ptr -> Host \cup {None}]
  <2>1. \A i \in DOMAIN kern.args : kern.args[i].host \in Host
    BY LaunchArgs
  <2>2. ASSUME NEW p \in Ptr, p \in { got[i] : i \in Writes(kern) }
        PROVE  kern.args[CHOOSE i \in Writes(kern) : got[i] = p].host \in Host
    <3>1. \E i \in Writes(kern) : got[i] = p
      BY <2>2
    <3>2. (CHOOSE i \in Writes(kern) : got[i] = p) \in Writes(kern)
      BY <3>1
    <3> QED
      BY <2>1, <3>2 DEF Writes
  <2> QED
    BY <2>2 DEF KernelEffect, CacheTypes
<1> QED
  BY <1>1, <1>2

\* Each step keeps the types.
LEMMA TypeSteps ==
    ASSUME PoolInv, CacheInv, [CacheNext]_cacheVars
    PROVE  CacheTypes'
<1>0. lru' \in Seq(Host) /\ defBytes' \in Int
  BY BufferSteps DEF BufferStep
<1>1. CacheTypes /\ CallInv /\ ScanInv
  BY DEF CacheInv
<1>2. ASSUME NEW k, IsLaunch(k), Launch(k) PROVE CacheTypes'
  <2>1. k.pins \subseteq Host
    <3>1. \A i \in DOMAIN k.args : k.args[i].host \in Host
      BY <1>2, LaunchArgs
    <3>2. k.pins \subseteq { k.args[i].host : i \in DOMAIN k.args }
      BY <1>2 DEF IsLaunch
    <3> QED
      BY <3>1, <3>2, EmptySeq, Zenon
  <2> QED
    BY <1>0, <1>1, <1>2, <2>1
       DEF CacheTypes, Launch, entryVars, captureVars, dataVars, ghosts
<1>3. ASSUME AcquireScratch PROVE CacheTypes'
  BY <1>0, <1>1, <1>3 DEF CacheTypes, AcquireScratch, entryVars, captureVars, dataVars, ghosts
<1>4. ASSUME ArgResident PROVE CacheTypes'
  <2>1. IsLaunch(kern) /\ Arg.host \in Host /\ dptr[Arg.host] \in Ptr
    <3>1. IsLaunch(kern) /\ got \in Seq(Ptr) /\ Len(got) < Len(kern.args)
      BY <1>1, <1>4 DEF CacheTypes, CallInv, ArgResident, Ready, Launching
    <3> QED
      BY <1>1, <1>4, <3>1, ArgType DEF CacheTypes, ArgResident, Resident
  <2>2. deviceFresh[Arg.host] \in BOOLEAN /\ hostStale[Arg.host] \in BOOLEAN
    BY <1>1, <2>1 DEF CacheTypes
  <2>3. /\ deviceFresh' \in [Host -> BOOLEAN] /\ hostStale' \in [Host -> BOOLEAN]
        /\ devHas' \in [Ptr -> Host \cup {None}] /\ hostHas' = hostHas
        /\ capturePinned' \subseteq Host /\ capturing' = capturing
        /\ got' \in Seq(Ptr) /\ kern' = kern /\ scratchPtr' = scratchPtr
        /\ alive' = alive /\ spoilt' = spoilt /\ lost' = lost /\ abandoned' = abandoned
    BY <1>1, <1>4, <2>1, <2>2, UseTypes DEF ArgResident
  <2> QED
    BY <1>0, <1>1, <1>4, <2>3 DEF CacheTypes, ArgResident
<1>5. ASSUME CreateEntry PROVE CacheTypes'
  <2>1. IsLaunch(kern) /\ Arg.host \in Host
    <3>1. IsLaunch(kern) /\ got \in Seq(Ptr) /\ Len(got) < Len(kern.args)
      BY <1>1, <1>5 DEF CacheTypes, CallInv, CreateEntry, Ready, Launching
    <3> QED
      BY <3>1, ArgType
  <2>2. PICK p \in Ptr : dptr' = [dptr EXCEPT ![Arg.host] = p] /\ Use(Arg.host, Arg.role, p, FALSE, FALSE)
    BY <1>5 DEF CreateEntry
  <2>3. /\ deviceFresh' \in [Host -> BOOLEAN] /\ hostStale' \in [Host -> BOOLEAN]
        /\ devHas' \in [Ptr -> Host \cup {None}] /\ hostHas' = hostHas
        /\ capturePinned' \subseteq Host /\ capturing' = capturing
        /\ got' \in Seq(Ptr) /\ kern' = kern /\ scratchPtr' = scratchPtr
        /\ alive' = alive /\ spoilt' = spoilt /\ lost' = lost /\ abandoned' = abandoned
    BY <1>1, <2>1, <2>2, UseTypes
  <2>4. dptr' \in [Host -> Ptr \cup {None}]
    BY <1>1, <2>2 DEF CacheTypes
  <2> QED
    BY <1>0, <1>1, <1>5, <2>3, <2>4 DEF CacheTypes, CreateEntry
<1>6. ASSUME GatherFails PROVE CacheTypes'
  <2>1. \A i \in DOMAIN kern.args : kern.args[i].host \in Host
    BY <1>1, <1>6, LaunchArgs DEF GatherFails, Ready, CallInv, Launching
  <2>2. MarkedOutputs \subseteq Host
    <3>1. Len(got) <= Len(kern.args) /\ got \in Seq(Ptr)
      BY <1>1, <1>6 DEF GatherFails, Ready, CallInv, CacheTypes
    <3>2. IsLaunch(kern)
      BY <1>1, <1>6 DEF GatherFails, Ready, CallInv, Launching
    <3>3. \A i \in DOMAIN got : i \in DOMAIN kern.args
      BY <3>1, <3>2, LaunchArgs
    <3> QED
      BY <2>1, <3>3, Zenon DEF MarkedOutputs
  <2>3. (scratchPtr # None => scratchPtr \in Ptr) /\ << >> \in Seq(Ptr)
    BY <1>1 DEF CacheTypes
  <2> QED
    BY <1>0, <1>1, <1>6, <2>2, <2>3 DEF CacheTypes, GatherFails, entryVars, captureVars, dataVars
<1>7. ASSUME EvictStep \/ FlushStep \/ ReleaseAllStep PROVE CacheTypes'
  <2>1. Head(scan) \in Host /\ Tail(scan) \in Seq(Host) /\ CacheTypes
    BY <1>1, <1>7, ScanHead DEF EvictStep, FlushStep, ReleaseAllStep, Ready
  <2>2. \/ ReclaimEntry(Head(scan), FALSE) \/ ReclaimEntry(Head(scan), TRUE)
        \/ ReclaimEntry(Head(scan), pc = "dirty") \/ KeepEntries
    BY <1>7 DEF FreeEntry, EvictStep, FlushStep, ReleaseAllStep
  <2>3. /\ dptr' \in [Host -> Ptr \cup {None}]
        /\ deviceFresh' \in [Host -> BOOLEAN] /\ hostStale' \in [Host -> BOOLEAN]
        /\ hostHas' \in [Host -> BOOLEAN] /\ devHas' \in [Ptr -> Host \cup {None}]
    <3>1. CASE KeepEntries
      BY <1>1, <3>1 DEF CacheTypes, KeepEntries, entryVars, dataVars
    <3>2. (pc = "dirty") \in BOOLEAN
      OBVIOUS
    <3> QED
      BY <2>1, <2>2, <3>1, <3>2, DropTypes
  <2>4. UNCHANGED << pinned, captureVars, alive, pc, kern, got, scratchPtr, ghosts >> /\ scan' = Tail(scan)
    BY <1>7 DEF EvictStep, FlushStep, ReleaseAllStep
  <2> QED
    BY <1>0, <1>1, <2>1, <2>3, <2>4 DEF CacheTypes, captureVars, ghosts
<1>8. ASSUME RunKernel PROVE CacheTypes'
  <2>1. IsLaunch(kern) /\ got \in Seq(Ptr)
    BY <1>1, <1>8 DEF RunKernel, Ready, CacheTypes, CallInv, Launching
  <2>2. hostHas' \in [Host -> BOOLEAN] /\ devHas' \in [Ptr -> Host \cup {None}]
    BY <1>1, <1>8, <2>1, KernelTypes DEF RunKernel
  <2>3. spoilt' \in BOOLEAN
    BY <1>1, <1>8 DEF RunKernel, CacheTypes
  <2>4. got' \in Seq(Ptr)
    <3>1. got' = got \/ got' = << >>
      BY <1>8 DEF RunKernel, LaunchEnds
    <3> QED
      BY <2>1, <3>1, EmptySeq, Zenon
  <2> QED
    BY <1>0, <1>1, <1>8, <2>2, <2>3, <2>4 DEF CacheTypes, RunKernel, entryVars, captureVars
<1>9. ASSUME RecordKernel \/ ReleaseScratch PROVE CacheTypes'
  <2>1. got' \in Seq(Ptr)
    <3>1. got' = got \/ got' = << >>
      BY <1>9 DEF RecordKernel, ReleaseScratch, LaunchEnds
    <3>2. got \in Seq(Ptr)
      BY <1>1 DEF CacheTypes
    <3> QED
      BY <3>1, <3>2, EmptySeq, Zenon
  <2> QED
    BY <1>0, <1>1, <1>9, <2>1
       DEF CacheTypes, RecordKernel, ReleaseScratch, entryVars, captureVars, dataVars, ghosts
<1>10. ASSUME NEW h \in Host, NEW write \in BOOLEAN, HostAccess(h, write) PROVE CacheTypes'
  <2>1. deviceFresh' \in [Host -> BOOLEAN] /\ hostStale' \in [Host -> BOOLEAN]
    <3>1. (capturing /\ deviceFresh[h]) \in BOOLEAN
      OBVIOUS
    <3> QED
      BY <1>1, <1>10, <3>1, Zenon DEF HostAccess, AccessMarks, CacheTypes
  <2>2. hostHas' \in [Host -> BOOLEAN]
    <3> DEFINE v == \/ write
                    \/ IF hostStale[h] THEN devHas[dptr[h]] = h ELSE hostHas[h]
    <3>1. v \in BOOLEAN
      OBVIOUS
    <3>2. hostHas' = [hostHas EXCEPT ![h] = v]
      BY <1>10 DEF HostAccess
    <3> HIDE DEF v
    <3> QED
      BY <1>1, <3>1, <3>2 DEF CacheTypes
  <2>3. devHas' \in [Ptr -> Host \cup {None}]
    BY <1>1, <1>10 DEF HostAccess, CacheTypes
  <2> QED
    BY <1>0, <1>1, <1>10, <2>1, <2>2, <2>3 DEF CacheTypes, HostAccess, captureVars, callVars, ghosts
<1>11. ASSUME ArgMissing \/ EvictPassEnds \/ (\E kind \in {"flush", "releaseAll"} : StartWalk(kind))
       PROVE  CacheTypes'
  <2>1. scan' \in Seq(Host)
    <3>1. scan' = lru \/ scan' = << >>
      BY <1>11 DEF ArgMissing, EvictPassEnds, StartWalk
    <3>2. lru \in Seq(Host)
      BY <1>1 DEF CacheTypes
    <3> QED
      BY <3>1, <3>2, EmptySeq, Zenon
  <2>2. UNCHANGED << entryVars, pinned, captureVars, alive, dataVars, got, scratchPtr, ghosts >>
    BY <1>11 DEF ArgMissing, EvictPassEnds, StartWalk
  <2> QED
    BY <1>0, <1>1, <2>1, <2>2 DEF CacheTypes, entryVars, captureVars, dataVars, ghosts
<1>12. ASSUME WalkEnds PROVE CacheTypes'
  BY <1>0, <1>1, <1>12 DEF CacheTypes, WalkEnds, entryVars, dataVars, ghosts
<1>13. ASSUME NEW h \in Host, Collect(h) PROVE CacheTypes'
  BY <1>0, <1>1, <1>13 DEF CacheTypes, Collect, entryVars, dataVars, callVars, ghosts
<1>14. ASSUME NEW h \in Host, Finalize(h) PROVE CacheTypes'
  <2>1. /\ dptr' \in [Host -> Ptr \cup {None}]
        /\ deviceFresh' \in [Host -> BOOLEAN] /\ hostStale' \in [Host -> BOOLEAN]
        /\ hostHas' \in [Host -> BOOLEAN] /\ devHas' \in [Ptr -> Host \cup {None}]
    BY <1>1, <1>14, DropTypes DEF Finalize
  <2> QED
    BY <1>0, <1>1, <1>14, <2>1 DEF CacheTypes, Finalize, captureVars, callVars, ghosts
<1>15. ASSUME NEW h \in Host, NewArray(h) PROVE CacheTypes'
  BY <1>0, <1>1, <1>15 DEF CacheTypes, NewArray, entryVars, captureVars, callVars, ghosts
<1>16. ASSUME PoolStep \/ UNCHANGED cacheVars PROVE CacheTypes'
  BY <1>0, <1>1, <1>16
     DEF CacheTypes, PoolStep, cacheVars, entryVars, captureVars, dataVars, callVars, ghosts
<1> QED
  BY <1>2, <1>3, <1>4, <1>5, <1>6, <1>7, <1>8, <1>9, <1>10, <1>11, <1>12, <1>13, <1>14,
     <1>15, <1>16 DEF CacheNext, CallStep

-----------------------------------------------------------------------------
(* Where the call stands.                                                   *)

\* After an argument.
LEMMA NextArgStep ==
    ASSUME CacheTypes, NEW h, NEW role, NEW p \in Ptr, NEW fresh, NEW stale,
           Use(h, role, p, fresh, stale), IsLaunch(kern), Len(got) < Len(kern.args)
    PROVE  /\ kern' = kern /\ Len(got') = Len(got) + 1 /\ got' = Append(got, p)
           /\ \/ pc' = "launch" /\ Len(got') = Len(kern.args)
              \/ pc' = "arg" /\ Len(got') < Len(kern.args)
<1>1. got \in Seq(Ptr) /\ Len(got) \in Nat /\ Len(kern.args) \in Nat
  BY LaunchArgs DEF CacheTypes
<1>2. got' = Append(got, p) /\ Len(got') = Len(got) + 1
  BY <1>1 DEF Use
<1> QED
  BY <1>1, <1>2 DEF Use, NextArg

\* Every step keeps where the call stands.
LEMMA CallSteps ==
    ASSUME PoolInv, CacheInv, [CacheNext]_cacheVars
    PROVE  CallInv'
<1>1. CacheTypes /\ CallInv /\ ScanInv
  BY DEF CacheInv
<1>2. ASSUME NEW k, IsLaunch(k), Launch(k) PROVE CallInv'
  <2>1. got = << >> /\ scratchPtr = None /\ pc = "idle"
    BY <1>1, <1>2 DEF Launch, Ready, CallInv, Launching
  <2>2. Len(k.args) > 0 /\ Len(<< >>) = 0
    BY <1>2, LaunchArgs
  <2>3. got' = << >> /\ scratchPtr' = None /\ kern' = k /\ pc' \in {"scratch", "arg"}
    BY <1>2, <2>1 DEF Launch
  <2> QED
    BY <1>2, <2>2, <2>3 DEF CallInv, Launching
<1>3. ASSUME AcquireScratch PROVE CallInv'
  <2>1. pc = "scratch" /\ pc' = "arg" /\ kern' = kern /\ got' = got
    BY <1>3 DEF AcquireScratch, Ready
  <2> QED
    BY <1>1, <2>1 DEF CallInv, Launching
<1>4. ASSUME ArgResident \/ CreateEntry PROVE CallInv'
  <2>1. IsLaunch(kern) /\ Len(got) < Len(kern.args) /\ got \in Seq(Ptr)
    BY <1>1, <1>4 DEF ArgResident, CreateEntry, Ready, CallInv, Launching, CacheTypes
  <2>2. PICK p \in Ptr, fresh \in BOOLEAN, stale \in BOOLEAN : Use(Arg.host, Arg.role, p, fresh, stale)
    <3>1. CASE CreateEntry
      BY <3>1 DEF CreateEntry
    <3>2. CASE ArgResident
      <4>1. Arg.host \in Host
        BY <2>1, ArgType
      <4> QED
        BY <1>1, <3>2, <4>1 DEF ArgResident, Resident, CacheTypes
    <3> QED
      BY <1>4, <3>1, <3>2
  <2>3. /\ kern' = kern
        /\ \/ pc' = "launch" /\ Len(got') = Len(kern.args)
           \/ pc' = "arg" /\ Len(got') < Len(kern.args)
    BY <1>1, <2>1, <2>2, NextArgStep
  <2> QED
    BY <2>1, <2>3 DEF CallInv, Launching
<1>5. ASSUME ArgMissing PROVE CallInv'
  <2>1. pc = "arg" /\ pc' \in {"create", "clean"} /\ kern' = kern /\ got' = got /\ dptr' = dptr
        /\ dptr[Arg.host] = None
    BY <1>5 DEF ArgMissing, Ready, Resident, entryVars
  <2> QED
    BY <1>1, <2>1 DEF CallInv, Launching, Arg
<1>6. ASSUME GatherFails PROVE CallInv'
  BY <1>6 DEF GatherFails, CallInv, Launching
<1>7. ASSUME EvictStep PROVE CallInv'
  <2>1. pc \in {"clean", "dirty"} /\ UNCHANGED << pc, kern, got, scratchPtr >>
    BY <1>7 DEF EvictStep, Ready
  <2>2. IsLaunch(kern) /\ Arg.host \in Host /\ dptr[Arg.host] = None /\ dptr \in [Host -> Ptr \cup {None}]
    BY <1>1, <2>1, ArgType DEF CallInv, CacheTypes, Launching
  <2>3. dptr' = dptr \/ dptr' = [dptr EXCEPT ![Head(scan)] = None]
    BY <1>7 DEF EvictStep, KeepEntries, FreeEntry, ReclaimEntry, entryVars
  <2>4. dptr'[Arg.host] = None
    BY <2>2, <2>3
  <2>5. Arg' = Arg
    BY <2>1 DEF Arg
  <2> QED
    BY <1>1, <2>1, <2>4, <2>5 DEF CallInv, Launching
<1>8. ASSUME EvictPassEnds PROVE CallInv'
  <2>1. pc \in {"clean", "dirty"} /\ UNCHANGED << kern, got, scratchPtr, dptr >>
        /\ pc' \in {"dirty", "create"}
    BY <1>8 DEF EvictPassEnds, Ready, entryVars
  <2> QED
    BY <1>1, <2>1 DEF CallInv, Launching, Arg
<1>9. ASSUME RunKernel \/ RecordKernel PROVE CallInv'
  <2>1. pc = "launch" /\ scratchPtr' = scratchPtr /\ LaunchEnds
    BY <1>9 DEF RunKernel, RecordKernel, Ready
  <2> QED
    BY <1>1, <2>1 DEF CallInv, Launching, LaunchEnds
<1>10. ASSUME ReleaseScratch PROVE CallInv'
  BY <1>10 DEF ReleaseScratch, CallInv, Launching
<1>11. ASSUME FlushStep \/ ReleaseAllStep \/ WalkEnds
              \/ (\E kind \in {"flush", "releaseAll"} : StartWalk(kind)) PROVE CallInv'
  <2>1. pc \in {"flush", "releaseAll", "idle"} /\ pc' \in {"flush", "releaseAll", "idle"}
        /\ UNCHANGED << kern, got, scratchPtr >>
    BY <1>11 DEF FlushStep, ReleaseAllStep, WalkEnds, StartWalk, Ready
  <2> QED
    BY <1>1, <2>1 DEF CallInv, Launching
<1>12. ASSUME UNCHANGED << callVars, dptr >> PROVE CallInv'
  BY <1>1, <1>12 DEF CallInv, callVars, Arg
<1>13. ASSUME NEW h \in Host, HostAccess(h, TRUE) \/ HostAccess(h, FALSE) \/ Collect(h)
              \/ Finalize(h) \/ NewArray(h) PROVE CallInv'
  <2>1. pc = "idle" /\ UNCHANGED callVars
    BY <1>13 DEF HostAccess, Collect, Finalize, NewArray, Ready
  <2> QED
    BY <1>1, <2>1 DEF CallInv, Launching, callVars
<1>14. ASSUME PoolStep \/ UNCHANGED cacheVars PROVE CallInv'
  BY <1>12, <1>14 DEF PoolStep, cacheVars, entryVars
<1> QED
  BY <1>2, <1>3, <1>4, <1>5, <1>6, <1>7, <1>8, <1>9, <1>10, <1>11, <1>13, <1>14 DEF CacheNext, CallStep

\* Every step leaves only entries before a loop over _entries.
LEMMA ScanSteps ==
    ASSUME PoolInv, CacheInv, [CacheNext]_cacheVars
    PROVE  ScanInv'
<1> DEFINE Walking == {"clean", "dirty", "flush", "releaseAll"}
<1>1. CacheTypes /\ CallInv /\ ScanInv /\ Once(lru) /\ ToSet(lru) = Residents
  BY AccountingMeaning DEF CacheInv, CacheTypes
<1>2. ASSUME pc' \notin Walking PROVE ScanInv'
  BY <1>2 DEF ScanInv
<1>3. ASSUME UNCHANGED << pc, scan, dptr >> PROVE ScanInv'
  BY <1>1, <1>3 DEF ScanInv, Residents
<1>4. ASSUME scan' = lru, dptr' = dptr PROVE ScanInv'
  BY <1>1, <1>4 DEF ScanInv, Residents
<1>5. ASSUME EvictStep \/ FlushStep \/ ReleaseAllStep PROVE ScanInv'
  <2>1. pc \in Walking /\ scan # << >> /\ scan' = Tail(scan)
    BY <1>5 DEF EvictStep, FlushStep, ReleaseAllStep, Ready
  <2>2. /\ Once(Tail(scan)) /\ Head(scan) \in Host
        /\ ToSet(scan) = ToSet(Tail(scan)) \cup {Head(scan)}
        /\ Head(scan) \notin ToSet(Tail(scan))
    BY <2>1, ScanHead
  <2>3. dptr' = dptr \/ dptr' = [dptr EXCEPT ![Head(scan)] = None]
    BY <1>5 DEF EvictStep, FlushStep, ReleaseAllStep, KeepEntries, FreeEntry, ReclaimEntry, entryVars
  <2>4. ToSet(Tail(scan)) \subseteq Residents'
    BY <1>1, <2>1, <2>2, <2>3 DEF ScanInv, Residents, CacheTypes
  <2> QED
    BY <2>1, <2>2, <2>4 DEF ScanInv
<1>6. ASSUME ArgMissing \/ EvictPassEnds \/ (\E kind \in {"flush", "releaseAll"} : StartWalk(kind))
      PROVE  ScanInv'
  <2>1. dptr' = dptr /\ (scan' = lru \/ pc' \notin Walking)
    BY <1>6 DEF ArgMissing, EvictPassEnds, StartWalk, entryVars
  <2> QED
    BY <1>2, <1>4, <2>1
<1>7. ASSUME NEW k, Launch(k) PROVE ScanInv'
  BY <1>2, <1>7 DEF Launch
<1>8. ASSUME AcquireScratch \/ GatherFails \/ RunKernel \/ RecordKernel \/ ReleaseScratch \/ WalkEnds
      PROVE ScanInv'
  <2>1. pc' \notin Walking
    BY <1>8 DEF AcquireScratch, GatherFails, RunKernel, RecordKernel, ReleaseScratch, WalkEnds, LaunchEnds
  <2> QED
    BY <1>2, <2>1
<1>9. ASSUME ArgResident \/ CreateEntry PROVE ScanInv'
  <2>1. pc' \notin Walking
    BY <1>9 DEF ArgResident, CreateEntry, Use, NextArg
  <2> QED
    BY <1>2, <2>1
<1>10. ASSUME NEW h \in Host, HostAccess(h, TRUE) \/ HostAccess(h, FALSE) \/ Collect(h)
              \/ Finalize(h) \/ NewArray(h) PROVE ScanInv'
  <2>1. pc' = "idle"
    BY <1>10 DEF HostAccess, Collect, Finalize, NewArray, Ready, callVars
  <2> QED
    BY <1>2, <2>1
<1>11. ASSUME PoolStep \/ UNCHANGED cacheVars PROVE ScanInv'
  BY <1>3, <1>11 DEF PoolStep, cacheVars, entryVars, callVars
<1> QED
  BY <1>5, <1>6, <1>7, <1>8, <1>9, <1>10, <1>11 DEF CacheNext, CallStep

\* Every step keeps pinned arrays and arguments reachable.
LEMMA PinSteps ==
    ASSUME PoolInv, CacheInv, [CacheNext]_cacheVars
    PROVE  PinInv'
<1>1. CacheTypes /\ CallInv /\ PinInv
  BY DEF CacheInv
<1>2. ASSUME NEW k, IsLaunch(k), Launch(k) PROVE PinInv'
  <2>1. k.pins \subseteq alive
    BY <1>2 DEF Launch, IsLaunch
  <2> QED
    BY <1>1, <1>2, <2>1 DEF Launch, PinInv, Pinned, captureVars
<1>3. ASSUME ArgResident \/ CreateEntry PROVE PinInv'
  <2>1. Arg.host \in alive
    <3>1. IsLaunch(kern) /\ Len(got) < Len(kern.args) /\ got \in Seq(Ptr)
      BY <1>1, <1>3 DEF ArgResident, CreateEntry, Ready, CallInv, Launching, CacheTypes
    <3> QED
      BY <1>1, <3>1, ArgType DEF PinInv, Arg
  <2>2. /\ kern' = kern /\ alive' = alive /\ pinned' = pinned
        /\ capturePinned' = capturePinned \/ capturePinned' = capturePinned \cup {Arg.host}
    BY <1>3 DEF ArgResident, CreateEntry, Use
  <2> QED
    BY <1>1, <2>1, <2>2 DEF PinInv, Pinned
<1>4. ASSUME kern' = kern \/ kern' = NoKernel, UNCHANGED << alive, pinned, capturePinned >>
      PROVE  PinInv'
  BY <1>1, <1>4 DEF PinInv, Pinned, NoKernel
<1>5. ASSUME AcquireScratch \/ ArgMissing \/ GatherFails \/ EvictStep \/ EvictPassEnds
      PROVE  PinInv'
  BY <1>4, <1>5 DEF AcquireScratch, ArgMissing, GatherFails, EvictStep, EvictPassEnds, captureVars
<1>6. ASSUME RunKernel \/ RecordKernel \/ ReleaseScratch \/ FlushStep \/ ReleaseAllStep PROVE PinInv'
  BY <1>4, <1>6 DEF RunKernel, RecordKernel, LaunchEnds, ReleaseScratch, FlushStep,
                    ReleaseAllStep, captureVars
<1>7. ASSUME WalkEnds PROVE PinInv'
  BY <1>1, <1>7 DEF WalkEnds, PinInv, Pinned
<1>8. ASSUME NEW h \in Host, Collect(h) PROVE PinInv'
  <2>1. kern = NoKernel
    BY <1>1, <1>8 DEF Collect, Ready, CallInv, Launching
  <2> QED
    BY <1>1, <1>8, <2>1 DEF Collect, PinInv, Pinned, callVars, NoKernel
<1>9. ASSUME NEW h \in Host, NewArray(h) PROVE PinInv'
  BY <1>1, <1>9 DEF NewArray, PinInv, Pinned, captureVars, callVars
<1>10. ASSUME NEW h \in Host, HostAccess(h, TRUE) \/ HostAccess(h, FALSE) \/ Finalize(h)
       PROVE  PinInv'
  BY <1>4, <1>10 DEF HostAccess, Finalize, captureVars, callVars
<1>11. ASSUME PoolStep \/ UNCHANGED cacheVars \/ (\E kind \in {"flush", "releaseAll"} : StartWalk(kind))
       PROVE  PinInv'
  BY <1>4, <1>11 DEF PoolStep, StartWalk, cacheVars, captureVars, callVars
<1> QED
  BY <1>2, <1>3, <1>5, <1>6, <1>7, <1>8, <1>9, <1>10, <1>11 DEF CacheNext, CallStep

-----------------------------------------------------------------------------
\* The bookkeeping is kept, and every step is a step of the pool.
LEMMA CacheStepKeeps ==
    ASSUME PoolInv, CacheInv, [CacheNext]_cacheVars
    PROVE  [Next]_poolVars /\ PoolInv' /\ CacheInv'
<1>1. [Next]_poolVars /\ BufferInv' /\ CacheAccounting'
  BY BufferSteps DEF BufferStep
<1> QED
  BY <1>1, NextPool, TypeSteps, CallSteps, ScanSteps, PinSteps DEF CacheInv

\* Nothing is resident at first.
LEMMA InitCache == RInit => PoolInv /\ CacheInv
<1> SUFFICES ASSUME RInit PROVE PoolInv /\ CacheInv
  OBVIOUS
<1>1. PoolInv
  BY InitPool DEF RInit
<1>2. CacheTypes
  <2>1. lru \in Seq(Host) /\ scan \in Seq(Host) /\ got \in Seq(Ptr)
    BY EmptySeq, Zenon DEF RInit
  <2>2. /\ dptr \in [Host -> Ptr \cup {None}] /\ devHas \in [Ptr -> Host \cup {None}]
        /\ deviceFresh \in [Host -> BOOLEAN] /\ hostStale \in [Host -> BOOLEAN]
        /\ hostHas \in [Host -> BOOLEAN]
    BY DEF RInit
  <2>3. /\ defBytes \in Int /\ scratchPtr \in Ptr \cup {None}
        /\ pinned \subseteq Host /\ capturePinned \subseteq Host /\ alive \subseteq Host
        /\ lost \subseteq Ptr /\ abandoned \subseteq Host
    BY DEF RInit
  <2>4. capturing \in BOOLEAN /\ spoilt \in BOOLEAN
    BY Zenon DEF RInit
  <2> QED
    BY <2>1, <2>2, <2>3, <2>4, Zenon DEF CacheTypes
<1>3. CallInv /\ ScanInv /\ PinInv
  BY DEF RInit, CallInv, ScanInv, PinInv, Launching, NoKernel, Pinned
<1>4. BufferInv
  BY DEF RInit, Init, BufferInv, EntryOwnership, NothingForgotten
<1>5. CacheAccounting
  <2> DEFINE f == [h \in Host |-> IF dptr[h] = None THEN 0 ELSE byteLength[h]]
  <2>1. \A h \in Host : dptr[h] = None
    BY DEF RInit
  <2>2. f \in [Host -> Int] /\ \A h \in Host : f[h] = 0
    BY <2>1
  <2> HIDE DEF f
  <2>3. SumFunction(f) = 0
    BY <2>2, HostAssumption, SumZero
  <2>4. lru = << >> /\ defBytes = 0
    BY DEF RInit
  <2> QED
    BY <2>1, <2>3, <2>4 DEF CacheAccounting, IsInjective, ToSet, f
<1> QED
  BY <1>1, <1>2, <1>3, <1>4, <1>5 DEF CacheInv

\* The steps of eager calls are among them.
LEMMA RNextIsCacheNext == [RNext]_vars => [CacheNext]_cacheVars
<1>1. vars' = vars \/ (\E e \in late : LateFinalize(e)) => cacheVars' = cacheVars
  BY DEF vars, entryVars, LateFinalize, cacheVars
<1> QED
  BY <1>1, HostAssumption DEF RNext, CacheNext, CallStep

-----------------------------------------------------------------------------
(* Eviction.  When the dirty pass ends without having made room it has      *)
(* visited every entry, so the pins are all that is left: what it has still *)
(* to visit is part of the invariant.                                       *)

EvictInv ==
    /\ EvictionSuffices
    /\ pc = "dirty" => \A h \in alive : dptr[h] # None => h \in Pinned \cup ToSet(scan)

\* Every step keeps what the dirty pass has still to visit.
LEMMA EvictSteps ==
    ASSUME PoolInv, CacheInv, EvictInv, [CacheNext]_cacheVars
    PROVE  EvictInv'
<1>1. CacheTypes /\ CallInv /\ ScanInv /\ ToSet(lru) = Residents
  BY AccountingMeaning DEF CacheInv, CacheTypes
<1>2. ASSUME pc' \notin {"create", "dirty"} PROVE EvictInv'
  BY <1>2 DEF EvictInv, EvictionSuffices
<1>3. ASSUME UNCHANGED << pc, alive, dptr, pinned, capturePinned, scan, kern, got, defBytes, capturing >>
      PROVE EvictInv'
  BY <1>3 DEF EvictInv, EvictionSuffices, Pinned, Arg
<1>4. ASSUME ArgMissing PROVE EvictInv'
  <2>1. capturing \/ defBytes + byteLength[Arg.host] <= Cap \/ pc' = "clean"
    BY <1>4 DEF ArgMissing
  <2>2. UNCHANGED << defBytes, capturing, kern, got >> /\ pc' \in {"create", "clean"}
    BY <1>4 DEF ArgMissing, entryVars, captureVars
  <2>3. defBytes \in Int /\ byteLength[Arg.host] \in Int /\ Cap \in Int
    <3>1. IsLaunch(kern) /\ Len(got) < Len(kern.args) /\ got \in Seq(Ptr)
      BY <1>1, <1>4 DEF ArgMissing, Ready, CallInv, Launching, CacheTypes
    <3> QED
      BY <1>1, <3>1, ArgType, ByteFacts, HostAssumption DEF CacheTypes
  <2> QED
    BY <2>1, <2>2, <2>3 DEF EvictInv, EvictionSuffices, Arg
<1>5. ASSUME EvictPassEnds PROVE EvictInv'
  <2>1. /\ pc \in {"clean", "dirty"}
        /\ UNCHANGED << defBytes, capturing, kern, got, dptr, alive, pinned, capturePinned >>
    BY <1>5 DEF EvictPassEnds, Ready, entryVars, captureVars
  <2>2. defBytes \in Int /\ byteLength[Arg.host] \in Int /\ Cap \in Nat
    <3>1. IsLaunch(kern) /\ Len(got) < Len(kern.args) /\ got \in Seq(Ptr)
      BY <1>1, <2>1 DEF CallInv, Launching, CacheTypes
    <3> QED
      BY <1>1, <3>1, ArgType, ByteFacts, HostAssumption DEF CacheTypes
  <2>3. CASE pc' = "dirty"
    <3>1. scan' = lru
      BY <1>5, <2>3 DEF EvictPassEnds
    <3> QED
      BY <1>1, <2>1, <2>3, <3>1 DEF EvictInv, EvictionSuffices, Residents, Pinned, CacheTypes
  <2>4. CASE pc' = "create" /\ EnoughRoom
    <3>1. Target \in Int /\ Target <= Cap
      BY <2>2 DEF Target
    <3> QED
      BY <2>1, <2>2, <2>4, <3>1 DEF EvictInv, EvictionSuffices, EnoughRoom, Arg
  <2>5. CASE pc' = "create" /\ ~EnoughRoom
    <3>1. pc = "dirty" /\ scan = << >>
      BY <1>5, <2>1, <2>5 DEF EvictPassEnds
    <3>2. \A h \in alive : dptr[h] # None => h \in Pinned
      BY <3>1 DEF EvictInv, ToSet
    <3> QED
      BY <2>1, <2>5, <3>2 DEF EvictInv, EvictionSuffices, Pinned
  <2>6. pc' \in {"dirty", "create"}
    BY <1>5 DEF EvictPassEnds
  <2> QED
    BY <2>3, <2>4, <2>5, <2>6
<1>6. ASSUME EvictStep PROVE EvictInv'
  <2>1. /\ pc \in {"clean", "dirty"} /\ scan # << >> /\ scan' = Tail(scan)
        /\ UNCHANGED << pc, alive, pinned, capturePinned >>
    BY <1>6 DEF EvictStep, Ready, captureVars
  <2>2. ToSet(scan) = ToSet(Tail(scan)) \cup {Head(scan)} /\ Head(scan) \in Host
    BY <2>1, ScanHead
  <2>3. \/ dptr' = [dptr EXCEPT ![Head(scan)] = None]
        \/ dptr' = dptr /\ (pc = "clean" \/ Head(scan) \in Pinned)
    BY <1>6 DEF EvictStep, FreeEntry, ReclaimEntry, KeepEntries, Evictable, entryVars
  <2>4. ASSUME pc = "dirty", NEW h \in alive, dptr'[h] # None
        PROVE  h \in Pinned \cup ToSet(Tail(scan))
    BY <1>1, <2>2, <2>3, <2>4 DEF EvictInv, CacheTypes
  <2> QED
    BY <2>1, <2>4 DEF EvictInv, EvictionSuffices, Pinned
<1>7. ASSUME NEW k, Launch(k) PROVE EvictInv'
  BY <1>2, <1>7 DEF Launch
<1>8. ASSUME \/ AcquireScratch \/ GatherFails \/ RunKernel \/ RecordKernel \/ ReleaseScratch
             \/ WalkEnds \/ ArgResident \/ CreateEntry \/ FlushStep \/ ReleaseAllStep
             \/ \E kind \in {"flush", "releaseAll"} : StartWalk(kind)
      PROVE  EvictInv'
  <2>1. pc' \notin {"create", "dirty"}
    BY <1>8 DEF AcquireScratch, GatherFails, RunKernel, RecordKernel, ReleaseScratch, WalkEnds,
       LaunchEnds, ArgResident, CreateEntry, Use, NextArg, FlushStep, ReleaseAllStep, Ready, StartWalk
  <2> QED
    BY <1>2, <2>1
<1>9. ASSUME NEW h \in Host, HostAccess(h, TRUE) \/ HostAccess(h, FALSE) \/ Collect(h)
              \/ Finalize(h) \/ NewArray(h) PROVE EvictInv'
  <2>1. pc' = "idle"
    BY <1>9 DEF HostAccess, Collect, Finalize, NewArray, Ready, callVars
  <2> QED
    BY <1>2, <2>1
<1>10. ASSUME PoolStep \/ UNCHANGED cacheVars PROVE EvictInv'
  BY <1>3, <1>10 DEF PoolStep, cacheVars, entryVars, callVars, captureVars
<1> QED
  BY <1>4, <1>5, <1>6, <1>7, <1>8, <1>9, <1>10 DEF CacheNext, CallStep

-----------------------------------------------------------------------------
(* The cache by itself, without captures.                                   *)

EagerInv ==
    /\ pc \in Launching \cup {"idle", "flush", "releaseAll"}
    /\ kern \in Kernels \cup {NoKernel}
    /\ ~capturing

\* Without a capture nothing starts one.
LEMMA EagerSteps ==
    ASSUME EagerInv, [RNext]_vars
    PROVE  EagerInv'
<1>1. capturing' = capturing
  <2>1. CASE ArgResident \/ CreateEntry
    BY <2>1 DEF ArgResident, CreateEntry, Use
  <2>2. CASE \E k \in Kernels : Launch(k)
    BY <2>2 DEF Launch, captureVars
  <2>3. CASE AcquireScratch \/ ArgMissing \/ GatherFails \/ EvictStep \/ EvictPassEnds \/ RunKernel
             \/ ReleaseScratch \/ FlushStep \/ ReleaseAllStep \/ WalkEnds \/ PoolStep \/ UNCHANGED vars
    BY <2>3 DEF AcquireScratch, ArgMissing, GatherFails, EvictStep, EvictPassEnds, RunKernel,
       ReleaseScratch, FlushStep, ReleaseAllStep, WalkEnds, PoolStep, vars, captureVars
  <2>4. CASE \/ \E h \in Host, write \in BOOLEAN : HostAccess(h, write)
             \/ \E kind \in {"flush", "releaseAll"} : StartWalk(kind)
             \/ \E h \in Host : Collect(h) \/ Finalize(h) \/ NewArray(h)
             \/ \E e \in late : LateFinalize(e)
    BY <2>4 DEF HostAccess, StartWalk, Collect, Finalize, NewArray, LateFinalize, captureVars
  <2> QED
    BY <2>1, <2>2, <2>3, <2>4 DEF RNext
<1>2. kern' = kern \/ kern' \in Kernels \cup {NoKernel}
  <2>1. CASE ArgResident \/ CreateEntry
    BY <2>1 DEF ArgResident, CreateEntry, Use
  <2>2. CASE \E k \in Kernels : Launch(k)
    BY <2>2 DEF Launch
  <2>3. CASE AcquireScratch \/ ArgMissing \/ GatherFails \/ EvictStep \/ EvictPassEnds \/ RunKernel
             \/ ReleaseScratch \/ FlushStep \/ ReleaseAllStep \/ WalkEnds \/ PoolStep \/ UNCHANGED vars
    BY <2>3 DEF AcquireScratch, ArgMissing, GatherFails, EvictStep, EvictPassEnds, RunKernel, LaunchEnds,
       ReleaseScratch, FlushStep, ReleaseAllStep, WalkEnds, PoolStep, vars, callVars
  <2>4. CASE \/ \E h \in Host, write \in BOOLEAN : HostAccess(h, write)
             \/ \E kind \in {"flush", "releaseAll"} : StartWalk(kind)
             \/ \E h \in Host : Collect(h) \/ Finalize(h) \/ NewArray(h)
             \/ \E e \in late : LateFinalize(e)
    BY <2>4 DEF HostAccess, StartWalk, Collect, Finalize, NewArray, LateFinalize, callVars
  <2> QED
    BY <2>1, <2>2, <2>3, <2>4 DEF RNext
<1>3. pc' = pc \/ pc' \in Launching \cup {"idle", "flush", "releaseAll"}
  <2>1. CASE ArgResident \/ CreateEntry
    BY <2>1 DEF ArgResident, CreateEntry, Use, NextArg, Launching
  <2>2. CASE \E k \in Kernels : Launch(k)
    BY <2>2 DEF Launch, Launching
  <2>3. CASE AcquireScratch \/ ArgMissing \/ GatherFails \/ EvictStep \/ EvictPassEnds \/ RunKernel
             \/ ReleaseScratch \/ FlushStep \/ ReleaseAllStep \/ WalkEnds \/ PoolStep \/ UNCHANGED vars
    BY <2>3 DEF AcquireScratch, ArgMissing, GatherFails, EvictStep, EvictPassEnds, RunKernel, LaunchEnds,
       ReleaseScratch, FlushStep, ReleaseAllStep, WalkEnds, PoolStep, vars, callVars, Launching
  <2>4. CASE \/ \E h \in Host, write \in BOOLEAN : HostAccess(h, write)
             \/ \E kind \in {"flush", "releaseAll"} : StartWalk(kind)
             \/ \E h \in Host : Collect(h) \/ Finalize(h) \/ NewArray(h)
             \/ \E e \in late : LateFinalize(e)
    BY <2>4 DEF HostAccess, StartWalk, Collect, Finalize, NewArray, LateFinalize, callVars
  <2> QED
    BY <2>1, <2>2, <2>3, <2>4 DEF RNext
<1> QED
  BY <1>1, <1>2, <1>3 DEF EagerInv

\* The callbacks still to run, and the outputs nobody was given: no launch
\* under way passes one.
LateInv == late \subseteq [ptr : Ptr, bytes : Bytes]

AsideInv == \A i \in DOMAIN kern.args : kern.args[i].host \notin abandoned

\* Only _freeEntry of a dead array adds a callback.
LEMMA LateSteps ==
    ASSUME CacheInv, LateInv, [RNext]_vars
    PROVE  LateInv'
<1>1. CacheTypes /\ ScanInv
  BY DEF CacheInv
<1>2. ASSUME NEW wb, FreeEntry(Head(scan), wb), EvictStep \/ FlushStep \/ ReleaseAllStep
      PROVE  LateInv'
  <2>1. Head(scan) \in Residents
    BY <1>2, ScanHead DEF EvictStep, FlushStep, ReleaseAllStep, Ready, CacheInv
  <2>2. dptr[Head(scan)] \in Ptr /\ byteLength[Head(scan)] \in Bytes
    BY <1>1, <2>1, HostAssumption DEF Residents, CacheTypes
  <2> QED
    BY <1>2, <2>2 DEF FreeEntry, LateInv
<1>3. CASE EvictStep
  BY <1>2, <1>3 DEF EvictStep, KeepEntries, entryVars, LateInv
<1>4. CASE FlushStep \/ ReleaseAllStep
  BY <1>2, <1>4 DEF FlushStep, ReleaseAllStep, KeepEntries, entryVars, LateInv
<1>5. CASE \E e \in late : LateFinalize(e)
  BY <1>5 DEF LateFinalize, LateInv
<1>6. CASE \/ \E k \in Kernels : Launch(k)
           \/ AcquireScratch \/ ArgResident \/ ArgMissing \/ CreateEntry \/ GatherFails \/ EvictPassEnds
           \/ RunKernel \/ ReleaseScratch \/ WalkEnds \/ PoolStep \/ UNCHANGED vars
  BY <1>6 DEF Launch, AcquireScratch, ArgResident, ArgMissing, CreateEntry, GatherFails, EvictPassEnds,
     RunKernel, ReleaseScratch, WalkEnds, PoolStep, vars, entryVars, LateInv
<1>7. CASE \/ \E h \in Host, write \in BOOLEAN : HostAccess(h, write)
           \/ \E kind \in {"flush", "releaseAll"} : StartWalk(kind)
           \/ \E h \in Host : Collect(h) \/ Finalize(h) \/ NewArray(h)
  BY <1>7 DEF HostAccess, StartWalk, Collect, Finalize, NewArray, entryVars, LateInv
<1> QED
  BY <1>3, <1>4, <1>5, <1>6, <1>7 DEF RNext

\* Who sets an output aside, and who takes one back.
LEMMA WhoAbandons ==
    ASSUME [RNext]_vars
    PROVE  GatherFails \/ (\E h \in Host : NewArray(h)) \/ abandoned' = abandoned
<1>1. CASE \/ \E k \in Kernels : Launch(k)
           \/ AcquireScratch \/ ArgMissing \/ EvictPassEnds
           \/ RunKernel \/ ReleaseScratch \/ WalkEnds \/ PoolStep \/ UNCHANGED vars
  BY <1>1 DEF Launch, AcquireScratch, ArgMissing, EvictPassEnds,
     RunKernel, ReleaseScratch, WalkEnds, PoolStep, vars, ghosts
<1>2. CASE ArgResident \/ CreateEntry \/ EvictStep \/ FlushStep \/ ReleaseAllStep
  BY <1>2 DEF ArgResident, CreateEntry, Use, EvictStep, FlushStep, ReleaseAllStep, ghosts
<1>3. CASE \/ \E h \in Host, write \in BOOLEAN : HostAccess(h, write)
           \/ \E kind \in {"flush", "releaseAll"} : StartWalk(kind)
           \/ \E h \in Host : Collect(h) \/ Finalize(h)
           \/ \E e \in late : LateFinalize(e)
  BY <1>3 DEF HostAccess, StartWalk, Collect, Finalize, LateFinalize, ghosts
<1> QED
  BY <1>1, <1>2, <1>3 DEF RNext

\* A launch starts with arrays that somebody has.
LEMMA AsideSteps ==
    ASSUME AsideInv, [RNext]_vars
    PROVE  AsideInv'
<1>1. CASE \E k \in Kernels : Launch(k)
  BY <1>1 DEF Launch, AsideInv, ghosts
<1>2. ASSUME kern' = NoKernel PROVE AsideInv'
  BY <1>2 DEF AsideInv, NoKernel
<1>3. CASE GatherFails
  BY <1>2, <1>3 DEF GatherFails
<1>4. ASSUME kern' = kern, abandoned' \subseteq abandoned PROVE AsideInv'
  BY <1>4 DEF AsideInv
<1>5. CASE \E h \in Host : NewArray(h)
  BY <1>4, <1>5 DEF NewArray, callVars
<1>6. kern' = kern \/ kern' = NoKernel \/ \E k \in Kernels : Launch(k)
  <2>1. CASE ArgResident \/ CreateEntry
    BY <2>1 DEF ArgResident, CreateEntry, Use
  <2>2. CASE AcquireScratch \/ ArgMissing \/ GatherFails \/ EvictStep \/ EvictPassEnds \/ RunKernel
             \/ ReleaseScratch \/ FlushStep \/ ReleaseAllStep \/ WalkEnds \/ PoolStep \/ UNCHANGED vars
    BY <2>2 DEF AcquireScratch, ArgMissing, GatherFails, EvictStep, EvictPassEnds, RunKernel, LaunchEnds,
       ReleaseScratch, FlushStep, ReleaseAllStep, WalkEnds, PoolStep, vars, callVars
  <2>3. CASE \/ \E h \in Host, write \in BOOLEAN : HostAccess(h, write)
             \/ \E kind \in {"flush", "releaseAll"} : StartWalk(kind)
             \/ \E h \in Host : Collect(h) \/ Finalize(h) \/ NewArray(h)
             \/ \E e \in late : LateFinalize(e)
    BY <2>3 DEF HostAccess, StartWalk, Collect, Finalize, NewArray, LateFinalize, callVars
  <2> QED
    BY <2>1, <2>2, <2>3 DEF RNext
<1> QED
  BY <1>1, <1>2, <1>3, <1>4, <1>5, <1>6, WhoAbandons

Inv == PoolInv /\ CacheInv /\ EvictInv /\ EagerInv /\ LateInv /\ AsideInv

\* The bookkeeping holds in every behaviour.
LEMMA CacheInvariant == RSpec => []Inv
<1>1. RInit => Inv
  <2>1. RInit => EvictInv /\ EagerInv /\ LateInv /\ AsideInv
    BY DEF RInit, EvictInv, EvictionSuffices, EagerInv, LateInv, AsideInv
  <2> QED
    BY <2>1, InitCache DEF Inv
<1>2. Inv /\ [RNext]_vars => Inv'
  BY RNextIsCacheNext, CacheStepKeeps, EvictSteps, EagerSteps, LateSteps, AsideSteps DEF Inv
<1> QED
  BY <1>1, <1>2, PTL DEF RSpec

(* Type correctness of the cache.                                           *)
THEOREM CacheTypeOK == RSpec => []RTypeOK
<1>1. Inv => RTypeOK
  <2>1. CallInv => (pc = "launch" => Len(got) = Len(kern.args))
    BY DEF CallInv
  <2> QED
    BY <2>1 DEF Inv, PoolInv, OwnershipInv, CacheInv, CacheTypes, EagerInv, Launching, LateInv, RTypeOK
<1> QED
  BY <1>1, CacheInvariant, PTL

(* Every entry has a buffer of its own, acquired from the pool with the     *)
(* array's size, and the scratch buffer of a running launch is none of      *)
(* them, whatever is evicted, flushed, collected or thrown in between.      *)
THEOREM CacheOwnership == RSpec => []EntryOwnership
<1>1. Inv => EntryOwnership
  BY DEF Inv, CacheInv, BufferInv
<1> QED
  BY <1>1, CacheInvariant, PTL

(* No buffer the pool has handed out is forgotten, but for the scratch      *)
(* buffer of a launch whose gathering threw.                                *)
THEOREM CacheForgetsNothing == RSpec => []NothingForgotten
<1>1. Inv => NothingForgotten
  BY DEF Inv, CacheInv, BufferInv
<1> QED
  BY <1>1, CacheInvariant, PTL

(* _entries lists exactly the entries, and _defBytes is the sum of their    *)
(* sizes.                                                                   *)
THEOREM CacheCounts == RSpec => []CacheAccounting
<1>1. Inv => CacheAccounting
  BY DEF Inv, CacheInv
<1> QED
  BY <1>1, CacheInvariant, PTL

(* The cache exceeds its limit only with nothing but pinned arrays left.    *)
THEOREM CacheEvicts == RSpec => []EvictionSuffices
<1>1. Inv => EvictionSuffices
  BY DEF Inv, EvictInv
<1> QED
  BY <1>1, CacheInvariant, PTL

\* Which steps take a buffer away, and from whom.
LEMMA WhoDrops ==
    ASSUME PoolInv, CacheInv, [CacheNext]_cacheVars, NEW h \in Residents
    PROVE  \/ dptr'[h] = dptr[h]
           \/ h \notin Pinned
           \/ pc = "releaseAll"
<1>1. CacheTypes /\ CallInv /\ PinInv
  BY DEF CacheInv
<1>2. h \in Host /\ dptr[h] # None /\ Pinned \subseteq alive /\ dptr \in [Host -> Ptr \cup {None}]
  BY <1>1 DEF Residents, PinInv, CacheTypes
<1>3. ASSUME NEW g, NEW wb, ReclaimEntry(g, wb), g # h
      PROVE  dptr'[h] = dptr[h]
  BY <1>2, <1>3 DEF ReclaimEntry
<1>4. CASE EvictStep
  BY <1>2, <1>3, <1>4 DEF FreeEntry, EvictStep, Evictable, KeepEntries, entryVars
<1>5. CASE FlushStep
  BY <1>2, <1>3, <1>5 DEF FreeEntry, FlushStep, KeepEntries, entryVars
<1>6. CASE ReleaseAllStep
  BY <1>6 DEF ReleaseAllStep, Ready
<1>7. ASSUME NEW g \in Host, Finalize(g)
      PROVE  dptr'[h] = dptr[h] \/ h \notin Pinned
  BY <1>2, <1>3, <1>7 DEF Finalize
<1>8. CASE CreateEntry
  <2>1. dptr[Arg.host] = None
    BY <1>1, <1>8 DEF CreateEntry, Ready, CallInv
  <2>2. PICK p \in Ptr : dptr' = [dptr EXCEPT ![Arg.host] = p]
    BY <1>8 DEF CreateEntry
  <2> QED
    BY <1>2, <2>1, <2>2
<1>9. CASE (\E k : Launch(k)) \/ AcquireScratch \/ ArgResident \/ ArgMissing \/ GatherFails
           \/ EvictPassEnds \/ RunKernel \/ RecordKernel \/ ReleaseScratch \/ WalkEnds
  BY <1>9 DEF Launch, AcquireScratch, ArgResident, ArgMissing, GatherFails, EvictPassEnds,
     RunKernel, RecordKernel, ReleaseScratch, WalkEnds, entryVars
<1>10. CASE \/ \E g \in Host, write \in BOOLEAN : HostAccess(g, write)
            \/ \E kind \in {"flush", "releaseAll"} : StartWalk(kind)
            \/ \E g \in Host : Collect(g) \/ NewArray(g)
            \/ PoolStep \/ UNCHANGED cacheVars
  BY <1>10 DEF HostAccess, StartWalk, Collect, NewArray, PoolStep, cacheVars, entryVars
<1> QED
  BY <1>4, <1>5, <1>6, <1>7, <1>8, <1>9, <1>10 DEF CacheNext, CallStep

(* A pinned array keeps its buffer: no eviction, flush or finalizer moves   *)
(* it while the array lives.                                                *)
THEOREM CachePinnedStays == RSpec => PinnedStays
<1> DEFINE Step == \A h \in Pinned : dptr[h] # None /\ pc # "releaseAll" => dptr'[h] = dptr[h]
<1>1. Inv /\ [RNext]_vars => [Step]_vars
  <2>1. CacheInv => Pinned \subseteq Host
    BY DEF CacheInv, CacheTypes, Pinned
  <2> QED
    BY <2>1, RNextIsCacheNext, WhoDrops DEF Inv, Residents
<1> QED
  BY <1>1, CacheInvariant, PTL DEF RSpec, PinnedStays

-----------------------------------------------------------------------------
(* The contents, of launches that gather safely.  The lemmas leave a set of *)
(* arrays D aside, those whose contents nobody relies on any more; the      *)
(* cache by itself has none.                                                *)

\* What a launch has taken is still there when it runs: the pointers are
\* those of the entries, fresh, and what it will write is marked.
GatheredInv ==
    pc # "release" => \A i \in DOMAIN got :
        LET h == kern.args[i].host IN
        dptr[h] = got[i] /\ deviceFresh[h] /\ (kern.args[i].role # "in" => hostStale[h])

KeepsGathered ==
    /\ HostsFit => pc \notin {"clean", "dirty"}
    /\ PinsAhead(kern) => \A i \in DOMAIN kern.args :
          i < Len(kern.args) => kern.args[i].host \in Pinned

\* No entry, no marks.
MarksInv == \A h \in Host : dptr[h] = None => ~deviceFresh[h] /\ ~hostStale[h]

GatherInv == GatheredInv /\ KeepsGathered /\ MarksInv

\* The copies of one array agree with its marks; of all arrays but some.
Agrees(h) ==
    /\ dptr[h] = None => hostHas[h]
    /\ deviceFresh[h] => devHas[dptr[h]] = h
    /\ ~hostStale[h] => hostHas[h]
    /\ hostStale[h] => deviceFresh[h]

AgreeBut(E) == \A h \in alive \ E : Agrees(h)

\* The running launch passes none of the arrays D.
PassesNone(D) == \A i \in DOMAIN kern.args : kern.args[i].host \notin D

\* The arguments of the launch under way, and what is known of its entries.
LEMMA LaunchFacts ==
    ASSUME CacheInv, pc \in Launching
    PROVE  /\ IsLaunch(kern) /\ got \in Seq(Ptr)
           /\ DOMAIN got = 1..Len(got) /\ DOMAIN kern.args = 1..Len(kern.args)
           /\ Len(got) \in Nat /\ Len(kern.args) \in Nat
           /\ pc # "release" => Len(got) <= Len(kern.args)
           /\ pc # "release" => DOMAIN got \subseteq DOMAIN kern.args
           /\ \A i \in DOMAIN kern.args : /\ kern.args[i].host \in Host /\ kern.args[i].host \in alive
                                          /\ kern.args[i].role \in Roles
<1>1. IsLaunch(kern) /\ got \in Seq(Ptr)
  BY DEF CacheInv, CacheTypes, CallInv
<1>3. /\ DOMAIN got = 1..Len(got) /\ DOMAIN kern.args = 1..Len(kern.args)
      /\ Len(got) \in Nat /\ Len(kern.args) \in Nat
  BY <1>1, LaunchArgs
<1>4. pc # "release" => Len(got) <= Len(kern.args)
  BY <1>3 DEF CacheInv, CallInv, Launching
<1>5. \A i \in DOMAIN kern.args : kern.args[i].host \in alive
  BY DEF CacheInv, PinInv
<1> QED
  BY <1>1, <1>3, <1>4, <1>5, LaunchArgs

\* Every buffer belongs to one array.
LEMMA OwnBuffers ==
    ASSUME CacheInv
    PROVE  \A g, h \in Host : g # h /\ dptr[g] # None => dptr[g] # dptr[h]
  BY DEF CacheInv, BufferInv, EntryOwnership

\* The types the arguments about contents need.
ContentTypes ==
    /\ dptr \in [Host -> Ptr \cup {None}]
    /\ deviceFresh \in [Host -> BOOLEAN] /\ hostStale \in [Host -> BOOLEAN]
    /\ hostHas \in [Host -> BOOLEAN] /\ devHas \in [Ptr -> Host \cup {None}]
    /\ alive \subseteq Host /\ scratchPtr \in Ptr \cup {None}

\* They hold.
LEMMA ContentTypesHold == CacheInv => ContentTypes
  BY DEF CacheInv, CacheTypes, ContentTypes

\* What is known of the argument whose buffer p is taken, an old entry's or a
\* new one's, and what the step changes.
UseResult(p) ==
    /\ Len(got) + 1 \in DOMAIN kern.args /\ kern.args[Len(got) + 1] = Arg
    /\ Arg.host \in Host /\ Arg.role \in Roles
    /\ DOMAIN got = 1..Len(got) /\ Len(got) \in Nat /\ DOMAIN got' = 1..(Len(got) + 1)
    /\ \A i \in DOMAIN got : i \in DOMAIN kern.args /\ got'[i] = got[i] /\ got[i] \in Ptr
    /\ got'[Len(got) + 1] = p
    /\ \A i \in DOMAIN kern.args : kern.args[i].host \in Host
    /\ kern' = kern /\ hostHas' = hostHas /\ alive' = alive /\ spoilt' = spoilt
    /\ pc' \in {"arg", "launch"}
    /\ dptr'[Arg.host] = p /\ deviceFresh'[Arg.host]
    /\ hostStale'[Arg.host] = (hostStale[Arg.host] \/ Arg.role # "in")
    /\ \A g \in Host : g # Arg.host => /\ dptr'[g] = dptr[g]
                                       /\ deviceFresh'[g] = deviceFresh[g]
                                       /\ hostStale'[g] = hostStale[g]

\* It holds of the step.
LEMMA UseFacts ==
    ASSUME CacheInv, CacheInv', pc \in {"arg", "create"}, NEW p \in Ptr,
           dptr' = [dptr EXCEPT ![Arg.host] = p],
           Use(Arg.host, Arg.role, p, deviceFresh[Arg.host], hostStale[Arg.host])
    PROVE  UseResult(p)
<1> DEFINE h == Arg.host
           n == Len(got) + 1
           args == kern.args
<1>1. /\ got \in Seq(Ptr) /\ DOMAIN got = 1..Len(got)
      /\ DOMAIN args = 1..Len(args) /\ Len(got) \in Nat /\ Len(args) \in Nat
      /\ \A i \in DOMAIN args : args[i].host \in Host /\ args[i].role \in Roles
      /\ Len(got) < Len(args)
  BY LaunchFacts DEF Launching, CacheInv, CallInv
<1>2. n \in DOMAIN args /\ h \in Host /\ args[n] = Arg /\ Arg.role \in Roles
      /\ \A i \in DOMAIN got : i \in DOMAIN args
  BY <1>1 DEF Arg
<1>3. ContentTypes
  BY ContentTypesHold
<1>4. /\ kern' = kern /\ got' = Append(got, p) /\ hostHas' = hostHas /\ alive' = alive
      /\ spoilt' = spoilt /\ pc' \in {"arg", "launch"}
      /\ deviceFresh' = [deviceFresh EXCEPT ![h] = TRUE]
      /\ hostStale' = [hostStale EXCEPT ![h] = hostStale[h] \/ MarksStale(Arg.role)]
  BY DEF Use, NextArg, ghosts
<1>5. /\ DOMAIN got' = 1..n
      /\ \A i \in DOMAIN got : got'[i] = got[i] /\ got[i] \in Ptr
      /\ got'[n] = p
  BY <1>1, <1>4
<1>6. MarksStale(Arg.role) = (Arg.role # "in")
  BY <1>2 DEF MarksStale, Roles
<1> HIDE DEF h, n, args
<1>7. /\ dptr'[h] = p /\ deviceFresh'[h]
      /\ hostStale'[h] = (hostStale[h] \/ Arg.role # "in")
  BY <1>2, <1>3, <1>4, <1>6 DEF ContentTypes, h
<1>8. \A g \in Host : g # h => /\ dptr'[g] = dptr[g] /\ deviceFresh'[g] = deviceFresh[g]
                               /\ hostStale'[g] = hostStale[g]
  BY <1>2, <1>3, <1>4 DEF ContentTypes, h
<1> QED
  BY <1>1, <1>2, <1>4, <1>5, <1>7, <1>8 DEF h, n, args, UseResult

\* A step that takes the buffer of an argument, its entry's or a new one.
LEMMA TakesBuffer ==
    ASSUME CacheInv, MarksInv, ArgResident \/ CreateEntry
    PROVE  /\ IsLaunch(kern) /\ Len(got) < Len(kern.args) /\ got \in Seq(Ptr)
           /\ pc \in {"arg", "create"} /\ Arg.host \in Host
           /\ \E p \in Ptr : /\ dptr' = [dptr EXCEPT ![Arg.host] = p] /\ dptr[Arg.host] \in {p, None}
                             /\ Use(Arg.host, Arg.role, p, deviceFresh[Arg.host], hostStale[Arg.host])
<1>1. CallInv /\ CacheTypes
  BY DEF CacheInv
<1>2. IsLaunch(kern) /\ Len(got) < Len(kern.args) /\ got \in Seq(Ptr) /\ pc \in {"arg", "create"}
  BY <1>1 DEF ArgResident, CreateEntry, Ready, CallInv, Launching, CacheTypes
<1>3. Arg.host \in Host
  BY <1>2, ArgType
<1>4. CASE ArgResident
  <2>1. dptr[Arg.host] \in Ptr /\ dptr' = [dptr EXCEPT ![Arg.host] = dptr[Arg.host]]
    BY <1>1, <1>3, <1>4 DEF ArgResident, Resident, CacheTypes
  <2> QED
    BY <1>2, <1>3, <1>4, <2>1 DEF ArgResident
<1>5. CASE CreateEntry
  <2>1. dptr[Arg.host] = None
    BY <1>1, <1>5 DEF CreateEntry, Ready, CallInv
  <2>2. deviceFresh[Arg.host] = FALSE /\ hostStale[Arg.host] = FALSE
    BY <1>1, <1>3, <2>1 DEF MarksInv, CacheTypes
  <2> QED
    BY <1>2, <1>3, <1>5, <2>1, <2>2 DEF CreateEntry
<1> QED
  BY <1>4, <1>5

\* The new pointer joins the ones taken before.
LEMMA UseGathers ==
    ASSUME CacheInv, CacheInv', GatheredInv, MarksInv, pc \in {"arg", "create"}, NEW p \in Ptr,
           dptr' = [dptr EXCEPT ![Arg.host] = p], dptr[Arg.host] \in {p, None},
           Use(Arg.host, Arg.role, p, deviceFresh[Arg.host], hostStale[Arg.host])
    PROVE  GatheredInv' /\ MarksInv'
<1>0. UseResult(p)
  BY UseFacts
<1> DEFINE n == Len(got) + 1
           host(i) == kern.args[i].host
<1>1. MarksInv'
  <2> SUFFICES ASSUME NEW g \in Host, dptr'[g] = None PROVE ~deviceFresh'[g] /\ ~hostStale'[g]
    BY DEF MarksInv
  <2>1. g # Arg.host
    BY <1>0, ByteFacts DEF UseResult
  <2> QED
    BY <2>1, <1>0 DEF UseResult, MarksInv
<1>2. GatheredInv'
  <2> SUFFICES ASSUME NEW i \in DOMAIN got'
               PROVE  /\ dptr'[host(i)] = got'[i] /\ deviceFresh'[host(i)]
                      /\ kern.args[i].role # "in" => hostStale'[host(i)]
    BY <1>0 DEF UseResult, GatheredInv
  <2>1. CASE i = n
    BY <2>1, <1>0 DEF UseResult
  <2>2. CASE i # n
    <3>1. i \in DOMAIN got /\ host(i) \in Host /\ got'[i] = got[i] /\ got[i] \in Ptr
      BY <2>2, <1>0 DEF UseResult
    <3>2. /\ dptr[host(i)] = got[i] /\ deviceFresh[host(i)]
          /\ kern.args[i].role # "in" => hostStale[host(i)]
      BY <3>1 DEF GatheredInv
    <3>3. CASE host(i) = Arg.host
      <4>1. dptr[host(i)] = p
        BY <3>1, <3>2, <3>3, ByteFacts
      <4>2. dptr'[host(i)] = p /\ deviceFresh'[host(i)]
            /\ (hostStale[host(i)] => hostStale'[host(i)])
        BY <3>3, <1>0 DEF UseResult
      <4> QED
        BY <3>1, <3>2, <4>1, <4>2
    <3>4. CASE host(i) # Arg.host
      BY <3>1, <3>2, <3>4, <1>0 DEF UseResult
    <3> QED
      BY <3>3, <3>4
  <2> QED
    BY <2>1, <2>2
<1> QED
  BY <1>1, <1>2

\* What is uploaded is what the array has.
LEMMA UseContent ==
    ASSUME CacheInv, CacheInv', MarksInv, ~capturing, NEW D, AgreeBut(Pending \cup D),
           pc \in {"arg", "create"}, NEW p \in Ptr,
           dptr' = [dptr EXCEPT ![Arg.host] = p], dptr[Arg.host] \in {p, None},
           Use(Arg.host, Arg.role, p, deviceFresh[Arg.host], hostStale[Arg.host])
    PROVE  AgreeBut(Pending \cup D)'
<1>0. UseResult(p)
  BY UseFacts
<1> DEFINE h == Arg.host
           n == Len(got) + 1
<1>1. ContentTypes /\ ContentTypes'
  BY ContentTypesHold DEF CacheInv, CacheTypes, ContentTypes
<1>2. h \in Host /\ dptr'[h] = p /\ p # None
  BY <1>0, ByteFacts DEF UseResult
<1>3. devHas' = IF Arg.role # "out" /\ ~deviceFresh[h]
                THEN [devHas EXCEPT ![p] = IF hostHas[h] THEN h ELSE None]
                ELSE devHas
  BY DEF Use
<1> SUFFICES ASSUME NEW g \in alive, g \notin Pending', g \notin D
             PROVE  Agrees(g)'
  BY <1>0 DEF UseResult, AgreeBut
<1>4. Pending = { kern.args[i].host : i \in { i \in 1..Len(got) : kern.args[i].role = "out" } }
      /\ Pending' = { kern.args[i].host : i \in { i \in 1..n : kern.args[i].role = "out" } }
  <2>1. /\ DOMAIN got = 1..Len(got) /\ DOMAIN got' = 1..n /\ kern' = kern
        /\ pc # "release" /\ pc' # "release"
    BY <1>0 DEF UseResult
  <2> QED
    BY <2>1, Zenon DEF Pending, MarkedOutputs
<1>5. g \notin Pending
  <2>1. \A i \in 1..Len(got) : i \in 1..n
    BY <1>0 DEF UseResult
  <2> QED
    BY <1>4, <2>1
<1>6. g \in Host /\ Agrees(g)
  BY <1>1, <1>5 DEF AgreeBut, ContentTypes
<1>7. CASE g # h
  <2>1. dptr'[g] = dptr[g] /\ deviceFresh'[g] = deviceFresh[g] /\ hostStale'[g] = hostStale[g]
        /\ hostHas' = hostHas
    BY <1>6, <1>7, <1>0 DEF UseResult
  <2>2. dptr[g] # None => dptr[g] # p
    BY <1>2, <1>6, <1>7, <2>1, OwnBuffers DEF CacheInv, BufferInv, EntryOwnership
  <2>3. deviceFresh[g] => devHas'[dptr[g]] = g
    BY <1>1, <1>3, <1>6, <2>2 DEF Agrees, MarksInv, ContentTypes
  <2> QED
    BY <1>6, <2>1, <2>3 DEF Agrees
<1>8. CASE g = h
  <2>1. Arg.role # "out"
    <3>1. n \in 1..n /\ kern.args[n] = Arg
      BY <1>0 DEF UseResult
    <3> QED
      BY <1>4, <1>8, <3>1
  <2>2. devHas'[p] = h
    <3>1. CASE deviceFresh[h]
      <4>1. dptr[h] = p
        BY <1>2, <3>1 DEF MarksInv
      <4> QED
        BY <1>3, <1>6, <1>8, <3>1, <4>1 DEF Agrees
    <3>2. CASE ~deviceFresh[h]
      <4>1. hostHas[h]
        BY <1>6, <1>8, <3>2 DEF Agrees
      <4> QED
        BY <1>1, <1>3, <2>1, <3>2, <4>1 DEF ContentTypes
    <3> QED
      BY <3>1, <3>2
  <2>3. deviceFresh'[h] /\ (~hostStale'[h] => ~hostStale[h]) /\ hostHas' = hostHas
    BY <1>0 DEF UseResult
  <2> QED
    BY <1>2, <1>6, <1>8, <2>2, <2>3 DEF Agrees
<1> QED
  BY <1>7, <1>8

\* The launch finds its arguments, and what it writes is where the marks say.
LEMMA RunContent ==
    ASSUME CacheInv, GatheredInv, MarksInv, ~spoilt, OutputsApart(kern),
           NEW D, PassesNone(D), AgreeBut(Pending \cup D), RunKernel
    PROVE  AgreeBut(Pending \cup D)' /\ ~spoilt' /\ MarksInv' /\ GatheredInv'
<1> DEFINE args == kern.args
           host(i) == args[i].host
           written == { host(i) : i \in Writes(kern) }
           buffers == { got[i] : i \in Writes(kern) }
<1>1. /\ got \in Seq(Ptr)
      /\ DOMAIN got = DOMAIN args
      /\ \A i \in DOMAIN args : host(i) \in Host /\ host(i) \in alive /\ args[i].role \in Roles
      /\ pc = "launch"
  BY LaunchFacts DEF Launching, CacheInv, CallInv, RunKernel, Ready
<1>2. ContentTypes
  BY ContentTypesHold
<1>3. \A i \in DOMAIN args : /\ dptr[host(i)] = got[i] /\ deviceFresh[host(i)]
                             /\ args[i].role # "in" => hostStale[host(i)]
  BY <1>1 DEF GatheredInv
<1>4. \A g \in alive : g \notin Pending /\ g \notin D => Agrees(g)
  BY DEF AgreeBut
<1>5. Pending = { host(i) : i \in { i \in DOMAIN args : args[i].role = "out" } }
  BY <1>1 DEF Pending, MarkedOutputs
<1>6. \A i \in DOMAIN got : got[i] \in Ptr
  BY <1>1
<1>7. Reads(kern) = { i \in DOMAIN args : args[i].role # "out" }
      /\ Writes(kern) = { i \in DOMAIN args : args[i].role # "in" }
  BY DEF Reads, Writes
<1>8. \A i, j \in DOMAIN args : i # j /\ args[i].role = "out" => host(i) # host(j)
  BY <1>1 DEF OutputsApart
<1>9. \A i, j \in DOMAIN args : host(i) # host(j) => got[i] # got[j]
  BY <1>1, <1>3, <1>6, OwnBuffers, ByteFacts
<1>10. \A i \in Reads(kern) : devHas[got[i]] = host(i)
  <2> SUFFICES ASSUME NEW i \in DOMAIN args, args[i].role # "out"
               PROVE  devHas[got[i]] = host(i)
    BY <1>7
  <2>1. host(i) \notin Pending /\ host(i) \notin D
    BY <1>5, <1>8 DEF PassesNone
  <2> QED
    BY <1>1, <1>3, <1>4, <2>1 DEF Agrees
<1>11. SeesArguments(kern, got)
  BY <1>7, <1>9, <1>10 DEF SeesArguments
<1>12. /\ hostHas' = [h \in Host |-> hostHas[h] /\ h \notin written]
       /\ devHas' = [p \in Ptr |->
              IF p \in buffers THEN host(CHOOSE i \in Writes(kern) : got[i] = p)
              ELSE IF p = scratchPtr \/ devHas[p] \in written THEN None
              ELSE devHas[p]]
  BY <1>11 DEF RunKernel, KernelEffect
<1>13. /\ ~spoilt' /\ UNCHANGED << dptr, deviceFresh, hostStale, alive >>
       /\ pc' = "release" \/ (pc' = "idle" /\ got' = << >>)
  BY <1>11 DEF RunKernel, LaunchEnds, entryVars
<1> HIDE DEF host, written, buffers, args
<1>15. MarksInv' /\ GatheredInv'
  BY <1>13 DEF MarksInv, GatheredInv
<1>16. Pending' = {}
  BY <1>13 DEF Pending, MarkedOutputs
<1>17. ASSUME NEW g \in alive, g \notin D PROVE Agrees(g)'
  <2>1. CASE g \in written
    <3>1. PICK i \in Writes(kern) : host(i) = g
      BY <2>1 DEF written
    <3>2. dptr[g] = got[i] /\ deviceFresh[g] /\ hostStale[g] /\ got[i] \in Ptr /\ got[i] \in buffers
      BY <1>1, <1>3, <1>6, <1>7, <3>1 DEF buffers
    <3> DEFINE j == CHOOSE j \in Writes(kern) : got[j] = got[i]
    <3>3. j \in Writes(kern) /\ got[j] = got[i]
      BY <3>1
    <3>4. host(j) = g
      BY <1>7, <1>9, <3>1, <3>3
    <3>5. devHas'[dptr[g]] = g
      BY <1>12, <3>2, <3>4
    <3> QED
      BY <1>13, <3>2, <3>5, ByteFacts DEF Agrees
  <2>2. CASE g \notin written
    <3>1. g \notin Pending
      <4>1. \A i \in DOMAIN args : args[i].role = "out" => host(i) \in written
        BY <1>7 DEF written
      <4> QED
        BY <1>5, <2>2, <4>1
    <3>2. Agrees(g) /\ g \in Host
      BY <1>2, <1>4, <1>17, <3>1 DEF ContentTypes
    <3>3. dptr[g] # None => dptr[g] \in Ptr /\ dptr[g] \notin buffers /\ dptr[g] # scratchPtr
      <4>1. ASSUME NEW i \in Writes(kern) PROVE dptr[g] # None => dptr[g] # got[i]
        <5>1. host(i) # g /\ host(i) \in Host /\ dptr[host(i)] = got[i]
          BY <1>1, <1>3, <1>7, <2>2 DEF written
        <5> QED
          BY <3>2, <5>1, OwnBuffers
      <4>2. scratchPtr # None => dptr[g] # scratchPtr
        BY <3>2 DEF CacheInv, BufferInv, EntryOwnership
      <4> QED
        BY <1>2, <3>2, <4>1, <4>2 DEF buffers, ContentTypes
    <3>4. deviceFresh[g] => dptr[g] # None /\ devHas'[dptr[g]] = g
      <4>1. deviceFresh[g] => dptr[g] # None
        BY <3>2 DEF MarksInv
      <4>2. deviceFresh[g] => devHas[dptr[g]] = g
        BY <3>2 DEF Agrees
      <4> QED
        BY <1>12, <2>2, <3>3, <4>1, <4>2
    <3>5. hostHas'[g] = hostHas[g]
      BY <1>2, <1>12, <2>2, <3>2 DEF ContentTypes
    <3> QED
      BY <1>13, <3>2, <3>4, <3>5 DEF Agrees
  <2> QED
    BY <2>1, <2>2
<1> QED
  BY <1>13, <1>15, <1>16, <1>17 DEF AgreeBut

\* A launch that throws changes neither contents nor marks; its outputs stay
\* set aside.
LEMMA FailContent ==
    ASSUME MarksInv, NEW E, AgreeBut(E), GatherFails
    PROVE  AgreeBut(E)' /\ Pending' = {} /\ MarksInv' /\ GatheredInv' /\ spoilt' = spoilt
<1>1. /\ UNCHANGED << dptr, deviceFresh, hostStale, hostHas, devHas, alive, spoilt >>
      /\ got' = << >>
  BY DEF GatherFails, entryVars, dataVars
<1>2. Pending' = {}
  BY <1>1 DEF Pending, MarkedOutputs
<1> QED
  BY <1>1, <1>2 DEF AgreeBut, Agrees, MarksInv, GatheredInv

\* Dropping an entry that no argument taken so far refers to: what was only
\* there is written back, or, by a flush, given up with its mark.
LEMMA DropContent ==
    ASSUME CacheInv, GatheredInv, MarksInv, NEW E, AgreeBut(E), NEW h \in Residents, NEW wb \in BOOLEAN, ReclaimEntry(h, wb),
           UNCHANGED << pc, kern, got, alive, spoilt >>,
           pc # "release" => \A i \in DOMAIN got : kern.args[i].host # h
    PROVE  /\ AgreeBut(E)' /\ GatheredInv' /\ MarksInv' /\ spoilt' = spoilt
           /\ wb /\ h \in alive \ E /\ hostStale[h] => hostHas'[h] /\ devHas'[dptr[h]] = h
<1>1. ContentTypes /\ h \in Host /\ dptr[h] \in Ptr
  BY ContentTypesHold DEF Residents, ContentTypes
<1>2. \A g \in alive \ E : Agrees(g)
  BY DEF AgreeBut
<1>4. /\ dptr' = [dptr EXCEPT ![h] = None]
      /\ deviceFresh' = [deviceFresh EXCEPT ![h] = FALSE]
      /\ hostStale' = [hostStale EXCEPT ![h] = FALSE]
      /\ hostHas' = IF h \in alive /\ hostStale[h]
                    THEN [hostHas EXCEPT ![h] = wb => devHas[dptr[h]] = h]
                    ELSE hostHas
      /\ devHas' = [p \in Ptr |-> IF devHas[p] = h /\ ~wb /\ hostStale[h] THEN None ELSE devHas[p]]
  BY DEF ReclaimEntry
<1>5. h \in alive \ E => /\ hostStale[h] => devHas[dptr[h]] = h
                         /\ ~hostStale[h] => hostHas[h]
  BY <1>2 DEF Agrees
<1>6. h \in alive \ E => hostHas'[h]
  BY <1>1, <1>4, <1>5 DEF ContentTypes
<1>7. MarksInv'
  BY <1>1, <1>4 DEF MarksInv, ContentTypes
<1>8. ASSUME NEW g \in alive \ E PROVE Agrees(g)'
  <2>1. CASE g = h
    <3>1. dptr'[h] = None /\ ~deviceFresh'[h] /\ ~hostStale'[h]
      BY <1>1, <1>4 DEF ContentTypes
    <3> QED
      BY <1>6, <1>8, <2>1, <3>1 DEF Agrees
  <2>2. CASE g # h
    <3>1. Agrees(g) /\ g \in Host
      BY <1>1, <1>2, <1>8 DEF ContentTypes
    <3>2. /\ dptr'[g] = dptr[g] /\ deviceFresh'[g] = deviceFresh[g] /\ hostStale'[g] = hostStale[g]
          /\ hostHas'[g] = hostHas[g]
      BY <1>1, <1>4, <2>2, <3>1 DEF ContentTypes
    <3>3. deviceFresh[g] => devHas'[dptr[g]] = g
      BY <1>1, <1>4, <2>2, <3>1 DEF MarksInv, Agrees, ContentTypes
    <3> QED
      BY <3>1, <3>2, <3>3 DEF Agrees
  <2> QED
    BY <2>1, <2>2
<1>9. AgreeBut(E)'
  BY <1>8 DEF AgreeBut
<1>10. GatheredInv'
  <2> SUFFICES ASSUME pc # "release", NEW i \in DOMAIN got
               PROVE  LET g == kern.args[i].host IN
                      /\ dptr'[g] = got[i] /\ deviceFresh'[g]
                      /\ kern.args[i].role # "in" => hostStale'[g]
    BY DEF GatheredInv
  <2> DEFINE g == kern.args[i].host
  <2>1. g \in Host /\ g # h
    <3>1. CASE pc \in Launching
      BY <3>1, LaunchFacts
    <3>2. CASE pc \notin Launching
      BY <3>2 DEF CacheInv, CallInv
    <3> QED
      BY <3>1, <3>2
  <2>2. /\ dptr[g] = got[i] /\ deviceFresh[g]
        /\ kern.args[i].role # "in" => hostStale[g]
    BY DEF GatheredInv
  <2> HIDE DEF g
  <2>3. /\ dptr'[g] = got[i] /\ deviceFresh'[g]
        /\ kern.args[i].role # "in" => hostStale'[g]
    BY <1>1, <1>4, <2>1, <2>2 DEF ContentTypes
  <2> QED
    BY <2>3 DEF g
<1>11. ASSUME wb, h \in alive \ E, hostStale[h] PROVE devHas'[dptr[h]] = h
  BY <1>1, <1>4, <1>5, <1>11
<1> QED
  BY <1>6, <1>7, <1>9, <1>10, <1>11

\* Eviction leaves what the launch has taken.
LEMMA EvictSpares ==
    ASSUME CacheInv, KeepsGathered, SafeLaunch(kern), pc \in {"clean", "dirty"}
    PROVE  \A i \in DOMAIN got : kern.args[i].host \in alive \cap Pinned
<1>1. PinsAhead(kern)
  BY DEF SafeLaunch, KeepsGathered
<1>2. /\ Len(got) < Len(kern.args) /\ DOMAIN got = 1..Len(got)
      /\ DOMAIN kern.args = 1..Len(kern.args) /\ Len(got) \in Nat /\ Len(kern.args) \in Nat
      /\ \A i \in DOMAIN kern.args : kern.args[i].host \in alive
  BY LaunchFacts DEF Launching, CacheInv, CallInv
<1> QED
  BY <1>1, <1>2 DEF KeepsGathered

\* While everything fits there is always room.
LEMMA RoomForAll ==
    ASSUME CacheInv, HostsFit, NEW h \in Host, dptr[h] = None
    PROVE  defBytes + byteLength[h] <= Cap
<1> DEFINE f == [g \in Host |-> IF dptr[g] = None THEN 0 ELSE byteLength[g]]
           k == [f EXCEPT ![h] = byteLength[h]]
<1>1. f \in [Host -> Int] /\ k \in [Host -> Int] /\ byteLength \in [Host -> Int]
  BY ByteFacts, HostAssumption
<1>2. f[h] = 0 /\ k[h] = byteLength[h] /\ \A g \in Host : g # h => k[g] = f[g]
  OBVIOUS
<1>3. \A g \in Host : k[g] <= byteLength[g]
  BY ByteFacts
<1>4. defBytes = SumFunction(f)
  BY DEF CacheInv, CacheAccounting
<1> HIDE DEF f, k
<1>5. SumFunction(k) = SumFunction(f) - f[h] + k[h] /\ SumFunction(f) \in Int
  BY <1>1, <1>2, HostAssumption, SumChange, SumType
<1>6. SumFunction(k) <= SumFunction(byteLength) /\ SumFunction(byteLength) \in Int
  BY <1>1, <1>3, HostAssumption, SumMonotone, SumType
<1> QED
  BY <1>2, <1>4, <1>5, <1>6, ByteFacts, HostAssumption DEF HostsFit

\* Every step keeps the reason why an eviction spares the gathered arrays.
LEMMA KeepsSteps ==
    ASSUME CacheInv, KeepsGathered, [CacheNext]_cacheVars
    PROVE  KeepsGathered'
<1>1. CacheTypes /\ CallInv
  BY DEF CacheInv
<1>2. ASSUME pc' \notin {"clean", "dirty"} \/ pc' = pc, kern' \in {kern, NoKernel}, Pinned \subseteq Pinned'
      PROVE  KeepsGathered'
  <2>1. HostsFit => pc' \notin {"clean", "dirty"}
    BY <1>2 DEF KeepsGathered
  <2>2. CASE kern' = kern
    BY <1>2, <2>1, <2>2 DEF KeepsGathered
  <2>3. CASE kern' = NoKernel
    BY <2>1, <2>3 DEF KeepsGathered, NoKernel
  <2> QED
    BY <1>2, <2>2, <2>3
<1>3. ASSUME NEW k, Launch(k) PROVE KeepsGathered'
  <2>1. pc' \notin {"clean", "dirty"} /\ kern' = k /\ k.pins \subseteq Pinned'
    BY <1>3 DEF Launch, Pinned
  <2> QED
    BY <2>1 DEF KeepsGathered, PinsAhead
<1>4. ASSUME ArgMissing PROVE KeepsGathered'
  <2>1. IsLaunch(kern) /\ Len(got) < Len(kern.args) /\ got \in Seq(Ptr)
    BY <1>1, <1>4 DEF ArgMissing, Ready, CallInv, Launching, CacheTypes
  <2>2. HostsFit => pc' = "create"
    BY <1>4, <2>1, ArgType, RoomForAll DEF ArgMissing, Resident
  <2>3. kern' = kern /\ Pinned' = Pinned
    BY <1>4 DEF ArgMissing, captureVars, Pinned
  <2> QED
    BY <2>2, <2>3 DEF KeepsGathered
<1>5. ASSUME EvictPassEnds PROVE KeepsGathered'
  <2>1. kern' = kern /\ Pinned' = Pinned /\ pc \in {"clean", "dirty"}
    BY <1>5 DEF EvictPassEnds, captureVars, Pinned, Ready
  <2> QED
    BY <2>1 DEF KeepsGathered
<1>6. ASSUME ArgResident \/ CreateEntry PROVE KeepsGathered'
  BY <1>2, <1>6 DEF ArgResident, CreateEntry, Use, NextArg, Pinned
<1>7. ASSUME AcquireScratch \/ GatherFails \/ EvictStep PROVE KeepsGathered'
  BY <1>2, <1>7 DEF AcquireScratch, GatherFails, EvictStep, captureVars, Pinned
<1>8. ASSUME RunKernel \/ RecordKernel \/ ReleaseScratch PROVE KeepsGathered'
  BY <1>2, <1>8 DEF RunKernel, RecordKernel, LaunchEnds, ReleaseScratch, captureVars, Pinned
<1>9. ASSUME FlushStep \/ ReleaseAllStep \/ (\E kind \in {"flush", "releaseAll"} : StartWalk(kind))
      PROVE  KeepsGathered'
  BY <1>2, <1>9 DEF FlushStep, ReleaseAllStep, StartWalk, captureVars, Pinned
<1>10. ASSUME pc' = "idle", kern' = NoKernel PROVE KeepsGathered'
  BY <1>10 DEF KeepsGathered, NoKernel
<1>11. ASSUME WalkEnds PROVE KeepsGathered'
  BY <1>1, <1>10, <1>11 DEF WalkEnds, Ready, CallInv, Launching
<1>12. ASSUME NEW h \in Host, HostAccess(h, TRUE) \/ HostAccess(h, FALSE) \/ Collect(h)
              \/ Finalize(h) \/ NewArray(h) PROVE KeepsGathered'
  <2>1. pc' = "idle" /\ pc = "idle" /\ kern' = kern
    BY <1>12 DEF HostAccess, Collect, Finalize, NewArray, Ready, callVars
  <2> QED
    BY <1>1, <1>10, <2>1 DEF CallInv, Launching
<1>13. ASSUME PoolStep \/ UNCHANGED cacheVars PROVE KeepsGathered'
  BY <1>2, <1>13 DEF PoolStep, cacheVars, callVars, captureVars, Pinned
<1> QED
  BY <1>3, <1>4, <1>5, <1>6, <1>7, <1>8, <1>9, <1>11, <1>12, <1>13 DEF CacheNext, CallStep

\* The host reads or overwrites an array.
LEMMA AccessContent ==
    ASSUME CacheInv, GatheredInv, MarksInv, ~capturing, NEW E, AgreeBut(E),
           NEW h \in Host, h \notin E, NEW write \in BOOLEAN, HostAccess(h, write)
    PROVE  AgreeBut(E)' /\ GatheredInv' /\ MarksInv' /\ spoilt' = spoilt
<1>1. ContentTypes
  BY ContentTypesHold
<1>2. pc = "idle" /\ got = << >> /\ UNCHANGED << pc, kern, got, dptr, alive, spoilt >> /\ h \in alive
  BY DEF HostAccess, Ready, CacheInv, CallInv, Launching, callVars, ghosts
<1>4. \A g \in alive \ E : Agrees(g)
  BY DEF AgreeBut
<1>5. /\ deviceFresh' = [deviceFresh EXCEPT ![h] = FALSE]
      /\ hostStale' = [hostStale EXCEPT ![h] = FALSE]
      /\ devHas' = [p \in Ptr |-> IF write /\ devHas[p] = h THEN None ELSE devHas[p]]
  BY <1>1 DEF HostAccess, AccessMarks
<1>6. hostHas' = [hostHas EXCEPT ![h] = TRUE]
  <2>1. (write \/ IF hostStale[h] THEN devHas[dptr[h]] = h ELSE hostHas[h]) = TRUE
    BY <1>1, <1>2, <1>4 DEF Agrees, ContentTypes
  <2> QED
    BY <2>1 DEF HostAccess
<1>7. MarksInv' /\ GatheredInv'
  BY <1>1, <1>2, <1>5 DEF MarksInv, GatheredInv, ContentTypes
<1>8. ASSUME NEW g \in alive \ E PROVE Agrees(g)'
  <2>1. CASE g = h
    BY <1>1, <1>2, <1>5, <1>6, <2>1 DEF Agrees, ContentTypes
  <2>2. CASE g # h
    <3>1. Agrees(g) /\ g \in Host
      BY <1>1, <1>4, <1>8 DEF ContentTypes
    <3>2. /\ dptr'[g] = dptr[g] /\ deviceFresh'[g] = deviceFresh[g] /\ hostStale'[g] = hostStale[g]
          /\ hostHas'[g] = hostHas[g]
      BY <1>1, <1>2, <1>5, <1>6, <2>2, <3>1 DEF ContentTypes
    <3>3. deviceFresh[g] => devHas'[dptr[g]] = g
      BY <1>1, <1>5, <2>2, <3>1 DEF MarksInv, Agrees, ContentTypes
    <3> QED
      BY <3>1, <3>2, <3>3 DEF Agrees
  <2> QED
    BY <2>1, <2>2
<1> QED
  BY <1>2, <1>7, <1>8 DEF AgreeBut

\* An array takes the place of a dead one.
LEMMA NewContent ==
    ASSUME CacheInv, GatheredInv, MarksInv, NEW E, AgreeBut(E), NEW h \in Host, NewArray(h)
    PROVE  AgreeBut(E \ {h})' /\ GatheredInv' /\ MarksInv' /\ spoilt' = spoilt
<1>1. ContentTypes
  BY ContentTypesHold
<1>2. /\ pc = "idle" /\ got = << >> /\ dptr[h] = None
      /\ UNCHANGED << pc, kern, got, dptr, deviceFresh, hostStale, spoilt >>
      /\ alive' = alive \cup {h} /\ hostHas' = [hostHas EXCEPT ![h] = TRUE]
      /\ devHas' = [p \in Ptr |-> IF devHas[p] = h THEN None ELSE devHas[p]]
  BY DEF NewArray, Ready, Resident, CacheInv, CallInv, Launching, callVars, entryVars, ghosts
<1>4. \A g \in alive \ E : Agrees(g)
  BY DEF AgreeBut
<1>5. MarksInv' /\ GatheredInv'
  BY <1>2 DEF MarksInv, GatheredInv
<1>6. ASSUME NEW g \in alive \cup {h}, g \notin E \ {h} PROVE Agrees(g)'
  <2>1. CASE g = h
    BY <1>1, <1>2, <2>1 DEF MarksInv, Agrees, ContentTypes
  <2>2. CASE g # h
    <3>1. Agrees(g) /\ g \in Host
      BY <1>1, <1>4, <1>6, <2>2 DEF ContentTypes
    <3>2. hostHas'[g] = hostHas[g]
      BY <1>1, <1>2, <2>2, <3>1 DEF ContentTypes
    <3>3. deviceFresh[g] => devHas'[dptr[g]] = g
      BY <1>1, <1>2, <2>2, <3>1 DEF MarksInv, Agrees, ContentTypes
    <3> QED
      BY <1>2, <3>1, <3>2, <3>3 DEF Agrees
  <2> QED
    BY <2>1, <2>2
<1> QED
  BY <1>2, <1>5, <1>6 DEF AgreeBut

\* A step that changes no contents and no marks, of no array now pending.
LEMMA SameContent ==
    ASSUME GatheredInv, MarksInv, NEW D, AgreeBut(Pending \cup D),
           UNCHANGED << dptr, deviceFresh, hostStale, dataVars, spoilt >>, alive' \subseteq alive,
           got' \in {got, << >>},
           \/ UNCHANGED << pc, kern, got >>
           \/ Pending = {} /\ got' = << >>
           \/ pc # "release" /\ pc' # "release" /\ UNCHANGED << kern, got >>
    PROVE  AgreeBut(Pending \cup D)' /\ GatheredInv' /\ MarksInv' /\ spoilt' = spoilt
<1>1. UNCHANGED << dptr, deviceFresh, hostStale, hostHas, devHas, spoilt >>
  BY DEF dataVars
<1>2. Pending' = Pending
  <2>1. CASE Pending = {} /\ got' = << >>
    <3>1. Pending' = {}
      BY <2>1 DEF Pending, MarkedOutputs
    <3> QED
      BY <2>1, <3>1
  <2>2. CASE UNCHANGED << pc, kern, got >>
    BY <2>2 DEF Pending, MarkedOutputs
  <2>3. CASE pc # "release" /\ pc' # "release" /\ UNCHANGED << kern, got >>
    BY <2>3 DEF Pending, MarkedOutputs
  <2> QED
    BY <2>1, <2>2, <2>3
<1>3. AgreeBut(Pending \cup D)' /\ MarksInv'
  BY <1>1, <1>2 DEF AgreeBut, Agrees, MarksInv
<1>4. GatheredInv'
  <2>1. CASE got' = << >>
    BY <2>1 DEF GatheredInv
  <2>2. CASE UNCHANGED << pc, kern, got >>
    BY <1>1, <2>2 DEF GatheredInv
  <2>3. CASE pc # "release" /\ pc' # "release" /\ UNCHANGED << kern, got >>
    BY <1>1, <2>3 DEF GatheredInv
  <2> QED
    BY <2>1, <2>2, <2>3
<1> QED
  BY <1>1, <1>3, <1>4

\* The evictions and walks.
LEMMA WalkContent ==
    ASSUME CacheInv, GatherInv, SafeLaunch(kern), NEW D, AgreeBut(Pending \cup D),
           EvictStep \/ FlushStep \/ ReleaseAllStep
    PROVE  /\ AgreeBut(Pending \cup D)' /\ GatheredInv' /\ MarksInv' /\ spoilt' = spoilt
           /\ pc # "flush" => \A h \in alive \ (Pending \cup D) :
                 hostStale[h] /\ dptr[h] # None /\ dptr'[h] = None => hostHas'[h] /\ devHas'[dptr[h]] = h
<1> DEFINE h == Head(scan)
<1>1. /\ pc \in {"clean", "dirty", "flush", "releaseAll"} /\ scan # << >>
      /\ UNCHANGED << pc, kern, got, alive, spoilt >>
  BY DEF EvictStep, FlushStep, ReleaseAllStep, Ready, ghosts
<1>2. h \in Residents /\ h \in Host
  BY <1>1, ScanHead DEF CacheInv
<1>3. ContentTypes /\ GatheredInv /\ KeepsGathered /\ MarksInv /\ Pending' = Pending
  BY <1>1, ContentTypesHold DEF GatherInv, Pending, MarkedOutputs
<1> HIDE DEF h
<1>4. CASE KeepEntries
  <2>1. UNCHANGED << dptr, deviceFresh, hostStale, dataVars, spoilt >> /\ dptr' = dptr
    BY <1>1, <1>4 DEF KeepEntries, entryVars
  <2>2. AgreeBut(Pending \cup D)' /\ GatheredInv' /\ MarksInv' /\ spoilt' = spoilt
    BY <1>1, <1>3, <2>1, SameContent
  <2> QED
    BY <2>1, <2>2
<1>5. ASSUME NEW wb \in BOOLEAN, ReclaimEntry(h, wb),
             \A i \in DOMAIN got : kern.args[i].host # h,
             wb \/ pc = "flush" \/ ~hostStale[h] \/ h \notin alive
      PROVE  /\ AgreeBut(Pending \cup D)' /\ GatheredInv' /\ MarksInv' /\ spoilt' = spoilt
             /\ pc # "flush" => \A g \in alive \ (Pending \cup D) :
                   hostStale[g] /\ dptr[g] # None /\ dptr'[g] = None => hostHas'[g] /\ devHas'[dptr[g]] = g
  <2>1. /\ GatheredInv' /\ MarksInv' /\ spoilt' = spoilt
        /\ \A g \in alive \ (Pending \cup D) : Agrees(g)'
        /\ wb /\ h \in alive \ (Pending \cup D) /\ hostStale[h] => hostHas'[h] /\ devHas'[dptr[h]] = h
    <3>1. PICK E : E = Pending \cup D
      OBVIOUS
    <3>2. AgreeBut(E)
      BY <3>1
    <3>3. /\ AgreeBut(E)' /\ GatheredInv' /\ MarksInv' /\ spoilt' = spoilt
          /\ wb /\ h \in alive \ E /\ hostStale[h] => hostHas'[h] /\ devHas'[dptr[h]] = h
      BY <1>1, <1>2, <1>3, <1>5, <3>2, DropContent
    <3> QED
      BY <1>1, <3>1, <3>3 DEF AgreeBut
  <2>3. AgreeBut(Pending \cup D)'
    BY <1>1, <1>3, <2>1 DEF AgreeBut
  <2>2. \A g \in Host : g # h => dptr'[g] = dptr[g]
    BY <1>2, <1>3, <1>5 DEF ReclaimEntry, ContentTypes
  <2> QED
    BY <1>3, <1>5, <2>1, <2>2, <2>3 DEF ContentTypes
<1>6. CASE EvictStep /\ ~KeepEntries
  <2>1. \A i \in DOMAIN got : kern.args[i].host \in alive \cap Pinned
    BY <1>3, <1>6, EvictSpares DEF EvictStep, Ready
  <2>2. \/ h \notin alive /\ ReclaimEntry(h, FALSE)
        \/ h \in alive \ Pinned /\ ~hostStale[h] /\ ReclaimEntry(h, pc = "dirty")
        \/ h \in alive \ Pinned /\ hostStale[h] /\ ReclaimEntry(h, TRUE)
    BY <1>6 DEF FreeEntry, EvictStep, Evictable, h
  <2>3. \A i \in DOMAIN got : kern.args[i].host # h
    BY <2>1, <2>2
  <2>4. (pc = "dirty") \in BOOLEAN
    OBVIOUS
  <2> QED
    BY <1>5, <2>2, <2>3, <2>4
<1>7. CASE (FlushStep \/ ReleaseAllStep) /\ ~KeepEntries
  <2>1. got = << >>
    BY <1>7 DEF FlushStep, ReleaseAllStep, Ready, CacheInv, CallInv, Launching
  <2>2. \A i \in DOMAIN got : kern.args[i].host # h
    BY <2>1
  <2>3. (pc = "flush" /\ ReclaimEntry(h, FALSE)) \/ ReclaimEntry(h, TRUE)
    BY <1>7 DEF FreeEntry, FlushStep, ReleaseAllStep, Ready, h
  <2> QED
    BY <1>5, <2>2, <2>3
<1> QED
  BY <1>4, <1>6, <1>7

\* Every step outside a capture keeps the contents, as long as the host
\* leaves the arrays set aside alone.
LEMMA ContentSteps ==
    ASSUME PoolInv, CacheInv, CacheInv', GatherInv, NotSpoilt, SafeLaunch(kern), ~capturing,
           NEW D, PassesNone(D), AgreeBut(Pending \cup D),
           [CallStep]_cacheVars \/ \E h \in Host \ D, write \in BOOLEAN : HostAccess(h, write)
    PROVE  AgreeBut(Pending \cup D)' /\ GatherInv' /\ NotSpoilt'
<1>0. [CacheNext]_cacheVars
  BY DEF CacheNext
<1>1. CallInv /\ CacheTypes /\ GatheredInv /\ MarksInv /\ KeepsGathered' /\ ~spoilt
  BY <1>0, KeepsSteps DEF CacheInv, GatherInv, NotSpoilt
<1> DEFINE Kept == AgreeBut(Pending \cup D)' /\ GatherInv' /\ NotSpoilt'
<1>2. ASSUME AgreeBut(Pending \cup D)', GatheredInv', MarksInv', spoilt' = spoilt \/ ~spoilt' PROVE Kept
  BY <1>1, <1>2 DEF GatherInv, NotSpoilt
<1>3. ASSUME Pending = {}, Pending' = {}, AgreeBut(D)', GatheredInv', MarksInv', spoilt' = spoilt PROVE Kept
  <2>1. AgreeBut(Pending \cup D)'
    BY <1>3 DEF AgreeBut
  <2> QED
    BY <1>2, <1>3, <2>1
<1> HIDE DEF Kept
<1>4. ASSUME NEW k, Launch(k) PROVE Kept
  <2>1. /\ UNCHANGED << dptr, deviceFresh, hostStale, dataVars, spoilt >> /\ alive' \subseteq alive
        /\ got' = << >> /\ Pending = {}
    BY <1>1, <1>4 DEF Launch, Ready, CallInv, Launching, Pending, MarkedOutputs, ghosts, entryVars
  <2> QED
    BY <1>1, <1>2, <2>1, SameContent
<1>5. ASSUME ArgResident \/ CreateEntry PROVE Kept
  <2>1. pc \in {"arg", "create"}
    BY <1>5 DEF ArgResident, CreateEntry, Ready
  <2>2. \E p \in Ptr : /\ dptr' = [dptr EXCEPT ![Arg.host] = p] /\ dptr[Arg.host] \in {p, None}
                       /\ Use(Arg.host, Arg.role, p, deviceFresh[Arg.host], hostStale[Arg.host])
    BY <1>1, <1>5, TakesBuffer
  <2>3. AgreeBut(Pending \cup D)'
    BY <1>1, <2>1, <2>2, UseContent
  <2>4. GatheredInv' /\ MarksInv'
    BY <1>1, <2>1, <2>2, UseGathers
  <2>5. spoilt' = spoilt
    BY <2>2 DEF Use, ghosts
  <2> QED
    BY <1>2, <2>3, <2>4, <2>5
<1>6. ASSUME RunKernel PROVE Kept
  <2>1. OutputsApart(kern)
    BY DEF SafeLaunch
  <2> QED
    BY <1>1, <1>2, <1>6, <2>1, RunContent
<1>8. ASSUME EvictStep \/ FlushStep \/ ReleaseAllStep PROVE Kept
  BY <1>2, <1>8, WalkContent
<1>9. ASSUME pc = "idle", pc' = "idle", UNCHANGED << kern, got >>
      PROVE  Pending = {} /\ Pending' = {} /\ AgreeBut(D) /\ got = << >>
  <2>1. Pending = {} /\ Pending' = {} /\ got = << >>
    BY <1>1, <1>9 DEF Pending, MarkedOutputs, CallInv, Launching
  <2> QED
    BY <2>1 DEF AgreeBut
<1>10. ASSUME NEW h \in Host \ D, NEW write \in BOOLEAN, HostAccess(h, write) PROVE Kept
  <2>1. pc = "idle" /\ pc' = "idle" /\ UNCHANGED << kern, got >> /\ h \notin D
    BY <1>10 DEF HostAccess, Ready, callVars
  <2>2. Pending = {} /\ Pending' = {} /\ AgreeBut(D)
    BY <1>9, <2>1
  <2>3. AgreeBut(D)' /\ GatheredInv' /\ MarksInv' /\ spoilt' = spoilt
    BY <1>1, <1>10, <2>1, <2>2, AccessContent
  <2> QED
    BY <1>3, <2>2, <2>3
<1>11. ASSUME NEW h \in Host, NewArray(h) PROVE Kept
  <2>1. pc = "idle" /\ pc' = "idle" /\ UNCHANGED << kern, got >>
    BY <1>11 DEF NewArray, Ready, callVars
  <2>2. Pending = {} /\ Pending' = {} /\ AgreeBut(D)
    BY <1>9, <2>1
  <2>3. AgreeBut(D \ {h})' /\ GatheredInv' /\ MarksInv' /\ spoilt' = spoilt
    BY <1>1, <1>11, <2>2, NewContent
  <2>4. AgreeBut(D)'
    BY <2>3 DEF AgreeBut
  <2> QED
    BY <1>3, <2>2, <2>3, <2>4
<1>12. ASSUME NEW h \in Host, Finalize(h) PROVE Kept
  <2>1. /\ pc = "idle" /\ pc' = "idle" /\ h \in Residents /\ ReclaimEntry(h, FALSE)
        /\ UNCHANGED << pc, kern, got, alive, spoilt >>
    BY <1>12 DEF Finalize, Ready, Resident, Residents, callVars, ghosts
  <2>2. Pending = {} /\ Pending' = {} /\ AgreeBut(D) /\ got = << >>
    BY <1>9, <2>1
  <2>3. \A i \in DOMAIN got : kern.args[i].host # h
    BY <2>2
  <2>4. FALSE \in BOOLEAN
    OBVIOUS
  <2>5. AgreeBut(D)' /\ GatheredInv' /\ MarksInv' /\ spoilt' = spoilt
    BY <1>1, <2>1, <2>2, <2>3, <2>4, DropContent
  <2> QED
    BY <1>3, <2>2, <2>5
<1>13. ASSUME NEW h \in Host, Collect(h) PROVE Kept
  <2>1. UNCHANGED << dptr, deviceFresh, hostStale, dataVars, spoilt, pc, kern, got >> /\ alive' \subseteq alive
    BY <1>13 DEF Collect, callVars, ghosts, entryVars
  <2> QED
    BY <1>1, <1>2, <2>1, SameContent
<1>14. ASSUME \/ AcquireScratch \/ ArgMissing \/ EvictPassEnds
              \/ WalkEnds \/ (\E kind \in {"flush", "releaseAll"} : StartWalk(kind)) PROVE Kept
  <2>1. UNCHANGED << dptr, deviceFresh, hostStale, dataVars, spoilt, kern, got >> /\ alive' \subseteq alive
        /\ pc # "release" /\ pc' # "release"
    BY <1>14 DEF AcquireScratch, ArgMissing, EvictPassEnds, WalkEnds, StartWalk, Ready, ghosts, entryVars
  <2> QED
    BY <1>1, <1>2, <2>1, SameContent
<1>15. ASSUME ReleaseScratch PROVE Kept
  <2>1. UNCHANGED << dptr, deviceFresh, hostStale, dataVars, spoilt >> /\ alive' \subseteq alive
        /\ Pending = {} /\ got' = << >>
    BY <1>15 DEF ReleaseScratch, Ready, Pending, MarkedOutputs, ghosts, entryVars
  <2> QED
    BY <1>1, <1>2, <2>1, SameContent
<1>16. ASSUME PoolStep \/ UNCHANGED cacheVars PROVE Kept
  <2>1. UNCHANGED << dptr, deviceFresh, hostStale, dataVars, spoilt, pc, kern, got >> /\ alive' \subseteq alive
    BY <1>16 DEF PoolStep, cacheVars, callVars, ghosts, entryVars
  <2> QED
    BY <1>1, <1>2, <2>1, SameContent
<1>17. ~RecordKernel
  BY DEF RecordKernel
<1>18. Kept
  BY <1>4, <1>5, <1>6, <1>8, <1>10, <1>11, <1>12, <1>13, <1>14, <1>15, <1>16, <1>17 DEF CallStep
<1> QED
  BY <1>18 DEF Kept

\* The cache by itself sets aside the outputs of calls that threw.
ContentInv == AgreeBut(Pending \cup abandoned) /\ GatherInv /\ NotSpoilt

\* No kernel has run yet, and the launches of the cache gather safely.
LEMMA InitContent == RInit => ContentInv
  BY DEF RInit, ContentInv, AgreeBut, Agrees, NotSpoilt, GatherInv, GatheredInv, KeepsGathered, MarksInv, NoKernel

\* The launch under way is one of the program's.
LEMMA KernelSafe == Inv /\ GathersSafely => SafeLaunch(kern)
<1>1. SafeLaunch(NoKernel)
  BY DEF SafeLaunch, OutputsApart, PinsAhead, NoKernel
<1> QED
  BY <1>1 DEF Inv, EagerInv, GathersSafely

\* A step that sets no array aside keeps the contents of the others.
LEMMA ContentKept ==
    ASSUME Inv, Inv', GathersSafely, ContentInv, [RNext]_vars, abandoned' = abandoned, ~GatherFails
    PROVE  ContentInv'
<1>1. PICK D : D = abandoned
  OBVIOUS
<1>2. /\ PoolInv /\ CacheInv /\ CacheInv' /\ GatherInv /\ NotSpoilt /\ SafeLaunch(kern) /\ ~capturing
      /\ PassesNone(D)
  BY <1>1, KernelSafe DEF Inv, EagerInv, ContentInv, AsideInv, PassesNone
<1>3. [CallStep]_cacheVars \/ \E h \in Host \ D, write \in BOOLEAN : HostAccess(h, write)
  <2>1. \A h \in Host, write \in BOOLEAN : HostAccess(h, write) => h \notin D
    BY <1>1 DEF HostAccess
  <2> QED
    BY <2>1, RNextIsCacheNext DEF CacheNext
<1>4. AgreeBut(Pending \cup D)
  BY <1>1 DEF ContentInv
<1>5. AgreeBut(Pending \cup D)' /\ GatherInv' /\ NotSpoilt'
  BY <1>2, <1>3, <1>4, ContentSteps
<1> QED
  BY <1>1, <1>5 DEF ContentInv

\* So the contents hold in every behaviour of calls that gather safely.
LEMMA ContentInvariant == GathersSafely => (RSpec => [](Inv /\ ContentInv))
<1> SUFFICES ASSUME GathersSafely PROVE RSpec => [](Inv /\ ContentInv)
  OBVIOUS
<1>1. Inv /\ Inv' /\ ContentInv /\ [RNext]_vars => ContentInv'
  <2> SUFFICES ASSUME Inv, Inv', ContentInv, [RNext]_vars PROVE ContentInv'
    OBVIOUS
  <2>0. /\ CacheInv /\ MarksInv /\ GatheredInv /\ KeepsGathered' /\ ~spoilt
    BY RNextIsCacheNext, KeepsSteps DEF Inv, ContentInv, GatherInv, NotSpoilt
  <2>1. CASE GatherFails
    <3>1. PICK E : E = Pending \cup abandoned
      OBVIOUS
    <3>2. AgreeBut(E)' /\ Pending' = {} /\ MarksInv' /\ GatheredInv' /\ spoilt' = spoilt
      BY <2>0, <2>1, <3>1, FailContent DEF ContentInv
    <3>3. abandoned' = E
      <4>1. abandoned' = abandoned \cup MarkedOutputs /\ pc # "release"
        BY <2>1 DEF GatherFails, Ready
      <4> QED
        BY <3>1, <4>1 DEF Pending
    <3> QED
      BY <2>0, <3>2, <3>3 DEF ContentInv, GatherInv, NotSpoilt, AgreeBut
  <2>2. ASSUME NEW h \in Host, NewArray(h) PROVE ContentInv'
    <3>1. PICK E : E = Pending \cup abandoned
      OBVIOUS
    <3>2. AgreeBut(E \ {h})' /\ GatheredInv' /\ MarksInv' /\ spoilt' = spoilt
      BY <2>0, <2>2, <3>1, NewContent DEF ContentInv
    <3>3. E \ {h} \subseteq Pending' \cup abandoned'
      <4>1. pc = "idle" /\ got = << >> /\ abandoned' = abandoned \ {h}
        BY <2>0, <2>2 DEF NewArray, Ready, CacheInv, CallInv, Launching
      <4>2. Pending = {}
        BY <4>1 DEF Pending, MarkedOutputs
      <4> QED
        BY <3>1, <4>1, <4>2
    <3>4. AgreeBut(Pending \cup abandoned)'
      BY <3>2, <3>3 DEF AgreeBut
    <3> QED
      BY <2>0, <3>2, <3>4 DEF ContentInv, GatherInv, NotSpoilt
  <2> QED
    BY <2>1, <2>2, WhoAbandons, ContentKept
<1> QED
  BY <1>1, InitContent, CacheInvariant, PTL DEF RSpec

(* The copies of every array agree with its marks, so host reads and kernels *)
(* see the last write, whatever was evicted, flushed, collected or thrown;  *)
(* for programs that cannot evict what a launch has gathered.               *)
THEOREM CacheCoherent == GathersSafely => (RSpec => []Coherent)
<1>1. ContentInv => Coherent
  BY DEF ContentInv, AgreeBut, Agrees, Coherent
<1> QED
  BY <1>1, ContentInvariant, PTL

(* For the same programs every launch finds its inputs in its buffers and   *)
(* shares none of them: gathering is safe exactly where eviction is kept    *)
(* away from it.                                                            *)
THEOREM CacheNotSpoilt == GathersSafely => (RSpec => []NotSpoilt)
<1>1. ContentInv => NotSpoilt
  BY DEF ContentInv
<1> QED
  BY <1>1, ContentInvariant, PTL

(* Nothing but a flush drops contents that only the device has.             *)
THEOREM CacheLosesNoWrite == GathersSafely => (RSpec => NoLostWrite)
<1> SUFFICES ASSUME GathersSafely PROVE RSpec => NoLostWrite
  OBVIOUS
<1> DEFINE Step == \A h \in alive \ abandoned : hostStale[h] /\ dptr[h] # None /\ dptr'[h] = None /\ pc # "flush"
                      => hostHas'[h] /\ devHas'[dptr[h]] = h
<1>1. Inv /\ ContentInv /\ [RNext]_vars => [Step]_vars
  <2> SUFFICES ASSUME Inv, ContentInv, RNext, NEW h \in alive \ abandoned, dptr[h] # None, dptr'[h] = None,
                      hostStale[h], pc # "flush"
               PROVE  hostHas'[h] /\ devHas'[dptr[h]] = h
    OBVIOUS
  <2>1. ContentTypes /\ CallInv /\ CacheInv
    BY ContentTypesHold DEF Inv, CacheInv
  <2>2. CASE EvictStep \/ FlushStep \/ ReleaseAllStep
    <3>0. PICK D : D = abandoned
      OBVIOUS
    <3>1. AgreeBut(Pending \cup D) /\ GatherInv /\ SafeLaunch(kern)
      BY <3>0, KernelSafe DEF ContentInv
    <3>2. \A g \in alive \ (Pending \cup D) :
             hostStale[g] /\ dptr[g] # None /\ dptr'[g] = None => hostHas'[g] /\ devHas'[dptr[g]] = g
      BY <2>1, <2>2, <3>1, WalkContent
    <3>3. CASE h \notin Pending
      BY <3>0, <3>2, <3>3
    <3>4. CASE h \in Pending
      <4>1. PICK i \in DOMAIN got : kern.args[i].host = h /\ got # << >> /\ pc # "release"
        BY <3>4 DEF Pending, MarkedOutputs
      <4>2. EvictStep /\ pc \in {"clean", "dirty"}
        BY <2>1, <2>2, <4>1 DEF EvictStep, FlushStep, ReleaseAllStep, Ready, CallInv, Launching
      <4>3. h \in alive \cap Pinned
        BY <2>1, <3>1, <4>1, <4>2, EvictSpares DEF GatherInv
      <4>4. dptr'[h] = dptr[h]
        BY <2>1, <4>2, <4>3, WhoDrops DEF Inv, Residents, ContentTypes, RNext, CacheNext, CallStep
      <4> QED
        BY <4>4
    <3> QED
      BY <3>3, <3>4
  <2>3. ASSUME NEW g \in Host, Finalize(g) PROVE FALSE
    BY <2>1, <2>3 DEF Finalize, ReclaimEntry, ContentTypes
  <2>4. CASE CreateEntry
    <3>1. dptr[Arg.host] = None
      BY <2>1, <2>4 DEF CreateEntry, Ready, CallInv
    <3> QED
      BY <2>1, <2>4, <3>1, ByteFacts DEF CreateEntry, ContentTypes
  <2>5. CASE (\E k \in Kernels : Launch(k)) \/ AcquireScratch \/ ArgResident \/ ArgMissing \/ GatherFails
             \/ EvictPassEnds \/ RunKernel \/ ReleaseScratch \/ WalkEnds
    BY <2>5 DEF Launch, AcquireScratch, ArgResident, ArgMissing, GatherFails, EvictPassEnds,
       RunKernel, ReleaseScratch, WalkEnds, entryVars
  <2>6. CASE \/ \E g \in Host, write \in BOOLEAN : HostAccess(g, write)
             \/ \E kind \in {"flush", "releaseAll"} : StartWalk(kind)
             \/ \E g \in Host : Collect(g) \/ NewArray(g)
             \/ \E e \in late : LateFinalize(e)
             \/ PoolStep
    BY <2>6 DEF HostAccess, StartWalk, Collect, NewArray, LateFinalize, PoolStep, entryVars
  <2> QED
    BY <2>2, <2>3, <2>4, <2>5, <2>6 DEF RNext
<1> QED
  BY <1>1, ContentInvariant, PTL DEF RSpec, NoLostWrite
=============================================================================
