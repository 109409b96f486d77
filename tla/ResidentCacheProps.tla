-------------------------- MODULE ResidentCacheProps --------------------------
(* What the device-residency cache of resident.ts must guarantee.           *)
EXTENDS ResidentCache, DevicePoolProps

RTypeOK ==
    /\ MapTypeOK
    /\ dptr \in [Host -> Ptr \cup {None}]
    /\ deviceFresh \in [Host -> BOOLEAN] /\ hostStale \in [Host -> BOOLEAN]
    /\ lru \in Seq(Host) /\ scan \in Seq(Host)
    /\ defBytes \in Int /\ late \subseteq [ptr : Ptr, bytes : Bytes]
    /\ pinned \subseteq Host /\ capturePinned \subseteq Host /\ alive \subseteq Host
    /\ hostHas \in [Host -> BOOLEAN] /\ devHas \in [Ptr -> Host \cup {None}]
    /\ pc \in {"idle", "scratch", "arg", "clean", "dirty", "create", "launch",
               "release", "flush", "releaseAll"}
    /\ kern \in Kernels \cup {NoKernel}
    /\ got \in Seq(Ptr)
    /\ pc = "launch" => Len(got) = Len(kern.args)
    /\ scratchPtr \in Ptr \cup {None}
    /\ capturing \in BOOLEAN /\ spoilt \in BOOLEAN /\ lost \subseteq Ptr /\ abandoned \subseteq Host

\* The outputs of the launch under way, marked before the kernel wrote them.
Pending == IF pc = "release" THEN {} ELSE MarkedOutputs

(* The copies of an array agree with its marks: without an entry the host   *)
(* array has the contents, a fresh buffer has them, a stale mark stands on  *)
(* every array whose host bytes are old.  So a read through hostReadHook    *)
(* and a kernel reading a fresh buffer see the last write.  The outputs of  *)
(* the running launch, and of one that threw, are marked before the kernel  *)
(* writes them; nobody else can name them.                                  *)
Coherent ==
    \A h \in alive \ (Pending \cup abandoned) :
        /\ dptr[h] = None => hostHas[h]
        /\ deviceFresh[h] => devHas[dptr[h]] = h
        /\ ~hostStale[h] => hostHas[h]
        /\ hostStale[h] => deviceFresh[h]

(* No two entries share a buffer, the running launch's scratch buffer is    *)
(* nobody's entry, and the pool holds none of them: every entry's buffer is *)
(* acquired with the array's size.                                          *)
EntryOwnership ==
    /\ \A h \in Host : dptr[h] # None => held[dptr[h]] = byteLength[h]
    /\ \A g, h \in Host : g # h /\ dptr[g] # None => dptr[g] # dptr[h]
    /\ scratchPtr # None =>
          /\ held[scratchPtr] = ScratchBytes
          /\ \A h \in Host : dptr[h] # scratchPtr

(* The pool hands out nothing that the cache forgets: every held buffer is  *)
(* an entry's or the running launch's scratch, or the scratch buffer of a   *)
(* launch whose gathering threw, the one way the code loses a buffer.       *)
NothingForgotten ==
    \A p \in Ptr : held[p] # 0 =>
        \/ p = scratchPtr
        \/ p \in lost
        \/ \E h \in Host : dptr[h] = p

(* _entries lists every entry once, and _defBytes is their sum.             *)
CacheAccounting ==
    /\ ToSet(lru) = { h \in Host : dptr[h] # None } /\ IsInjective(lru)
    /\ defBytes = SumFunction([h \in Host |-> IF dptr[h] = None THEN 0 ELSE byteLength[h]])

(* Eviction keeps the cache within its limit as long as anything unpinned   *)
(* is left to evict.                                                        *)
EvictionSuffices ==
    pc = "create" /\ defBytes + byteLength[Arg.host] > Cap =>
        capturing \/ \A h \in alive : dptr[h] # None => h \in Pinned

(* Every launch finds the contents of its inputs in the buffers it passes   *)
(* and shares none of them with another argument.                           *)
NotSpoilt == ~spoilt

(* A pinned array keeps its device buffer until the array itself dies or    *)
(* everything is released.                                                  *)
PinnedStays ==
    [][\A h \in Pinned : dptr[h] # None /\ pc # "releaseAll" => dptr'[h] = dptr[h]]_vars

(* Only flushDeferred drops contents that exist on the device alone: every  *)
(* other way out of the cache writes them back first, so the array still    *)
(* has the contents the freed buffer has.                                   *)
NoLostWrite ==
    [][\A h \in alive \ abandoned : hostStale[h] /\ dptr[h] # None /\ dptr'[h] = None /\ pc # "flush"
           => hostHas'[h] /\ devHas'[dptr[h]] = h]_vars

-----------------------------------------------------------------------------
(* A launch takes its pointers one by one, and making room for one argument *)
(* may evict an array taken before (the run of MCResidentEvict.cfg).  The   *)
(* launches that cannot meet that: either all arrays fit into the cache, or *)
(* the launch pins what it has taken before it takes its last argument.  An *)
(* array that is only written is no other argument: the callers allocate it. *)
HostsFit == SumFunction(byteLength) <= Cap

PinsAhead(k) == \A i \in DOMAIN k.args : i < Len(k.args) => k.args[i].host \in k.pins

OutputsApart(k) ==
    \A i, j \in DOMAIN k.args : i # j /\ k.args[i].role = "out" => k.args[i].host # k.args[j].host

SafeLaunch(k) == OutputsApart(k) /\ (HostsFit \/ PinsAhead(k))

GathersSafely == \A k \in Kernels : SafeLaunch(k)
=============================================================================
