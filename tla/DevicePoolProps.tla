--------------------------- MODULE DevicePoolProps ---------------------------
(* What the size-class pool of memory.ts promises its callers. *)
EXTENDS DevicePool

MapTypeOK ==
    /\ size \in [Ptr -> Class \cup {0}]
    /\ order \in Seq(Class)
    /\ list \in [Class -> Seq(Ptr)]
    /\ held \in [Ptr -> Bytes \cup {0}]
    /\ phase \in {"idle", "trim"}
    /\ refused \in Bytes \cup {0}

TypeOK ==
    /\ MapTypeOK
    /\ {pooledBytes, liveBytes, peakLiveBytes, poolCap, rawFreed} \subseteq Int

HeldBytes == SumFunction([p \in Ptr |-> IF held[p] = 0 THEN 0 ELSE sizeClass(held[p])])

Once(s) == \A i, j \in 1..Len(s) : s[i] = s[j] => i = j

(* A pooled pointer is a live driver allocation of exactly its class, sits  *)
(* in one free list once, and nobody holds it; a held pointer is a live     *)
(* driver allocation of the class of its request, so it is large enough.    *)
(* (acquire pops what it hands out, release files under the class of the    *)
(* bytes the pointer was acquired with.)                                    *)
Ownership ==
    /\ \A c \in Class : Once(list[c])
    /\ \A c \in Class : \A p \in ToSet(list[c]) : size[p] = c /\ held[p] = 0
    /\ \A p \in Ptr : held[p] # 0 => size[p] = sizeClass(held[p])

(* A pointer is never handed out while somebody still holds it.             *)
NoDoubleHandOut ==
    [][\A p \in Ptr : held[p] # 0 => held'[p] \in {held[p], 0}]_poolVars

(* The three byte counters are what they are named after.  _liveBytes also  *)
(* counts the pointers that went to free() directly (FreeRaw).              *)
Accounting ==
    /\ pooledBytes = SumFunction([c \in Class |-> c * Len(list[c])])
    /\ liveBytes = HeldBytes + rawFreed
    /\ peakLiveBytes >= liveBytes

(* Every allocation of the driver is held or pooled, and every pooled class *)
(* is a key of the map exactly once, so the trim loop reaches it: no memory *)
(* is out of reach, whatever mix of drains, trims and retries ran.          *)
NoLeak ==
    /\ \A p \in Ptr : size[p] # 0 => held[p] # 0 \/ p \in Pooled
    /\ \A c \in Class : list[c] # << >> => c \in ToSet(order)
    /\ Once(order)

(* Between calls the pool is within its limit.                              *)
WithinLimit == phase = "idle" /\ poolCap # 0 => pooledBytes <= poolCap

(* acquire throws only if what callers hold leaves no room for the request: *)
(* memory that merely sits in the pool never makes an allocation fail.      *)
NoSpuriousOOM ==
    refused # 0 => HeldBytes + sizeClass(refused) > DeviceBytes
=============================================================================
