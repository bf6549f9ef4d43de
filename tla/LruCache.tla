------------------------------ MODULE LruCache ------------------------------
(***************************************************************************)
(* The cache of src/modules/lru_cache.c in the slots of a memory block     *)
(* (src/modules/memory_block.c), which lies in a component of an           *)
(* allocation (MemoryLayout).  A slot holds the key of the object that the *)
(* callback miss put there; cmp compares keys.                             *)
(***************************************************************************)
EXTENDS MemoryLayout, FiniteSets

CONSTANTS
  Key,   \* the keys a program looks up
  None   \* "no key": what a slot holds before it is written

ASSUME LruAssumption == None \notin Key

VARIABLES
  capacity,  \* mb.capacity
  slots,     \* slots[i]: slot i of the memory block
  count,     \* count
  live,      \* live[k]: objects of k that miss made and evict has not had
  state,     \* "new", "alive" or "freed"
  out        \* the callbacks of the last access

lruVars == <<capacity, slots, count, live, state, out>>
vars == <<layoutVars, lruVars>>

Filled == 0..(count - 1)

\* Mutant: jfs_mb_remap moves one object too many.
RemapOneMore(m, dest, src, n) ==
  [i \in DOMAIN m |-> IF i \in dest..(dest + n) THEN m[src + (i - dest)] ELSE m[i]]

\* jfs_mb_remap: memmove of n objects.
Remap(m, dest, src, n) ==
  [i \in DOMAIN m |-> IF i \in dest..(dest + n - 1) THEN m[src + (i - dest)]
                   ELSE m[i]]

\* jfs_mb_write.
Write(m, obj, i) == [m EXCEPT ![i] = obj]

\* Mutant: the slot changes places with the first one.
PromoteSwaps(m, i) == [m EXCEPT ![0] = m[i], ![i] = m[0]]

\* lru_promote: slot i becomes the first, the ones before it move down.
Promote(m, i) == Write(Remap(m, 1, 0, i), m[i], 0)

Init ==
  /\ LayoutInit
  /\ capacity = 0 /\ slots = <<>> /\ count = 0
  /\ live = [k \in Key |-> 0] /\ state = "new"
  /\ out = [hit |-> FALSE, evicted |-> None]

\* jfs_lru_init and jfs_mb_init: every slot is part of the capacity, also the
\* one that jfs_lru_make_desc asks for on top.  Slots of an allocation whose
\* size overflowed would lie outside it: what the cache then does is undefined
\* and not modelled.
LruInit ==
  /\ status = "OK" /\ state = "new" /\ memory.fits
  /\ \E b \in Blocks :
       /\ b.name = "lru" /\ ValidDesc(b.desc)
       /\ capacity' = b.desc.count
       /\ slots' = [i \in 0..(b.desc.count - 1) |-> None]
  /\ state' = "alive"
  /\ UNCHANGED <<layoutVars, count, live, out>>

\* jfs_lru_init without all its callbacks.
LruInitError ==
  /\ status = "OK" /\ state = "new" /\ memory # NullMemory
  /\ status' = "BAD_CONF"
  /\ UNCHANGED <<asked, desc, memory, lruVars>>

\* jfs_lru_access finds the key: callback hit.
Hit(k) ==
  /\ state = "alive"
  /\ \E i \in Filled :
       /\ slots[i] = k /\ \A j \in 0..(i - 1) : slots[j] # k
       /\ slots' = IF i # 0 THEN Promote(slots, i) ELSE slots
  /\ out' = [hit |-> TRUE, evicted |-> None]
  /\ UNCHANGED <<layoutVars, capacity, count, live, state>>

\* A key that is not there, and a slot that is free: callback miss.
MissFree(k) ==
  /\ state = "alive" /\ \A i \in Filled : slots[i] # k
  /\ count < capacity
  /\ count' = count + 1
  /\ slots' = Promote(Write(slots, k, count), count)
  /\ live' = [live EXCEPT ![k] = @ + 1]
  /\ out' = [hit |-> FALSE, evicted |-> None]
  /\ UNCHANGED <<layoutVars, capacity, state>>

\* No slot is free: the last one is evicted first.
MissFull(k) ==
  /\ state = "alive" /\ \A i \in Filled : slots[i] # k
  /\ count >= capacity
  /\ LET last == count - 1 IN
       /\ slots' = Promote(Write(slots, k, last), last)
       /\ live' = [live EXCEPT ![slots[last]] = @ - 1, ![k] = @ + 1]
       /\ out' = [hit |-> FALSE, evicted |-> slots[last]]
  /\ UNCHANGED <<layoutVars, capacity, count, state>>

\* jfs_lru_free: every filled slot is evicted.
Free ==
  /\ state = "alive"
  /\ live' = [k \in Key |-> live[k] - Cardinality({i \in Filled : slots[i] = k})]
  /\ state' = "freed"
  /\ UNCHANGED <<layoutVars, capacity, slots, count, out>>

\* jfs_mlg_memory_free.
MemoryFree ==
  /\ memory # NullMemory /\ state # "alive"
  /\ memory' = NullMemory /\ status' = "freed"
  /\ UNCHANGED <<asked, desc, lruVars>>

\* The memory was freed, or there is none.
Ended == status \notin {"OK", "ARG"} /\ memory = NullMemory /\ UNCHANGED vars

Next ==
  \/ LayoutNext /\ UNCHANGED lruVars
  \/ LruInit \/ LruInitError \/ Free \/ MemoryFree \/ Ended
  \/ \E k \in Key : Hit(k) \/ MissFree(k) \/ MissFull(k)

Spec == Init /\ [][Next]_vars

-----------------------------------------------------------------------------
(* Properties. *)

\* Every object that the callback miss made is in exactly one filled slot until
\* evict gets it, no key is cached twice, and after jfs_lru_free no object is
\* left: the shifts of lru_promote neither lose nor double a slot.
ObjectsEvictedOnce ==
  \A k \in Key :
    live[k] = IF state = "alive" /\ \E i \in Filled : slots[i] = k THEN 1 ELSE 0

Abstract ==
  INSTANCE RecencyCache WITH recent <- [i \in 1..count |-> slots[i - 1]]

\* The slots, read from the first to the last, are the keys in the order of
\* their last access: jfs_lru_access implements least-recently-used
\* replacement, and evicts the key that was not accessed for longest.
KeepsMostRecent == Abstract!Spec

=============================================================================
