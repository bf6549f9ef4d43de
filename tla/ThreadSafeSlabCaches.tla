------------------------ MODULE ThreadSafeSlabCaches ------------------------
(***************************************************************************)
(* Why the counts of ThreadSafeSlab's caches are exact until a cache is    *)
(* refreshed: what a cache and a batch hold at each place of a call.       *)
(***************************************************************************)
EXTENDS ThreadSafeSlabInv

\* The provers of a leaf that names none, in this order.
USE SMTT(20), Z3T(20), ZenonT(20)

\* The calls that may be at each place, when none of them is a refresh.
Places(t) ==
  /\ pc[t] = "lock" => op[t] \in {"alloc", "free", "full_release", "explicit_retire"}
  /\ pc[t] = "release" => op[t] \in {"free", "full_release"}
  /\ pc[t] \in {"acquire", "add", "load"} => op[t] = "alloc"
  /\ pc[t] = "retire" => op[t] \in {"alloc", "explicit_retire"}

\* tss_batch_unload has room: the cache of a jfs_tss_alloc under way is empty
\* and its batch is not too large; any other call ends with an empty batch.
Room(t) ==
  /\ pc[t] # "idle" /\ op[t] = "alloc" =>
       cacheCount[t] = 0 /\ Cardinality(batch[t]) <= CacheAcquire
  /\ pc[t] # "idle" /\ op[t] = "explicit_retire" => batch[t] = {}
  /\ pc[t] = "unlock" /\ op[t] # "alloc" => batch[t] = {}

\* cache->free_list_count is the length of its list, which is never full
\* between two steps.
Counted(t) ==
  cacheCount[t] = Cardinality(cacheList[t]) /\ cacheCount[t] < CacheCap

Keeps(t) == Places(t) /\ Room(t) /\ Counted(t)

\* A refresh unloads objects into a cache whatever it holds (see README), so the
\* counts are kept only until the first one.
Cached == "refreshed" \notin past => \A t \in Thread : Keeps(t)

-----------------------------------------------------------------------------

\* A thread whose call, cache and batch a step leaves alone.
LEMMA Untouched ==
  ASSUME NEW t \in Thread, Keeps(t),
         cacheCount'[t] = cacheCount[t], cacheList'[t] = cacheList[t],
         batch'[t] = batch[t], pc'[t] = pc[t], op'[t] = op[t]
  PROVE  Keeps(t)'
BY DEF Keeps, Places, Room, Counted

\* The steps of t touch no other thread.
LEMMA CallsApart ==
  ASSUME TypeOK, NEW t \in Thread, NEW u \in Thread \ {t},
         Call(t) \/ Lock(t) \/ Unlock(t)
  PROVE  /\ cacheCount'[u] = cacheCount[u] /\ cacheList'[u] = cacheList[u]
         /\ batch'[u] = batch[u] /\ pc'[u] = pc[u] /\ op'[u] = op[u]
<1>1. ASSUME NEW f, Fails(f)
      PROVE  /\ cacheCount'[u] = cacheCount[u] /\ cacheList'[u] = cacheList[u]
             /\ batch'[u] = batch[u] /\ pc'[u] = pc[u] /\ op'[u] = op[u]
  BY <1>1 DEF Fails, cacheVars, threadVars
<1>2. CASE AllocFast(t)
  BY <1>1, <1>2 DEF AllocFast, TypeOK, threadVars
<1>3. CASE AllocSlow(t) \/ ExplicitRetire(t)
  BY <1>3 DEF AllocSlow, ExplicitRetire, WantLock, TypeOK, cacheVars
<1>4. ASSUME NEW o \in held, FreeFast(t, o)
      PROVE  /\ cacheCount'[u] = cacheCount[u] /\ cacheList'[u] = cacheList[u]
             /\ batch'[u] = batch[u] /\ pc'[u] = pc[u] /\ op'[u] = op[u]
  BY <1>4 DEF FreeFast, TypeOK, threadVars
<1>5. ASSUME NEW o \in held, FreeSlow(t, o)
      PROVE  /\ cacheCount'[u] = cacheCount[u] /\ cacheList'[u] = cacheList[u]
             /\ batch'[u] = batch[u] /\ pc'[u] = pc[u] /\ op'[u] = op[u]
  BY <1>1, <1>5 DEF FreeSlow, WantLock, TypeOK
<1>6. CASE Refresh(t)
  BY <1>1, <1>6 DEF Refresh, WantLock, TypeOK
<1>7. CASE FullRelease(t)
  BY <1>1, <1>7 DEF FullRelease, WantLock, TypeOK
<1>8. CASE Lock(t)
  BY <1>8 DEF Lock, TypeOK, cacheVars
<1>9. CASE Unlock(t)
  BY <1>9 DEF Unlock, Unload, TypeOK, cacheVars
<1> QED
  BY <1>2, <1>3, <1>4, <1>5, <1>6, <1>7, <1>8, <1>9 DEF Call

\* ... nor under the mutex, where the caches are left alone too.
LEMMA HolderApart ==
  ASSUME TypeOK, NEW t \in Thread, HolderStep(t), ~Unlock(t)
  PROVE  /\ cacheCount' = cacheCount /\ cacheList' = cacheList /\ op' = op
         /\ \A u \in Thread \ {t} : batch'[u] = batch[u] /\ pc'[u] = pc[u]
<1>1. CASE ReleaseObj(t)
  BY <1>1 DEF ReleaseObj, TypeOK, cacheVars, threadVars
<1>2. CASE ReleaseEnd(t) \/ Acquire(t)
  BY <1>2 DEF ReleaseEnd, Acquire, TypeOK, cacheVars
<1>3. CASE AddSlab(t) \/ AddSlabError(t)
  BY <1>3 DEF AddSlab, AddSlabError, TypeOK, cacheVars
<1>4. CASE LoadSlab(t)
  BY <1>4 DEF LoadSlab, TypeOK, cacheVars
<1>5. CASE LoadEnd(t)
  BY <1>5 DEF LoadEnd, Fails, TypeOK, cacheVars, threadVars
<1>6. CASE RetireSlab(t) \/ RetireEnd(t)
  BY <1>6 DEF RetireSlab, RetireEnd, TypeOK, cacheVars
<1> QED
  BY <1>1, <1>2, <1>3, <1>4, <1>5, <1>6 DEF HolderStep

-----------------------------------------------------------------------------
(* What the steps of t do to t.                                             *)

\* The sets of objects of t are finite.
LEMMA Sizes ==
  ASSUME TypeOK, NEW t \in Thread
  PROVE  /\ IsFiniteSet(cacheList[t]) /\ Cardinality(cacheList[t]) \in Nat
         /\ IsFiniteSet(batch[t]) /\ Cardinality(batch[t]) \in Nat
<1>1. cacheList[t] \in SUBSET Obj /\ batch[t] \in SUBSET Obj
  BY DEF TypeOK
<1>2. IsFiniteSet(cacheList[t]) /\ IsFiniteSet(batch[t])
  BY <1>1, Countable
<1> QED
  BY <1>2, FS_CardinalityType

\* jfs_tss_alloc from the cache.
LEMMA AllocFastCounts ==
  ASSUME IInv, NEW t \in Thread, Keeps(t), AllocFast(t)
  PROVE  Keeps(t)'
<1>1. CASE Fails("null_head")
  BY <1>1, Untouched DEF Fails, cacheVars, threadVars
<1>2. CASE ~Fails("null_head")
  <2>1. PICK o \in cacheList[t] :
          /\ cacheList' = [cacheList EXCEPT ![t] = @ \ {o}]
          /\ cacheCount' = [cacheCount EXCEPT ![t] = @ - 1]
          /\ UNCHANGED <<batch, threadVars>>
    BY <1>2 DEF AllocFast
  <2>2. Cardinality(cacheList[t] \ {o}) = Cardinality(cacheList[t]) - 1
    BY Sizes, FS_RemoveElement, Zenon DEF IInv
  <2>3. /\ cacheList'[t] = cacheList[t] \ {o} /\ cacheCount'[t] = cacheCount[t] - 1
        /\ pc'[t] = "idle"
    BY <2>1 DEF IInv, TypeOK, AllocFast, CanCall, threadVars
  <2>4. Counted(t)'
    BY <2>2, <2>3, ConfigAssumption DEF IInv, TypeOK, Keeps, Counted
  <2> QED
    BY <2>3, <2>4 DEF Keeps, Places, Room
<1> QED
  BY <1>1, <1>2

\* jfs_tss_alloc with an empty cache, and the explicit retire.
LEMMA WantLockCounts ==
  ASSUME IInv, NEW t \in Thread, Keeps(t), AllocSlow(t) \/ ExplicitRetire(t)
  PROVE  Keeps(t)'
<1>1. /\ cacheList' = cacheList /\ cacheCount' = cacheCount /\ batch' = batch
      /\ batch[t] = {} /\ pc'[t] = "lock"
      /\ op'[t] \in {"alloc", "explicit_retire"}
      /\ op'[t] = "alloc" => cacheCount[t] = 0
  BY DEF IInv, TypeOK, Control, AllocSlow, ExplicitRetire, CanCall, WantLock,
         cacheVars
<1>2. Cardinality(batch'[t]) = 0
  BY <1>1, FS_EmptySet
<1> QED
  BY <1>1, <1>2, ConfigAssumption DEF Keeps, Places, Room, Counted

\* An object of the program is not in a cache.
LEMMA OneMore ==
  ASSUME IInv, NEW t \in Thread, NEW o \in held
  PROVE  /\ IsFiniteSet(cacheList[t] \cup {o})
         /\ Cardinality(cacheList[t] \cup {o}) = Cardinality(cacheList[t]) + 1
<1>1. o \notin cacheList[t]
  BY Zenon DEF IInv, Apart
<1> QED
  BY <1>1, Sizes, FS_AddElement, Zenon DEF IInv

\* jfs_tss_free into the cache.
LEMMA FreeFastCounts ==
  ASSUME IInv, NEW t \in Thread, NEW o \in held, Keeps(t), FreeFast(t, o)
  PROVE  Keeps(t)'
<1>1. /\ cacheList'[t] = cacheList[t] \cup {o} /\ cacheCount'[t] = cacheCount[t] + 1
      /\ cacheCount[t] \in Nat /\ pc'[t] = "idle"
  BY DEF IInv, TypeOK, FreeFast, CanCall, threadVars
<1>2. ~(cacheCount[t] + 1 >= CacheCap)
  BY DEF FreeFast, CacheFull
<1>3. Counted(t)'
  <2>1. Cardinality(cacheList[t] \cup {o}) = Cardinality(cacheList[t]) + 1
    BY OneMore
  <2>2. cacheCount[t] = Cardinality(cacheList[t]) /\ CacheCap \in Nat
    BY ConfigAssumption DEF Keeps, Counted
  <2>3. cacheCount'[t] = Cardinality(cacheList'[t]) /\ cacheCount'[t] < CacheCap
    BY <1>1, <1>2, <2>1, <2>2
  <2> QED
    BY <2>3 DEF Counted
<1> QED
  BY <1>1, <1>3, Zenon DEF Keeps, Places, Room

\* jfs_tss_free that fills the cache.
LEMMA FreeSlowCounts ==
  ASSUME IInv, NEW t \in Thread, NEW o \in held, Keeps(t), FreeSlow(t, o)
  PROVE  Keeps(t)'
<1>1. CASE Fails("release_target")
  BY <1>1, Untouched DEF Fails, cacheVars, threadVars
<1>2. CASE ~Fails("release_target")
  <2> DEFINE L == cacheList[t] \cup {o}
  <2>1. PICK X \in Loads(L, CacheRelease) :
          /\ Cardinality(X) >= CacheRelease
          /\ cacheList' = [cacheList EXCEPT ![t] = LeftBy(@ \cup {o}, X)]
          /\ cacheCount' = [cacheCount EXCEPT ![t] = @ + 1 - LoadCount(X)]
          /\ WantLock(t, "free")
    BY <1>2 DEF FreeSlow
  <2>2. IsFiniteSet(L) /\ Cardinality(L) = Cardinality(cacheList[t]) + 1
    BY OneMore
  <2>3. X \subseteq L
    BY DEF Loads
  <2>4. /\ cacheList'[t] = L \ X /\ cacheCount'[t] = cacheCount[t] + 1 - Cardinality(X)
        /\ cacheCount[t] \in Nat /\ pc'[t] = "lock" /\ op'[t] = "free"
    BY <2>1 DEF IInv, TypeOK, LeftBy, LoadCount, WantLock
  <2> HIDE DEF L
  <2>5. IsFiniteSet(X) /\ Cardinality(X) \in Nat
    BY <2>2, <2>3, FS_Subset, FS_CardinalityType
  <2>6. Cardinality(L \ X) = Cardinality(L) - Cardinality(X)
    <3>1. L \cap X = X
      BY <2>3
    <3>2. Cardinality(L \ X) = Cardinality(L) - Cardinality(L \cap X)
      BY <2>2, FS_Difference, Zenon
    <3> QED
      BY <3>1, <3>2
  <2>7. Counted(t)'
    <3>1. /\ cacheCount[t] = Cardinality(cacheList[t]) /\ cacheCount[t] < CacheCap
          /\ CacheCap \in Nat /\ CacheRelease \in Nat \ {0}
      BY ConfigAssumption DEF Keeps, Counted
    <3>2. Cardinality(X) >= CacheRelease
      BY <2>1
    <3>3. Cardinality(cacheList'[t]) = Cardinality(L) - Cardinality(X)
      BY <2>4, <2>6
    <3>4. cacheCount'[t] = Cardinality(cacheList'[t]) /\ cacheCount'[t] < CacheCap
      BY <2>2, <2>4, <2>5, <3>1, <3>2, <3>3
    <3> QED
      BY <3>4 DEF Counted
  <2> QED
    BY <2>4, <2>7 DEF Keeps, Places, Room
<1> QED
  BY <1>1, <1>2

\* jfs_tss_cache_full_release, before it locks.
LEMMA FullReleaseCounts ==
  ASSUME IInv, NEW t \in Thread, Keeps(t), FullRelease(t)
  PROVE  Keeps(t)'
<1>1. CASE Fails("full_count")
  BY <1>1, Untouched DEF Fails, cacheVars, threadVars
<1>2. CASE ~Fails("full_count")
  <2>1. /\ cacheList'[t] = {} /\ cacheCount'[t] = 0
        /\ pc'[t] = "lock" /\ op'[t] = "full_release"
    BY <1>2 DEF FullRelease, WantLock, IInv, TypeOK
  <2>2. Cardinality({}) = 0 /\ 0 < CacheCap
    BY FS_EmptySet, ConfigAssumption
  <2> QED
    BY <2>1, <2>2 DEF Keeps, Places, Room, Counted
<1> QED
  BY <1>1, <1>2

\* pthread_mutex_lock.
LEMMA LockCounts ==
  ASSUME IInv, NEW t \in Thread, Keeps(t), Lock(t)
  PROVE  Keeps(t)'
<1>1. /\ cacheList' = cacheList /\ cacheCount' = cacheCount /\ batch' = batch
      /\ op' = op /\ pc[t] = "lock" /\ pc'[t] = Locked(op[t])
  BY DEF Lock, At, IInv, TypeOK, cacheVars
<1>2. op[t] \in {"alloc", "free", "full_release", "explicit_retire"}
  BY <1>1 DEF Keeps, Places
<1>3. Counted(t)'
  BY <1>1 DEF Keeps, Counted
<1>4. /\ op[t] = "alloc" => pc'[t] = "acquire"
      /\ op[t] \in {"free", "full_release"} => pc'[t] = "release"
      /\ op[t] = "explicit_retire" => pc'[t] = "retire"
  BY <1>1 DEF Locked
<1>5. Places(t)'
  BY <1>1, <1>2, <1>4 DEF Places
<1>6. Room(t)'
  BY <1>1, <1>2, <1>4, Zenon DEF Keeps, Room
<1> QED
  BY <1>3, <1>5, <1>6 DEF Keeps

\* The release loop.
LEMMA ReleaseCounts ==
  ASSUME IInv, NEW t \in Thread, Keeps(t), ReleaseObj(t) \/ ReleaseEnd(t)
  PROVE  Keeps(t)'
<1>1. op[t] \in {"free", "full_release"} /\ HolderStep(t) /\ ~Unlock(t)
  BY Zenon DEF ReleaseObj, ReleaseEnd, At, Keeps, Places, HolderStep, Unlock
<1>2. cacheCount' = cacheCount /\ cacheList' = cacheList /\ op' = op
  BY <1>1, HolderApart, Zenon DEF IInv
<1>3. \/ pc'[t] = "release"
      \/ pc'[t] = "unlock" /\ batch'[t] = {}
  BY <1>1 DEF ReleaseObj, ReleaseEnd, At, IInv, TypeOK, threadVars
<1> QED
  BY <1>1, <1>2, <1>3, Zenon DEF Keeps, Places, Room, Counted

\* tss_allocator_batch_acquire takes CacheAcquire objects at most.
LEMMA AcquireCounts ==
  ASSUME IInv, NEW t \in Thread, Keeps(t),
         Acquire(t) \/ AddSlab(t) \/ AddSlabError(t) \/ LoadSlab(t) \/ LoadEnd(t)
  PROVE  Keeps(t)'
<1>1. op[t] = "alloc" /\ HolderStep(t) /\ ~Unlock(t) /\ pc[t] # "idle"
  BY Zenon DEF Acquire, AddSlab, AddSlabError, LoadSlab, LoadEnd, At, Keeps, Places,
         HolderStep, Unlock
<1>2. cacheCount' = cacheCount /\ cacheList' = cacheList /\ op' = op
  BY <1>1, HolderApart, Zenon DEF IInv
<1>3. pc'[t] \in {"add", "load", "retire", "unlock"}
  <2>1. CASE Acquire(t) \/ AddSlab(t) \/ AddSlabError(t)
    BY <2>1, Zenon DEF Acquire, AddSlab, AddSlabError, IInv, TypeOK
  <2>2. CASE LoadSlab(t)
    BY <2>2, Zenon DEF LoadSlab, At
  <2>3. CASE LoadEnd(t)
    <3>1. pc[t] = "load"
      BY <2>3, Zenon DEF LoadEnd, At
    <3>2. t \in DOMAIN pc
      BY DEF IInv, TypeOK
    <3>3. \/ pc' = pc
          \/ pc' = [pc EXCEPT ![t] = IF op[t] = "alloc" /\ ReadyForRetire
                                     THEN "retire" ELSE "unlock"]
      BY <2>3, Zenon DEF LoadEnd, Fails, threadVars
    <3> QED
      BY <3>1, <3>2, <3>3
  <2> QED
    BY <2>1, <2>2, <2>3, Zenon
<1>4. Cardinality(batch'[t]) <= CacheAcquire
  <2>1. CASE LoadSlab(t)
    <3>1. PICK s \in Slab : s = active[at[t]]
      <4>1. at[t] \in Nat \ {0} /\ active \in Seq(Slab)
        BY DEF IInv, TypeOK
      <4>2. at[t] <= Len(active)
        BY <2>1, Zenon DEF LoadSlab
      <4> QED
        BY <4>1, <4>2
    <3> DEFINE n == CacheAcquire - Cardinality(batch[t])
    <3>2. PICK X \in Loads(slabFree[s], n) : batch' = [batch EXCEPT ![t] = @ \cup X]
      BY <2>1, <3>1, Zenon DEF LoadSlab
    <3>3. /\ IsFiniteSet(batch[t]) /\ Cardinality(batch[t]) \in Nat
          /\ CacheAcquire \in Nat /\ Cardinality(batch[t]) < CacheAcquire
      BY <2>1, Sizes, ConfigAssumption, Zenon DEF IInv, LoadSlab
    <3>4. slabFree[s] \in SUBSET Obj /\ n \in Nat
      BY <3>3 DEF IInv, TypeOK
    <3> HIDE DEF n
    <3>5. Cardinality(X) <= n /\ X \in SUBSET Obj
      BY <3>2, <3>4, LoadsBound
    <3>6. IsFiniteSet(X) /\ Cardinality(X) \in Nat
      BY <3>5, Countable, FS_CardinalityType
    <3>7. /\ Cardinality(batch[t] \cup X)
               = Cardinality(batch[t]) + Cardinality(X) - Cardinality(batch[t] \cap X)
          /\ IsFiniteSet(batch[t] \cap X)
      BY <3>3, <3>6, FS_Union, FS_Intersection, Zenon
    <3>8. Cardinality(batch[t] \cap X) \in Nat
      BY <3>7, FS_CardinalityType, Zenon
    <3>9. batch'[t] = batch[t] \cup X
      BY <3>2 DEF IInv, TypeOK
    <3>10. n = CacheAcquire - Cardinality(batch[t])
      BY DEF n
    <3>11. Cardinality(batch[t] \cup X) <= CacheAcquire
      BY <3>3, <3>5, <3>6, <3>7, <3>8, <3>10
    <3> QED
      BY <3>9, <3>11, Zenon
  <2>2. CASE ~LoadSlab(t)
    <3>1. batch' = batch
      BY <2>2, Zenon DEF Acquire, AddSlab, AddSlabError, LoadEnd, Fails
    <3> QED
      BY <1>1, <3>1, Zenon DEF Keeps, Room
  <2> QED
    BY <2>1, <2>2, Zenon
<1> QED
  BY <1>1, <1>2, <1>3, <1>4, Zenon DEF Keeps, Places, Room, Counted

\* tss_allocator_retire_slabs.
LEMMA RetireCounts ==
  ASSUME IInv, NEW t \in Thread, Keeps(t), RetireSlab(t) \/ RetireEnd(t)
  PROVE  Keeps(t)'
<1>1. op[t] \in {"alloc", "explicit_retire"} /\ HolderStep(t) /\ ~Unlock(t)
      /\ pc[t] = "retire"
  BY Zenon DEF RetireSlab, RetireEnd, At, Keeps, Places, HolderStep, Unlock
<1>2. cacheCount' = cacheCount /\ cacheList' = cacheList /\ op' = op
  BY <1>1, HolderApart, Zenon DEF IInv
<1>3. pc'[t] \in {"retire", "unlock"} /\ batch' = batch
  BY <1>1 DEF RetireSlab, RetireEnd, IInv, TypeOK
<1> QED
  BY <1>1, <1>2, <1>3, Zenon DEF Keeps, Places, Room, Counted

\* tss_batch_unload: only jfs_tss_alloc has something to unload, and it keeps
\* one object, so that what is left is below the capacity.
LEMMA UnlockCounts ==
  ASSUME IInv, NEW t \in Thread, Keeps(t), Unlock(t)
  PROVE  Keeps(t)'
<1>1. pc[t] = "unlock" /\ pc'[t] = "idle"
  BY DEF Unlock, At, IInv, TypeOK
<1>2. CASE batch[t] = {} /\ UNCHANGED <<cacheVars, batch, held>>
  BY <1>1, <1>2, Zenon DEF Keeps, Places, Room, Counted, cacheVars
<1>3. CASE ~(batch[t] = {} /\ UNCHANGED <<cacheVars, batch, held>>)
  <2>1. PICK taken \in SUBSET batch[t] :
          /\ batch[t] # {}
          /\ Cardinality(taken) = IF op[t] = "alloc" THEN 1 ELSE 0
          /\ cacheList' = [cacheList EXCEPT ![t] = @ \cup (batch[t] \ taken)]
          /\ cacheCount' = [cacheCount EXCEPT
                              ![t] = @ + Cardinality(batch[t]) - Cardinality(taken)]
    BY <1>3 DEF Unlock, Unload
  <2>2. op[t] = "alloc" /\ cacheCount[t] = 0 /\ Cardinality(batch[t]) <= CacheAcquire
    BY <1>1, <2>1 DEF Keeps, Room
  <2>3. /\ IsFiniteSet(cacheList[t]) /\ Cardinality(cacheList[t]) = 0
        /\ IsFiniteSet(batch[t]) /\ Cardinality(batch[t]) \in Nat
    BY <2>2, Sizes DEF IInv, Keeps, Counted
  <2>4. cacheList[t] = {}
    BY <2>3, FS_EmptySet
  <2>5. /\ cacheList'[t] = batch[t] \ taken
        /\ cacheCount'[t] = Cardinality(batch[t]) - 1
    BY <2>1, <2>2, <2>3, <2>4 DEF IInv, TypeOK
  <2>6. Cardinality(batch[t] \ taken) = Cardinality(batch[t]) - 1
    <3>1. batch[t] \cap taken = taken /\ Cardinality(taken) = 1
      BY <2>1, <2>2
    <3>2. Cardinality(batch[t] \ taken)
            = Cardinality(batch[t]) - Cardinality(batch[t] \cap taken)
      BY <2>3, FS_Difference, Zenon
    <3> QED
      BY <3>1, <3>2
  <2>7. Counted(t)'
    BY <2>2, <2>3, <2>5, <2>6, ConfigAssumption DEF Counted
  <2> QED
    BY <1>1, <2>7, Zenon DEF Keeps, Places, Room
<1> QED
  BY <1>2, <1>3

-----------------------------------------------------------------------------

\* History only grows.
LEMMA PastGrows ==
  ASSUME [Next]_vars
  PROVE  past \subseteq past'
<1>1. ASSUME NEW t \in Thread, Call(t) PROVE past \subseteq past'
  BY <1>1, Zenon DEF Call, AllocFast, AllocSlow, FreeFast, FreeSlow, Refresh,
                   FullRelease, ExplicitRetire, Fails
<1>2. ASSUME NEW t \in Thread, Lock(t) \/ HolderStep(t) PROVE past \subseteq past'
  BY <1>2, Zenon DEF Lock, HolderStep, ReleaseObj, ReleaseEnd, Acquire, AddSlab,
                     AddSlabError, LoadSlab, LoadEnd, RetireSlab, RetireEnd,
                     Unlock, Fails
<1>3. ASSUME Destroy \/ UNCHANGED vars PROVE past \subseteq past'
  BY <1>3, Zenon DEF Destroy, vars
<1> QED
  BY <1>1, <1>2, <1>3 DEF Next, Halted

\* The caches are counted once the allocator is initialised.
LEMMA InitCached == Init => Cached
<1> SUFFICES ASSUME Init, NEW t \in Thread PROVE Keeps(t)
  BY DEF Cached
<1>1. pc[t] = "idle" /\ cacheCount[t] = 0 /\ cacheList[t] = {}
  BY DEF Init
<1>2. Cardinality({}) = 0 /\ 0 < CacheCap
  BY FS_EmptySet, ConfigAssumption
<1> QED
  BY <1>1, <1>2 DEF Keeps, Places, Room, Counted

\* Every step keeps the caches' counts.
LEMMA CachedStep == IInv /\ Cached /\ [Next]_vars => Cached'
<1> SUFFICES ASSUME IInv, Cached, [Next]_vars, "refreshed" \notin past'
             PROVE  \A u \in Thread : Keeps(u)'
  BY DEF Cached
<1>1. ASSUME UNCHANGED <<cacheVars, batch, pc, op>>, past' = past
      PROVE  \A u \in Thread : Keeps(u)'
  BY <1>1, Untouched DEF Cached, cacheVars
<1>2. ASSUME NEW t \in Thread, Call(t) \/ Lock(t) \/ HolderStep(t)
      PROVE  \A u \in Thread : Keeps(u)'
  <2>1. past \subseteq past'
    BY PastGrows
  <2>2. \A u \in Thread : Keeps(u)
    BY <2>1 DEF Cached
  <2>3. ASSUME NEW u \in Thread \ {t} PROVE Keeps(u)'
    <3>1. /\ cacheCount'[u] = cacheCount[u] /\ cacheList'[u] = cacheList[u]
          /\ batch'[u] = batch[u] /\ pc'[u] = pc[u] /\ op'[u] = op[u]
      BY <1>2, CallsApart, HolderApart, Zenon DEF IInv
    <3> QED
      BY <2>2, <3>1, Untouched, Zenon
  <2>4. Keeps(t)'
    <3>1. CASE Refresh(t)
      <4>1. PICK f : Fails(f)
        BY <3>1 DEF Refresh
      <4> QED
        BY <2>2, <4>1, Untouched, Zenon DEF Fails, cacheVars, threadVars
    <3>2. CASE Call(t) /\ ~Refresh(t)
      BY <2>2, <3>2, AllocFastCounts, WantLockCounts, FreeFastCounts,
         FreeSlowCounts, FullReleaseCounts DEF Call
    <3>3. CASE Lock(t)
      BY <2>2, <3>3, LockCounts
    <3>4. CASE HolderStep(t)
      BY <2>2, <3>4, ReleaseCounts, AcquireCounts, RetireCounts, UnlockCounts
        DEF HolderStep
    <3> QED
      BY <1>2, <3>1, <3>2, <3>3, <3>4, Zenon DEF Call
  <2> QED
    BY <2>3, <2>4
<1>3. ASSUME Destroy PROVE UNCHANGED <<cacheVars, batch, pc, op>> /\ past' = past
  BY <1>3 DEF Destroy, threadVars
<1>4. ASSUME UNCHANGED vars PROVE UNCHANGED <<cacheVars, batch, pc, op>> /\ past' = past
  BY <1>4 DEF vars, threadVars
<1> QED
  BY <1>1, <1>2, <1>3, <1>4 DEF Next, Halted

=============================================================================
