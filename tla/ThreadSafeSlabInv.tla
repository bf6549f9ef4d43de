------------------------- MODULE ThreadSafeSlabInv --------------------------
(***************************************************************************)
(* An inductive invariant of ThreadSafeSlab, for any number of threads,    *)
(* caches of any size and slabs of any size, and how objects move between  *)
(* the places it speaks of.  It has two halves: Slabs, which sees the      *)
(* threads only through the set Out, and Apart, which says that no object  *)
(* is out twice.  The steps that leave the slabs alone keep it.            *)
(***************************************************************************)
EXTENDS ThreadSafeSlab, FiniteSetTheorems, TLAPS

\* The provers of a leaf that names none, in this order.
USE SMTT(20), Z3T(20), ZenonT(20)

\* No object is with two of the program, the caches and the batches.
Apart ==
  \A t \in Thread :
    /\ held \cap (cacheList[t] \cup batch[t]) = {}
    /\ cacheList[t] \cap batch[t] = {}
    /\ \A u \in Thread \ {t} :
         (cacheList[t] \cup batch[t]) \cap (cacheList[u] \cup batch[u]) = {}

\* The active list names each slab once, none of them retired; these and the
\* retired slabs, which all have an object out, are the slabs that are mapped.
Lists ==
  /\ \A i, j \in 1..Len(active) : active[i] = active[j] => i = j
  /\ retired \cap ActiveSlabs = {}
  /\ \A s \in retired : used[s] > 0
  /\ mapped = ActiveSlabs \cup retired

\* The free list of a mapped slab has the objects that are not out.
FreeExact == \A s \in mapped : slabFree[s] = ObjectsOf(s) \ OutOf(s)

Slabs == Lists /\ FreeExact /\ SlabsOutlastObjects /\ CountsExact

\* Where a thread is and the call it is in.
Control ==
  /\ ~alive => \A t \in Thread : pc[t] = "idle"
  /\ \A t \in Thread : /\ pc[t] = "idle" => batch[t] = {}
                       /\ pc[t] = "lock" => op[t] \in Calls \ {"destroy"}
                       /\ pc[t] = "add" => todo[t] > 0

IInv == TypeOK /\ Control /\ Apart /\ Slabs

-----------------------------------------------------------------------------
(* Facts about objects and numbers.                                         *)

\* The address space has finitely many objects.
LEMMA ObjFinite == IsFiniteSet(Obj)
<1>1. IsFiniteSet(1..ObjPerSlab)
  BY FS_Interval, ConfigAssumption
<1> QED
  BY <1>1, FS_Product, SizeAssumption, Zenon DEF Obj

\* A size_t that does not leave its range is not wrapped around, and one that
\* does stays a size_t.
LEMMA Wrap ==
  ASSUME NEW n \in Int
  PROVE  /\ SizeMod \in Nat \ {0}
         /\ n % SizeMod \in 0..(SizeMod - 1)
         /\ n \in 0..(SizeMod - 1) => n % SizeMod = n
<1>1. IsFiniteSet(Obj)
  BY ObjFinite
<1>2. Cardinality(Obj) \in Nat
  BY <1>1, FS_CardinalityType
<1>3. SizeMod \in Nat \ {0}
  BY <1>2, SizeAssumption DEF Obj
<1> QED
  BY <1>3

\* A set of objects is finite, and a size_t holds its number.
LEMMA Countable ==
  ASSUME NEW S \in SUBSET Obj
  PROVE  /\ IsFiniteSet(S)
         /\ Cardinality(S) \in 0..(SizeMod - 1)
         /\ Cardinality(S) = 0 <=> S = {}
<1>1. IsFiniteSet(Obj)
  BY ObjFinite
<1>2. IsFiniteSet(S) /\ Cardinality(S) <= Cardinality(Obj)
  BY <1>1, FS_Subset
<1>3. Cardinality(S) \in Nat /\ Cardinality(Obj) \in Nat
  BY <1>1, <1>2, FS_CardinalityType
<1>4. Cardinality(S) = 0 <=> S = {}
  BY <1>2, FS_EmptySet
<1> QED
  BY <1>2, <1>3, <1>4, SizeAssumption DEF Obj

\* What it means that an object is out of its slab's list.
LEMMA OutMember ==
  ASSUME NEW o
  PROVE  o \in Out <=> \/ o \in held
                       \/ \E t \in Thread : o \in cacheList[t] \/ o \in batch[t]
BY DEF Out

\* ... and after a step.
LEMMA OutMemberNext ==
  ASSUME NEW o
  PROVE  o \in Out' <=> \/ o \in held'
                        \/ \E t \in Thread : o \in cacheList'[t] \/ o \in batch'[t]
BY DEF Out

\* Only objects are out.
LEMMA OutObjects == TypeOK => Out \subseteq Obj
BY OutMember DEF TypeOK

\* An object lies in one of the slabs.
LEMMA SlabOfObject ==
  ASSUME NEW o \in Obj
  PROVE  SlabOf(o) \in Slab /\ o \in ObjectsOf(SlabOf(o))
BY DEF Obj, SlabOf, ObjectsOf

\* tss_batch_load takes no more than it is asked for.
LEMMA LoadsBound ==
  ASSUME NEW list \in SUBSET Obj, NEW n \in Nat, NEW X \in Loads(list, n)
  PROVE  /\ X \subseteq list /\ Cardinality(X) \in 0..(SizeMod - 1)
         /\ Cardinality(X) <= n
<1>1. X \in SUBSET Obj
  BY DEF Loads
<1>2. Cardinality(X) \in 0..(SizeMod - 1)
  BY <1>1, Countable
<1> QED
  BY <1>2 DEF Loads

-----------------------------------------------------------------------------
(* How objects move.                                                        *)

\* The slabs do not notice a step that neither changes them nor what is out.
LEMMA SlabsKept ==
  ASSUME Slabs, Out' = Out, UNCHANGED <<allocVars, slabVars, alive>>
  PROVE  Slabs'
<1>1. /\ active' = active /\ usedObjs' = usedObjs /\ mapped' = mapped /\ used' = used
      /\ slabFree' = slabFree /\ retired' = retired /\ alive' = alive
  BY DEF allocVars, slabVars
<1>2. ActiveSlabs' = ActiveSlabs /\ \A s : OutOf(s)' = OutOf(s)
  BY <1>1 DEF ActiveSlabs, OutOf
<1>3. Lists'
  BY <1>1, <1>2 DEF Slabs, Lists
<1>4. FreeExact' /\ SlabsOutlastObjects' /\ CountsExact'
  BY <1>1, <1>2 DEF Slabs, FreeExact, SlabsOutlastObjects, CountsExact
<1> QED
  BY <1>3, <1>4 DEF Slabs

\* A failing assert changes nothing else.
LEMMA FailsKeeps ==
  ASSUME IInv, NEW f \in Faults, Fails(f)
  PROVE  IInv'
<1>1. TypeOK'
  BY DEF IInv, TypeOK, Fails, allocVars, slabVars, cacheVars, threadVars
<1>2. Control' /\ Apart'
  BY DEF IInv, Control, Apart, Fails, cacheVars, threadVars
<1>3. Out' = Out
  BY DEF Out, Fails, cacheVars
<1>4. Slabs'
  BY <1>3, SlabsKept DEF IInv, Fails
<1> QED
  BY <1>1, <1>2, <1>4 DEF IInv

\* What the program has, and thread t in its cache and its batch.
Hands(t) == held \cup cacheList[t] \cup batch[t]

\* t moves objects between the three, or takes some that were not out.
Moves(t) ==
  /\ \A u \in Thread \ {t} : cacheList'[u] = cacheList[u] /\ batch'[u] = batch[u]
  /\ held' \cap cacheList'[t] = {} /\ held' \cap batch'[t] = {}
  /\ cacheList'[t] \cap batch'[t] = {}
  /\ \A o \in Hands(t)' : o \in Hands(t) \/ o \notin Out

\* The other threads' objects stay apart, and stay out.
LEMMA Moved ==
  ASSUME Apart, NEW t \in Thread, Moves(t)
  PROVE  Apart' /\ Out' = (Out \ Hands(t)) \cup Hands(t)'
<1>1. ASSUME NEW u \in Thread \ {t}, NEW o \in cacheList[u] \cup batch[u]
      PROVE  o \in Out /\ o \notin Hands(t) /\ o \notin Hands(t)'
  <2>1. o \in Out
    BY <1>1, OutMember
  <2>2. o \notin Hands(t)
    BY <1>1 DEF Apart, Hands
  <2> QED
    BY <2>1, <2>2 DEF Moves
<1>2. Apart'
  BY <1>1 DEF Apart, Moves, Hands
<1>3. ASSUME NEW o
      PROVE  o \in Out' <=> o \in Hands(t)' \/ (o \in Out /\ o \notin Hands(t))
  <2>1. ASSUME o \in Out' PROVE o \in Hands(t)' \/ (o \in Out /\ o \notin Hands(t))
    BY <1>1, <2>1, OutMemberNext DEF Moves, Hands
  <2>2. ASSUME o \in Hands(t)' PROVE o \in Out'
    BY <2>2, OutMemberNext DEF Hands
  <2>3. ASSUME o \in Out, o \notin Hands(t) PROVE o \in Out'
    BY <2>3, OutMember, OutMemberNext DEF Moves, Hands
  <2> QED
    BY <2>1, <2>2, <2>3
<1> QED
  BY <1>2, <1>3

\* Nothing else happens when the three have what they had.
LEMMA Rearranged ==
  ASSUME IInv, NEW t \in Thread, Moves(t), Hands(t)' = Hands(t),
         UNCHANGED <<allocVars, slabVars, alive>>
  PROVE  Apart' /\ Slabs'
<1>1. Apart' /\ Out' = (Out \ Hands(t)) \cup Hands(t)
  BY Moved DEF IInv
<1>2. Hands(t) \subseteq Out
  BY OutMember DEF Hands
<1>3. Out' = Out
  BY <1>1, <1>2
<1> QED
  BY <1>1, <1>3, SlabsKept DEF IInv

\* A step that touches neither slabs nor objects.
LEMMA Still ==
  ASSUME IInv, UNCHANGED <<allocVars, slabVars, alive, held, cacheList, batch>>
  PROVE  Apart' /\ Slabs'
<1>1. Out' = Out
  BY DEF Out
<1>2. Apart'
  BY DEF IInv, Apart
<1> QED
  BY <1>1, <1>2, SlabsKept DEF IInv

-----------------------------------------------------------------------------
(* The calls, up to the mutex.                                              *)

\* jfs_tss_alloc from the cache.
LEMMA AllocFastKeeps ==
  ASSUME IInv, NEW t \in Thread, AllocFast(t)
  PROVE  IInv'
<1>1. CASE Fails("null_head")
  BY <1>1, FailsKeeps DEF Faults
<1>2. CASE ~Fails("null_head")
  <2>1. PICK o \in cacheList[t] :
          /\ cacheList' = [cacheList EXCEPT ![t] = @ \ {o}]
          /\ cacheCount' = [cacheCount EXCEPT ![t] = @ - 1]
          /\ held' = held \cup {o}
          /\ UNCHANGED <<lock, allocVars, slabVars, batch, threadVars, alive,
                         fault, past>>
    BY <1>2 DEF AllocFast
  <2>2. o \in Obj /\ cacheCount[t] - 1 \in Nat
    BY DEF IInv, TypeOK, AllocFast
  <2>3. TypeOK'
    BY <2>1, <2>2, Zenon DEF IInv, TypeOK, allocVars, slabVars, threadVars
  <2>4. Control'
    BY <2>1 DEF IInv, Control, threadVars
  <2>5. /\ \A u \in Thread \ {t} : cacheList'[u] = cacheList[u] /\ batch'[u] = batch[u]
        /\ cacheList'[t] = cacheList[t] \ {o} /\ batch'[t] = batch[t]
    BY <2>1 DEF IInv, TypeOK
  <2>6. Moves(t) /\ Hands(t)' = Hands(t)
    BY <2>1, <2>5 DEF IInv, Apart, Moves, Hands
  <2>7. Apart' /\ Slabs'
    BY <2>1, <2>6, Rearranged
  <2> QED
    BY <2>3, <2>4, <2>7 DEF IInv
<1> QED
  BY <1>1, <1>2

\* jfs_tss_alloc with an empty cache, and the explicit retire.
LEMMA WantLockKeeps ==
  ASSUME IInv, NEW t \in Thread, AllocSlow(t) \/ ExplicitRetire(t)
  PROVE  IInv'
<1>1. UNCHANGED <<lock, allocVars, slabVars, cacheVars, batch, held, todo, at,
                  alive, fault, past>>
  BY DEF AllocSlow, ExplicitRetire
<1>2. alive /\ \E c \in Calls \ {"destroy"} : WantLock(t, c)
  BY DEF AllocSlow, ExplicitRetire, CanCall, Calls
<1>3. TypeOK'
  BY <1>1, <1>2 DEF IInv, TypeOK, WantLock, allocVars, slabVars, cacheVars
<1>4. Control'
  BY <1>1, <1>2 DEF IInv, TypeOK, Control, WantLock
<1>5. Apart' /\ Slabs'
  BY <1>1, Still DEF cacheVars
<1> QED
  BY <1>3, <1>4, <1>5 DEF IInv

\* jfs_tss_free into the cache.
LEMMA FreeFastKeeps ==
  ASSUME IInv, NEW t \in Thread, NEW o \in held, FreeFast(t, o)
  PROVE  IInv'
<1>1. TypeOK'
  BY DEF IInv, TypeOK, FreeFast, allocVars, slabVars, threadVars
<1>2. Control'
  BY Zenon DEF IInv, Control, FreeFast, threadVars
<1>3. /\ \A u \in Thread \ {t} : cacheList'[u] = cacheList[u] /\ batch'[u] = batch[u]
      /\ cacheList'[t] = cacheList[t] \cup {o} /\ batch'[t] = batch[t]
      /\ held' = held \ {o}
  BY Zenon DEF IInv, TypeOK, FreeFast
<1>4. Moves(t) /\ Hands(t)' = Hands(t)
  BY <1>3 DEF IInv, Apart, Moves, Hands
<1>5. Apart' /\ Slabs'
  BY <1>4, Rearranged DEF FreeFast
<1> QED
  BY <1>1, <1>2, <1>5 DEF IInv

\* jfs_tss_free that fills the cache.  The cache has as many objects as it is
\* said to have only when no cache was refreshed, so the count is bounded by
\* what tss_batch_load may return.
LEMMA FreeSlowKeeps ==
  ASSUME IInv, NEW t \in Thread, NEW o \in held, FreeSlow(t, o)
  PROVE  IInv'
<1>1. CASE Fails("release_target")
  BY <1>1, FailsKeeps DEF Faults
<1>2. CASE ~Fails("release_target")
  <2>1. PICK X \in Loads(cacheList[t] \cup {o}, CacheRelease) :
          /\ held' = held \ {o}
          /\ cacheList' = [cacheList EXCEPT ![t] = LeftBy(@ \cup {o}, X)]
          /\ cacheCount' = [cacheCount EXCEPT ![t] = @ + 1 - LoadCount(X)]
          /\ batch' = [batch EXCEPT ![t] = X]
          /\ WantLock(t, "free")
          /\ UNCHANGED <<lock, allocVars, slabVars, todo, at, alive, fault, past>>
    BY <1>2 DEF FreeSlow
  <2>2. cacheList[t] \cup {o} \in SUBSET Obj /\ CacheRelease \in Nat
    BY ConfigAssumption DEF IInv, TypeOK
  <2>3. /\ X \subseteq cacheList[t] \cup {o}
        /\ Cardinality(X) \in 0..(SizeMod - 1) /\ Cardinality(X) <= CacheRelease
    <3> DEFINE L == cacheList[t] \cup {o}
    <3>1. L \in SUBSET Obj /\ X \in Loads(L, CacheRelease) /\ CacheRelease \in Nat
      BY <2>1, <2>2
    <3> HIDE DEF L
    <3>2. X \subseteq L /\ Cardinality(X) \in 0..(SizeMod - 1)
          /\ Cardinality(X) <= CacheRelease
      BY <3>1, LoadsBound
    <3> QED
      BY <3>2 DEF L
  <2>4. cacheCount[t] + 1 - Cardinality(X) \in Nat
    BY <2>3, ConfigAssumption DEF IInv, TypeOK, FreeSlow, CacheFull
  <2>5. X \in SUBSET Obj
    BY <2>2, <2>3
  <2>6. TypeOK'
    BY <2>1, <2>2, <2>4, <2>5, Zenon
      DEF IInv, TypeOK, LeftBy, LoadCount, WantLock, Calls, allocVars, slabVars
  <2>7. Control'
    BY <2>1, Zenon DEF IInv, TypeOK, Control, WantLock, Calls, FreeSlow, CanCall
  <2>8. /\ \A u \in Thread \ {t} : cacheList'[u] = cacheList[u] /\ batch'[u] = batch[u]
        /\ cacheList'[t] = (cacheList[t] \cup {o}) \ X /\ batch'[t] = X
        /\ held' = held \ {o} /\ batch[t] = {}
    BY <2>1, Zenon DEF IInv, TypeOK, Control, LeftBy, FreeSlow, CanCall
  <2>9. Moves(t) /\ Hands(t)' = Hands(t)
    BY <2>3, <2>8 DEF IInv, Apart, Moves, Hands
  <2>10. Apart' /\ Slabs'
    BY <2>1, <2>9, Rearranged
  <2> QED
    BY <2>6, <2>7, <2>10 DEF IInv
<1> QED
  BY <1>1, <1>2

\* What Refresh and FullRelease have in common: the cache's objects X go to
\* the batch.
LEMMA ToBatch ==
  ASSUME IInv, NEW t \in Thread, NEW X \in SUBSET cacheList[t], pc[t] = "idle",
         alive, NEW c \in Calls \ {"destroy"}, WantLock(t, c),
         cacheList' = [cacheList EXCEPT ![t] = @ \ X],
         cacheCount' \in [Thread -> Nat],
         batch' = [batch EXCEPT ![t] = X], past' \subseteq {"retired", "refreshed"},
         UNCHANGED <<lock, allocVars, slabVars, held, todo, at, alive, fault>>
  PROVE  IInv'
<1>1. X \in SUBSET Obj
  BY DEF IInv, TypeOK
<1>2. TypeOK'
  BY <1>1, Zenon DEF IInv, TypeOK, WantLock, allocVars, slabVars
<1>3. Control'
  BY Zenon DEF IInv, TypeOK, Control, WantLock
<1>4. /\ \A u \in Thread \ {t} : cacheList'[u] = cacheList[u] /\ batch'[u] = batch[u]
      /\ cacheList'[t] = cacheList[t] \ X /\ batch'[t] = X
      /\ held' = held /\ batch[t] = {}
  BY Zenon DEF IInv, TypeOK, Control
<1>5. Moves(t) /\ Hands(t)' = Hands(t)
  BY <1>4 DEF IInv, Apart, Moves, Hands
<1>6. Apart' /\ Slabs'
  BY <1>5, Rearranged, Zenon
<1> QED
  BY <1>2, <1>3, <1>6 DEF IInv

\* jfs_tss_cache_refresh, before it locks.
LEMMA RefreshKeeps ==
  ASSUME IInv, NEW t \in Thread, Refresh(t)
  PROVE  IInv'
<1>1. CASE \E f \in Faults : Fails(f)
  BY <1>1, FailsKeeps
<1>2. CASE ~\E f \in Faults : Fails(f)
  <2>1. PICK X \in Loads(cacheList[t], cacheCount[t]) :
          /\ cacheList' = [cacheList EXCEPT ![t] = LeftBy(@, X)]
          /\ batch' = [batch EXCEPT ![t] = X]
          /\ WantLock(t, "refresh")
          /\ past' = past \cup {"refreshed"}
          /\ UNCHANGED <<lock, allocVars, slabVars, cacheCount, held,
                         todo, at, alive, fault>>
    BY <1>2 DEF Refresh, Faults
  <2>2. X \in SUBSET cacheList[t]
    BY <2>1, Zenon DEF Loads
  <2>3. pc[t] = "idle" /\ alive /\ "refresh" \in Calls \ {"destroy"}
    BY Zenon DEF Refresh, CanCall, Calls
  <2>4. /\ cacheList' = [cacheList EXCEPT ![t] = @ \ X]
        /\ cacheCount' \in [Thread -> Nat]
        /\ past' \subseteq {"retired", "refreshed"}
    BY <2>1 DEF IInv, TypeOK, LeftBy
  <2> QED
    BY <2>1, <2>2, <2>3, <2>4, ToBatch, Zenon
<1> QED
  BY <1>1, <1>2

\* jfs_tss_cache_full_release, before it locks.
LEMMA FullReleaseKeeps ==
  ASSUME IInv, NEW t \in Thread, FullRelease(t)
  PROVE  IInv'
<1>1. CASE Fails("full_count")
  BY <1>1, FailsKeeps DEF Faults
<1>2. CASE ~Fails("full_count")
  <2>1. /\ cacheList' = [cacheList EXCEPT ![t] = {}]
        /\ cacheCount' = [cacheCount EXCEPT ![t] = 0]
        /\ batch' = [batch EXCEPT ![t] = cacheList[t]]
        /\ WantLock(t, "full_release")
        /\ UNCHANGED <<lock, allocVars, slabVars, held, todo, at, alive,
                       fault, past>>
    BY <1>2, Zenon DEF FullRelease
  <2>2. pc[t] = "idle" /\ alive /\ "full_release" \in Calls \ {"destroy"}
    BY Zenon DEF FullRelease, CanCall, Calls
  <2>3. /\ cacheList' = [cacheList EXCEPT ![t] = @ \ cacheList[t]]
        /\ cacheCount' \in [Thread -> Nat]
        /\ past' \subseteq {"retired", "refreshed"}
    BY <2>1, Zenon DEF IInv, TypeOK
  <2> QED
    BY <2>1, <2>2, <2>3, ToBatch, Zenon
<1> QED
  BY <1>1, <1>2

-----------------------------------------------------------------------------
(* Under the mutex: steps that leave the slabs alone.                       *)

\* pthread_mutex_lock.
LEMMA LockKeeps ==
  ASSUME IInv, NEW t \in Thread, Lock(t)
  PROVE  IInv'
<1>1. Locked(op[t]) \in {"acquire", "release", "retire"}
  BY DEF IInv, Control, Lock, At, Calls, Locked
<1>2. TypeOK'
  BY <1>1 DEF IInv, TypeOK, Lock, allocVars, slabVars, cacheVars
<1>3. alive
  BY DEF IInv, Control, Lock, At
<1>4. Control'
  BY <1>1, <1>3 DEF IInv, TypeOK, Control, Lock
<1>5. Apart' /\ Slabs'
  BY Still DEF Lock, cacheVars
<1> QED
  BY <1>2, <1>4, <1>5 DEF IInv

\* The ends of the release and of the retire loop.
LEMMA LoopEndKeeps ==
  ASSUME IInv, NEW t \in Thread, ReleaseEnd(t) \/ RetireEnd(t)
  PROVE  IInv'
<1>1. /\ UNCHANGED <<lock, allocVars, slabVars, cacheVars, batch, held, op, todo,
                     alive, fault, past>>
      /\ \E p \in {"acquire", "unlock"} : pc' = [pc EXCEPT ![t] = p]
      /\ at' \in [Thread -> Nat \ {0}]
      /\ pc[t] \in {"release", "retire"}
  <2>1. CASE ReleaseEnd(t)
    BY <2>1, Zenon DEF ReleaseEnd, At, IInv, TypeOK
  <2>2. CASE RetireEnd(t)
    BY <2>2 DEF RetireEnd, At, IInv, TypeOK
  <2> QED
    BY <2>1, <2>2
<1>2. TypeOK'
  BY <1>1, Zenon DEF IInv, TypeOK, allocVars, slabVars, cacheVars
<1>3. Control'
  BY <1>1, Zenon DEF IInv, TypeOK, Control
<1>4. Apart' /\ Slabs'
  BY <1>1, Still DEF cacheVars
<1> QED
  BY <1>2, <1>3, <1>4 DEF IInv

\* number_of_slabs is a number, whatever the counters say.
LEMMA SlabsToAddType == TypeOK => SlabsToAdd \in Nat
<1> SUFFICES ASSUME TypeOK PROVE SlabsToAdd \in Nat
  OBVIOUS
<1>1. activeCount \in Int /\ usedObjs \in Int /\ ObjPerSlab \in Nat \ {0}
  BY ConfigAssumption DEF TypeOK
<1>2. ObjPerSlab * activeCount \in Int
  BY <1>1
<1>3. ObjPerSlab * activeCount - usedObjs \in Int
  BY <1>1, <1>2
<1>4. ObjRemaining \in 0..(SizeMod - 1) /\ SizeMod \in Nat
  BY <1>3, Wrap DEF ObjRemaining
<1>5. ASSUME ObjRemaining < CacheAcquire
      PROVE  (CacheAcquire - ObjRemaining) \div ObjPerSlab \in Nat
  <2>1. CacheAcquire - ObjRemaining \in Nat
    BY <1>4, <1>5, ConfigAssumption
  <2>2. ASSUME NEW n \in Nat, NEW m \in Nat \ {0} PROVE n \div m \in Nat
    OBVIOUS
  <2> QED
    BY <1>1, <2>1, <2>2
<1> QED
  BY <1>5 DEF SlabsToAdd

\* tss_allocator_batch_acquire up to its loops, and a failed mmap.
LEMMA AcquireKeeps ==
  ASSUME IInv, NEW t \in Thread, Acquire(t) \/ AddSlabError(t)
  PROVE  IInv'
<1>1. SlabsToAdd \in Nat
  BY SlabsToAddType DEF IInv
<1>2. /\ UNCHANGED <<lock, allocVars, slabVars, cacheVars, batch, held, op, at,
                     alive, fault, past>>
      /\ pc[t] \in {"acquire", "add"}
  BY DEF Acquire, AddSlabError, At
<1>3. \E n \in Nat, p \in {"add", "load", "unlock"} :
        /\ p = "add" => n > 0
        /\ todo' = [todo EXCEPT ![t] = n] /\ pc' = [pc EXCEPT ![t] = p]
  <2>1. CASE Acquire(t) /\ SlabsToAdd > 0
    BY <1>1, <2>1, Zenon DEF Acquire
  <2>2. CASE Acquire(t) /\ ~(SlabsToAdd > 0)
    BY <1>1, <2>2, Zenon DEF Acquire
  <2>3. CASE AddSlabError(t)
    BY <2>3, Zenon DEF AddSlabError
  <2> QED
    BY <2>1, <2>2, <2>3
<1>4. TypeOK'
  BY <1>2, <1>3 DEF IInv, TypeOK, allocVars, slabVars, cacheVars
<1>5. Control'
  BY <1>2, <1>3 DEF IInv, TypeOK, Control
<1>6. Apart' /\ Slabs'
  BY <1>2, Still, Zenon DEF cacheVars
<1> QED
  BY <1>4, <1>5, <1>6 DEF IInv

\* The end of the load loop.
LEMMA LoadEndKeeps ==
  ASSUME IInv, NEW t \in Thread, LoadEnd(t)
  PROVE  IInv'
<1>1. CASE Fails("met_target")
  BY <1>1, FailsKeeps DEF Faults
<1>2. CASE ~Fails("met_target")
  <2>1. /\ at' = [at EXCEPT ![t] = 1]
        /\ \E p \in {"retire", "unlock"} : pc' = [pc EXCEPT ![t] = p]
        /\ UNCHANGED <<lock, allocVars, slabVars, cacheVars, batch, held, op,
                       todo, alive, fault, past>>
        /\ pc[t] = "load"
    BY <1>2 DEF LoadEnd, At
  <2>2. TypeOK'
    BY <2>1 DEF IInv, TypeOK, allocVars, slabVars, cacheVars
  <2>3. Control'
    BY <2>1, Zenon DEF IInv, TypeOK, Control
  <2>4. Apart' /\ Slabs'
    BY <2>1, Still DEF cacheVars
  <2> QED
    BY <2>2, <2>3, <2>4 DEF IInv
<1> QED
  BY <1>1, <1>2

\* tss_batch_unload and pthread_mutex_unlock.
LEMMA UnlockKeeps ==
  ASSUME IInv, NEW t \in Thread, Unlock(t)
  PROVE  IInv'
<1>1. /\ lock' = NoThread
      /\ pc' = [pc EXCEPT ![t] = "idle"] /\ op' = [op EXCEPT ![t] = "none"]
      /\ UNCHANGED <<allocVars, slabVars, todo, at, alive, fault, past>>
      /\ pc[t] = "unlock"
  BY DEF Unlock, At
<1>2. PICK taken \in SUBSET batch[t] :
        /\ cacheList' = [cacheList EXCEPT ![t] = @ \cup (batch[t] \ taken)]
        /\ cacheCount' \in [Thread -> Nat]
        /\ held' = held \cup taken
        /\ batch' = [batch EXCEPT ![t] = {}]
  <2>1. CASE batch[t] = {} /\ UNCHANGED <<cacheVars, batch, held>>
    <3>1. /\ cacheList' = [cacheList EXCEPT ![t] = @ \cup (batch[t] \ {})]
          /\ batch' = [batch EXCEPT ![t] = {}]
      BY <2>1 DEF cacheVars, IInv, TypeOK
    <3>2. cacheCount' \in [Thread -> Nat] /\ held' = held \cup {}
      BY <2>1 DEF cacheVars, IInv, TypeOK
    <3> QED
      BY <3>1, <3>2, Zenon
  <2>2. CASE ~(batch[t] = {} /\ UNCHANGED <<cacheVars, batch, held>>)
    <3>1. PICK taken \in SUBSET batch[t] :
            /\ cacheList' = [cacheList EXCEPT ![t] = @ \cup (batch[t] \ taken)]
            /\ cacheCount' = [cacheCount EXCEPT
                                ![t] = @ + Cardinality(batch[t]) - Cardinality(taken)]
            /\ held' = held \cup taken
            /\ batch' = [batch EXCEPT ![t] = {}]
      BY <2>2 DEF Unlock, Unload
    <3>2. batch[t] \in SUBSET Obj /\ taken \in SUBSET Obj
      BY DEF IInv, TypeOK
    <3>3. /\ IsFiniteSet(batch[t]) /\ Cardinality(batch[t]) \in 0..(SizeMod - 1)
          /\ Cardinality(taken) \in 0..(SizeMod - 1)
      BY <3>2, Countable
    <3>4. Cardinality(taken) <= Cardinality(batch[t])
      BY <3>3, FS_Subset
    <3>5. cacheCount[t] + Cardinality(batch[t]) - Cardinality(taken) \in Nat
      BY <3>3, <3>4 DEF IInv, TypeOK
    <3>6. cacheCount' \in [Thread -> Nat]
      BY <3>1, <3>5 DEF IInv, TypeOK
    <3> QED
      BY <3>1, <3>6, Zenon
  <2> QED
    BY <2>1, <2>2
<1>3. taken \in SUBSET Obj /\ batch[t] \in SUBSET Obj
  BY DEF IInv, TypeOK
<1>4. TypeOK'
  BY <1>1, <1>2, <1>3, Zenon DEF IInv, TypeOK, allocVars, slabVars
<1>5. Control'
  BY <1>1, <1>2, Zenon DEF IInv, TypeOK, Control
<1>6. /\ \A u \in Thread \ {t} : cacheList'[u] = cacheList[u] /\ batch'[u] = batch[u]
      /\ cacheList'[t] = cacheList[t] \cup (batch[t] \ taken) /\ batch'[t] = {}
      /\ held' = held \cup taken
  BY <1>2, Zenon DEF IInv, TypeOK
<1>7. Moves(t) /\ Hands(t)' = Hands(t)
  BY <1>6, Zenon DEF IInv, Apart, Moves, Hands
<1>8. Apart' /\ Slabs'
  BY <1>1, <1>7, Rearranged, Zenon
<1> QED
  BY <1>4, <1>5, <1>8 DEF IInv

=============================================================================
