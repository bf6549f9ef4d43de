----------------------- MODULE ThreadSafeSlabAsserts ------------------------
(***************************************************************************)
(* Why the asserts of ThreadSafeSlab hold until a slab is retired or a     *)
(* cache refreshed: how many objects a thread can still find on its way to *)
(* those it needs.                                                         *)
(***************************************************************************)
EXTENDS ThreadSafeSlabCaches

\* The provers of a leaf that names none, in this order.
USE SMTT(20), Z3T(20), ZenonT(20)

Inside(t) == pc[t] \notin {"idle", "lock"}

\* alloc->lock: only its holder is under the mutex.
Mutex == \A t \in Thread : Inside(t) => lock = t

\* The objects in the free lists of the mapped slabs.
Free == {o \in Obj : SlabOf(o) \in mapped /\ o \in slabFree[SlabOf(o)]}

\* active_list_count is right while no slab was retired.
ActiveExact == /\ retired = {}
               /\ alive => activeCount = Cardinality(mapped)

\* What t knows on its way to the objects it needs: the slabs it adds make up
\* for those that are missing, and the slabs it has passed are empty.
Supply(t) ==
  /\ pc[t] \notin {"load", "retire"} => at[t] = 1
  /\ op[t] = "alloc" /\ pc[t] \in {"lock", "acquire", "add"} => batch[t] = {}
  /\ pc[t] = "add" => Cardinality(Free) + todo[t] * ObjPerSlab >= CacheAcquire
  /\ pc[t] = "load" =>
       /\ Cardinality(Free) + Cardinality(batch[t]) >= CacheAcquire
       /\ Cardinality(batch[t]) < CacheAcquire =>
            \A i \in 1..Len(active) : i < at[t] => slabFree[active[i]] = {}

Supplied == past = {} => /\ ActiveExact
                         /\ \A t \in Thread : Supply(t)
                         /\ fault \in {"none", "load_target"}

AInv == Mutex /\ Supplied
-----------------------------------------------------------------------------
(* Counting the free objects.                                               *)

\* A slab has ObjPerSlab objects, and together they have as many as there are.
LEMMA SlabSizes ==
  ASSUME NEW S \in SUBSET Slab
  PROVE  /\ IsFiniteSet(S) /\ Cardinality(S) \in Nat
         /\ IsFiniteSet(S \X (1..ObjPerSlab))
         /\ Cardinality(S \X (1..ObjPerSlab)) = Cardinality(S) * ObjPerSlab
         /\ Cardinality(S) < SizeMod
<1>1. IsFiniteSet(S) /\ Cardinality(S) \in Nat
  BY FS_Subset, FS_CardinalityType, SizeAssumption, Zenon
<1>2. IsFiniteSet(1..ObjPerSlab) /\ Cardinality(1..ObjPerSlab) = ObjPerSlab
  BY FS_Interval, ConfigAssumption
<1>3. /\ IsFiniteSet(S \X (1..ObjPerSlab))
      /\ Cardinality(S \X (1..ObjPerSlab)) = Cardinality(S) * ObjPerSlab
  BY <1>1, <1>2, FS_Product, Zenon
<1>4. S \X (1..ObjPerSlab) \in SUBSET Obj
  BY DEF Obj
<1>5. Cardinality(S \X (1..ObjPerSlab)) < SizeMod /\ SizeMod \in Nat
  BY <1>4, Countable, SizeAssumption
<1>6. Cardinality(S) * ObjPerSlab >= Cardinality(S)
  BY <1>1, ConfigAssumption
<1> QED
  BY <1>1, <1>3, <1>5, <1>6, ConfigAssumption

\* The objects of one slab.
LEMMA ObjectsOfSlab ==
  ASSUME NEW s \in Slab
  PROVE  IsFiniteSet(ObjectsOf(s)) /\ Cardinality(ObjectsOf(s)) = ObjPerSlab
<1>1. ObjectsOf(s) = {s} \X (1..ObjPerSlab)
  BY DEF ObjectsOf, Obj, SlabOf
<1>2. {s} \in SUBSET Slab /\ Cardinality({s}) = 1
  BY FS_Singleton
<1>3. /\ IsFiniteSet({s} \X (1..ObjPerSlab))
      /\ Cardinality({s} \X (1..ObjPerSlab)) = Cardinality({s}) * ObjPerSlab
  BY <1>2, SlabSizes
<1> QED
  BY <1>1, <1>2, <1>3, ConfigAssumption

\* Free is a finite set.
LEMMA FreeFinite == IsFiniteSet(Free) /\ Cardinality(Free) \in Nat
<1>1. Free \in SUBSET Obj
  BY DEF Free
<1> QED
  BY <1>1, Countable, FS_CardinalityType

\* obj_remaining of tss_allocator_batch_acquire is the number of free objects.
LEMMA Remaining ==
  ASSUME IInv, alive, ActiveExact
  PROVE  ObjRemaining = Cardinality(Free)
<1> DEFINE All == mapped \X (1..ObjPerSlab)
<1>1. Out \subseteq Obj
  BY OutObjects DEF IInv
<1>2. Out \subseteq All
  BY <1>1 DEF IInv, Slabs, SlabsOutlastObjects, SlabOf, Obj
<1>3. Free = All \ Out
  <2>1. ASSUME NEW o \in Obj, SlabOf(o) \in mapped
        PROVE  o \in slabFree[SlabOf(o)] <=> o \notin Out
    <3>1. slabFree[SlabOf(o)] = ObjectsOf(SlabOf(o)) \ OutOf(SlabOf(o))
      BY <2>1 DEF IInv, Slabs, FreeExact
    <3> QED
      BY <2>1, <3>1 DEF ObjectsOf, OutOf
  <2>2. \A o : o \in All <=> o \in Obj /\ SlabOf(o) \in mapped
    BY DEF IInv, TypeOK, Obj, SlabOf
  <2> QED
    BY <2>1, <2>2 DEF Free
<1>4. mapped \in SUBSET Slab /\ usedObjs = Cardinality(Out)
  BY DEF IInv, TypeOK, Slabs, CountsExact
<1>5. IsFiniteSet(All) /\ Cardinality(All) = Cardinality(mapped) * ObjPerSlab
  BY <1>4, SlabSizes, Zenon
<1> HIDE DEF All
<1>6. All \cap Out = Out
  BY <1>2
<1>7. Cardinality(Free) = Cardinality(All) - Cardinality(Out)
  <2>1. Cardinality(All \ Out) = Cardinality(All) - Cardinality(All \cap Out)
    BY <1>5, FS_Difference, Zenon
  <2> QED
    BY <1>3, <1>6, <2>1
<1>8. Cardinality(Free) = ObjPerSlab * activeCount - usedObjs
  <2>1. activeCount = Cardinality(mapped) /\ activeCount \in Nat
    BY <1>4, SlabSizes, Zenon DEF ActiveExact
  <2>2. Cardinality(All) = ObjPerSlab * activeCount
    BY <1>5, <2>1, ConfigAssumption
  <2> QED
    BY <1>4, <1>7, <2>2
<1>9. Free \in SUBSET Obj
  BY DEF Free
<1>10. Cardinality(Free) \in 0..(SizeMod - 1)
  BY <1>9, Countable
<1> QED
  BY <1>8, <1>10, Wrap DEF ObjRemaining

-----------------------------------------------------------------------------
(* Mutual exclusion.                                                        *)

\* A step of t leaves the other threads where they are.
LEMMA Elsewhere ==
  ASSUME TypeOK, NEW t \in Thread, NEW u \in Thread \ {t},
         Call(t) \/ Lock(t) \/ HolderStep(t)
  PROVE  /\ pc'[u] = pc[u] /\ op'[u] = op[u] /\ batch'[u] = batch[u]
         /\ todo'[u] = todo[u] /\ at'[u] = at[u]
<1>1. pc'[u] = pc[u] /\ op'[u] = op[u] /\ batch'[u] = batch[u]
  BY CallsApart, HolderApart, Zenon
<1>2. CASE Call(t)
  BY <1>1, <1>2, Zenon DEF Call, AllocFast, AllocSlow, FreeFast, FreeSlow, Refresh,
                    FullRelease, ExplicitRetire, Fails, threadVars
<1>3. CASE Lock(t) \/ Unlock(t) \/ ReleaseObj(t) \/ ReleaseEnd(t)
  BY <1>1, <1>3 DEF Lock, Unlock, ReleaseObj, ReleaseEnd, threadVars
<1>4. CASE Acquire(t) \/ AddSlab(t) \/ AddSlabError(t)
  BY <1>1, <1>4, Zenon DEF Acquire, AddSlab, AddSlabError, TypeOK
<1>5. CASE LoadSlab(t) \/ RetireSlab(t) \/ RetireEnd(t)
  BY <1>1, <1>5, Zenon DEF LoadSlab, RetireSlab, RetireEnd, TypeOK
<1>6. CASE LoadEnd(t)
  BY <1>1, <1>6 DEF LoadEnd, Fails, TypeOK, threadVars
<1> QED
  BY <1>2, <1>3, <1>4, <1>5, <1>6, Zenon DEF HolderStep

\* A call up to the mutex, and getting the mutex, touch no slab.
LEMMA NoSlabTouched ==
  ASSUME NEW t \in Thread, Call(t) \/ Lock(t)
  PROVE  UNCHANGED <<allocVars, slabVars, todo, at, alive>>
<1>1. CASE Call(t)
  BY <1>1, Zenon DEF Call, AllocFast, AllocSlow, FreeFast, FreeSlow, Refresh,
                     FullRelease, ExplicitRetire, Fails, threadVars
<1>2. CASE Lock(t)
  BY <1>2 DEF Lock
<1> QED
  BY <1>1, <1>2

\* Where a call is before it has the mutex.
LEMMA CallPlace ==
  ASSUME TypeOK, NEW t \in Thread, Call(t)
  PROVE  /\ pc[t] = "idle" /\ lock' = lock
         /\ pc'[t] \in {"idle", "lock"}
<1>1. CASE AllocFast(t) \/ AllocSlow(t) \/ ExplicitRetire(t)
  BY <1>1 DEF AllocFast, AllocSlow, ExplicitRetire, CanCall, Fails, WantLock,
              TypeOK, threadVars
<1>2. ASSUME NEW o, FreeFast(t, o) \/ FreeSlow(t, o)
      PROVE  /\ pc[t] = "idle" /\ lock' = lock
             /\ pc'[t] \in {"idle", "lock"}
  BY <1>2 DEF FreeFast, FreeSlow, CanCall, Fails, WantLock, TypeOK, threadVars
<1>3. CASE Refresh(t) \/ FullRelease(t)
  BY <1>3 DEF Refresh, FullRelease, CanCall, Fails, WantLock, TypeOK, threadVars
<1> QED
  BY <1>1, <1>2, <1>3 DEF Call

\* A step under the mutex is one of its holder, who keeps it until the unlock.
LEMMA HolderPlace ==
  ASSUME Mutex, NEW t \in Thread, HolderStep(t)
  PROVE  lock = t /\ (lock' = t \/ Unlock(t))
<1>1. Inside(t)
  BY Zenon DEF HolderStep, ReleaseObj, ReleaseEnd, Acquire, AddSlab,
               AddSlabError, LoadSlab, LoadEnd, RetireSlab, RetireEnd, Unlock,
               At, Inside
<1>2. lock = t
  BY <1>1 DEF Mutex
<1> QED
  BY <1>2, Zenon DEF HolderStep, ReleaseObj, ReleaseEnd, Acquire, AddSlab,
                     AddSlabError, LoadSlab, LoadEnd, RetireSlab, RetireEnd,
                     Fails

\* Every step keeps the mutual exclusion.
LEMMA MutexStep == IInv /\ Mutex /\ [Next]_vars => Mutex'
<1> SUFFICES ASSUME IInv, Mutex, [Next]_vars, NEW u \in Thread, Inside(u)'
             PROVE  lock' = u
  BY DEF Mutex
<1>1. ASSUME NEW t \in Thread, Call(t) \/ Lock(t) \/ HolderStep(t), u # t
      PROVE  lock' = u
  <2>1. Inside(u) /\ lock = u
    BY <1>1, Elsewhere DEF IInv, Inside, Mutex
  <2>2. ~HolderStep(t) /\ ~Lock(t)
    BY <1>1, <2>1, HolderPlace, ConfigAssumption DEF Lock
  <2> QED
    BY <1>1, <2>1, <2>2, CallPlace DEF IInv
<1>2. ASSUME Call(u) \/ Lock(u) \/ HolderStep(u)
      PROVE  lock' = u
  <2>1. ~Call(u)
    BY CallPlace DEF IInv, Inside
  <2>2. ~Unlock(u)
    BY DEF Unlock, Inside, IInv, TypeOK
  <2>3. Lock(u) => lock' = u
    BY DEF Lock
  <2> QED
    BY <1>2, <2>1, <2>2, <2>3, HolderPlace
<1>3. ASSUME Destroy \/ UNCHANGED vars
      PROVE  lock' = u
  BY <1>3 DEF Destroy, vars, threadVars, Inside, Mutex
<1> QED
  BY <1>1, <1>2, <1>3 DEF Next, Halted

-----------------------------------------------------------------------------
(* The supply.                                                              *)

\* A thread that a step leaves alone, and its slabs with it.
LEMMA SupplyKept ==
  ASSUME NEW u \in Thread, Supply(u),
         pc'[u] = pc[u], op'[u] = op[u], batch'[u] = batch[u],
         todo'[u] = todo[u], at'[u] = at[u],
         mapped' = mapped, slabFree' = slabFree, active' = active
  PROVE  Supply(u)'
<1>1. Free' = Free
  BY Zenon DEF Free
<1> QED
  BY <1>1, Zenon DEF Supply

\* While t takes a step, the others have the supply they had: those that need
\* one hold the mutex.
LEMMA SupplyElsewhere ==
  ASSUME IInv, Mutex, NEW t \in Thread, NEW u \in Thread \ {t}, Supply(u),
         Call(t) \/ Lock(t) \/ HolderStep(t)
  PROVE  Supply(u)'
<1>1. /\ pc'[u] = pc[u] /\ op'[u] = op[u] /\ batch'[u] = batch[u]
      /\ todo'[u] = todo[u] /\ at'[u] = at[u]
  BY Elsewhere DEF IInv
<1>2. CASE Call(t) \/ Lock(t)
  BY <1>1, <1>2, NoSlabTouched, SupplyKept DEF allocVars, slabVars
<1>3. CASE HolderStep(t)
  <2>1. pc[u] \in {"idle", "lock"}
    BY <1>3, HolderPlace DEF Mutex, Inside
  <2> QED
    BY <1>1, <2>1 DEF Supply
<1> QED
  BY <1>2, <1>3

\* A failing assert.
LEMMA SupplyFails ==
  ASSUME NEW t \in Thread, NEW f, Supply(t), Fails(f)
  PROVE  Supply(t)'
BY SupplyKept DEF Fails, allocVars, slabVars, threadVars

\* A call starts with an empty batch.
LEMMA SupplyCall ==
  ASSUME IInv, NEW t \in Thread, Supply(t), Call(t)
  PROVE  Supply(t)'
<1>1. CASE \E f : Fails(f)
  BY <1>1, SupplyFails
<1>2. CASE ~\E f : Fails(f)
  <2>1. pc[t] = "idle" /\ pc'[t] \in {"idle", "lock"} /\ at'[t] = at[t]
    BY CallPlace, NoSlabTouched DEF IInv
  <2>2. at'[t] = 1 /\ batch[t] = {}
    BY <2>1 DEF Supply, IInv, Control
  <2>3. ASSUME pc'[t] = "lock", op'[t] = "alloc" PROVE batch'[t] = {}
    <3>1. AllocSlow(t)
      <4>1. ~AllocFast(t) /\ ~ExplicitRetire(t)
        BY <1>2, <2>1, <2>3, Zenon DEF AllocFast, ExplicitRetire, WantLock, threadVars,
                                IInv, TypeOK
      <4>2. ~Refresh(t) /\ ~FullRelease(t)
        BY <1>2, <2>3, Zenon DEF Refresh, FullRelease, WantLock, IInv, TypeOK
      <4>3. ASSUME NEW o \in held PROVE ~FreeFast(t, o) /\ ~FreeSlow(t, o)
        BY <1>2, <2>1, <2>3, Zenon DEF FreeFast, FreeSlow, WantLock, threadVars, IInv,
                                TypeOK
      <4> QED
        BY <4>1, <4>2, <4>3 DEF Call
    <3> QED
      BY <2>2, <3>1 DEF AllocSlow
  <2> QED
    BY <2>1, <2>2, <2>3 DEF Supply
<1> QED
  BY <1>1, <1>2

\* The steps that need no supply, or only pass it on.
LEMMA SupplyPassed ==
  ASSUME IInv, NEW t \in Thread, Supply(t), Keeps(t),
         \/ Lock(t) \/ ReleaseObj(t) \/ ReleaseEnd(t) \/ AddSlabError(t)
         \/ LoadEnd(t) \/ RetireSlab(t) \/ RetireEnd(t) \/ Unlock(t)
  PROVE  Supply(t)'
<1>1. CASE Lock(t)
  <2>1. /\ pc'[t] = Locked(op[t]) /\ pc[t] = "lock" /\ at'[t] = at[t]
        /\ batch'[t] = batch[t] /\ op'[t] = op[t]
    BY <1>1 DEF Lock, At, IInv, TypeOK
  <2>2. /\ op[t] = "alloc" => pc'[t] = "acquire"
        /\ op[t] # "alloc" => pc'[t] \in {"release", "retire"}
    BY <2>1 DEF Locked, Keeps, Places
  <2> QED
    BY <2>1, <2>2, Zenon DEF Supply
<1>2. CASE ReleaseObj(t) \/ ReleaseEnd(t)
  <2>1. /\ pc'[t] \in {"release", "unlock"} /\ at'[t] = at[t]
        /\ pc[t] = "release" /\ op[t] # "refresh"
    <3>1. pc[t] = "release" /\ op[t] # "refresh"
      BY <1>2, Zenon DEF ReleaseObj, ReleaseEnd, At, Keeps, Places
    <3>2. t \in DOMAIN pc
      BY DEF IInv, TypeOK
    <3>3. /\ at' = at
          /\ \/ pc' = pc
             \/ pc' = [pc EXCEPT ![t] = IF op[t] = "refresh" THEN "acquire"
                                       ELSE "unlock"]
      BY <1>2, Zenon DEF ReleaseObj, ReleaseEnd, threadVars
    <3> QED
      BY <3>1, <3>2, <3>3
  <2> QED
    BY <2>1, Zenon DEF Supply
<1>3. CASE AddSlabError(t)
  <2>1. pc'[t] = "unlock" /\ at'[t] = at[t] /\ pc[t] = "add"
    BY <1>3 DEF AddSlabError, At, IInv, TypeOK
  <2> QED
    BY <2>1, Zenon DEF Supply
<1>4. CASE LoadEnd(t)
  <2>1. CASE Fails("met_target")
    BY <2>1, SupplyFails, Zenon
  <2>2. CASE ~Fails("met_target")
    <3>1. pc'[t] \in {"retire", "unlock"} /\ at'[t] = 1
      BY <1>4, <2>2, Zenon DEF LoadEnd, IInv, TypeOK
    <3> QED
      BY <3>1, Zenon DEF Supply
  <2> QED
    BY <2>1, <2>2
<1>5. CASE RetireSlab(t)
  <2>1. pc'[t] = "retire"
    BY <1>5, Zenon DEF RetireSlab, At
  <2> QED
    BY <2>1, Zenon DEF Supply
<1>6. CASE RetireEnd(t)
  <2>1. pc'[t] = "unlock" /\ at'[t] = 1
    BY <1>6 DEF RetireEnd, IInv, TypeOK
  <2> QED
    BY <2>1, Zenon DEF Supply
<1>7. CASE Unlock(t)
  <2>1. pc'[t] = "idle" /\ at'[t] = at[t] /\ pc[t] = "unlock"
    BY <1>7 DEF Unlock, At, IInv, TypeOK
  <2> QED
    BY <2>1, Zenon DEF Supply
<1> QED
  BY <1>1, <1>2, <1>3, <1>4, <1>5, <1>6, <1>7, Zenon

\* number_of_slabs is large enough: the division rounds down, and one is added.
LEMMA RoundUp ==
  ASSUME NEW n \in Nat, NEW m \in Nat \ {0}
  PROVE  ((n \div m) + 1) * m >= n
OBVIOUS

\* tss_allocator_batch_acquire adds slabs for the objects that are missing.
LEMMA SupplyAcquire ==
  ASSUME IInv, ActiveExact, NEW t \in Thread, Supply(t), Keeps(t), Acquire(t)
  PROVE  Supply(t)'
<1>1. pc[t] = "acquire" /\ op[t] = "alloc" /\ alive
  BY Zenon DEF Acquire, At, Keeps, Places, IInv, Control
<1>2. batch[t] = {} /\ at[t] = 1
  BY <1>1, Zenon DEF Supply
<1>3. /\ batch' = batch /\ at' = at /\ op' = op /\ todo'[t] = SlabsToAdd
      /\ pc'[t] = IF SlabsToAdd > 0 THEN "add" ELSE "load"
      /\ mapped' = mapped /\ slabFree' = slabFree /\ active' = active
  BY DEF Acquire, IInv, TypeOK, allocVars, slabVars
<1>4. Free' = Free
  BY <1>3 DEF Free
<1>5. ObjRemaining = Cardinality(Free) /\ Cardinality(Free) \in Nat
  BY <1>1, Remaining, FreeFinite
<1>6. CASE Cardinality(Free) < CacheAcquire
  <2> DEFINE n == CacheAcquire - Cardinality(Free)
  <2>1. n \in Nat /\ ObjPerSlab \in Nat \ {0} /\ CacheAcquire \in Nat
    BY <1>5, <1>6, ConfigAssumption
  <2>2. SlabsToAdd = (n \div ObjPerSlab) + 1
    BY <1>5, <1>6 DEF SlabsToAdd
  <2> HIDE DEF n
  <2>3. n \div ObjPerSlab \in Nat
    BY <2>1
  <2>4. SlabsToAdd > 0 /\ SlabsToAdd * ObjPerSlab >= n
    BY <2>1, <2>2, <2>3, RoundUp
  <2>5. SlabsToAdd * ObjPerSlab \in Nat
    BY <2>1, <2>2, <2>3
  <2>6. Cardinality(Free) + SlabsToAdd * ObjPerSlab >= CacheAcquire
    BY <1>5, <2>1, <2>4, <2>5 DEF n
  <2> QED
    BY <1>2, <1>3, <1>4, <2>4, <2>6 DEF Supply
<1>7. CASE ~(Cardinality(Free) < CacheAcquire)
  <2>1. pc'[t] = "load"
    BY <1>3, <1>5, <1>7 DEF SlabsToAdd
  <2>2. Cardinality(batch'[t]) = 0
    BY <1>2, <1>3, FS_EmptySet, Zenon
  <2>3. Cardinality(Free) + 0 >= CacheAcquire
    BY <1>5, <1>7, ConfigAssumption
  <2>4. ~\E i \in 1..Len(active) : i < at'[t]
    BY <1>2, <1>3
  <2> QED
    BY <1>3, <1>4, <2>1, <2>2, <2>3, <2>4, Zenon DEF Supply
<1> QED
  BY <1>6, <1>7, Zenon

\* tss_allocator_add_slab brings ObjPerSlab of the objects that are missing.
LEMMA SupplyAddSlab ==
  ASSUME IInv, NEW t \in Thread, Supply(t), Keeps(t), AddSlab(t)
  PROVE  Supply(t)'
<1>1. pc[t] = "add" /\ op[t] = "alloc" /\ todo[t] \in Nat \ {0}
  BY DEF AddSlab, At, Keeps, Places, IInv, Control, TypeOK
<1>2. /\ batch[t] = {} /\ at[t] = 1
      /\ Cardinality(Free) + todo[t] * ObjPerSlab >= CacheAcquire
  BY <1>1, Zenon DEF Supply
<1>3. /\ batch' = batch /\ at' = at /\ op' = op /\ todo'[t] = todo[t] - 1
      /\ pc'[t] = IF todo[t] > 1 THEN "add" ELSE "load"
  BY DEF AddSlab, IInv, TypeOK
<1>4. PICK s \in Slab \ mapped :
        /\ mapped' = mapped \cup {s}
        /\ slabFree' = [slabFree EXCEPT ![s] = ObjectsOf(s)]
  BY Zenon DEF AddSlab
<1>5. Cardinality(Free') = Cardinality(Free) + ObjPerSlab /\ Cardinality(Free) \in Nat
  <2>1. Free' = Free \cup ObjectsOf(s)
    BY <1>4 DEF Free, ObjectsOf, IInv, TypeOK, Obj, SlabOf
  <2>2. Free \cap ObjectsOf(s) = {}
    BY <1>4, Zenon DEF Free, ObjectsOf
  <2>3. /\ Cardinality(Free \cup ObjectsOf(s))
             = Cardinality(Free) + ObjPerSlab - Cardinality(Free \cap ObjectsOf(s))
    BY ObjectsOfSlab, FreeFinite, FS_Union
  <2>4. Cardinality(Free \cap ObjectsOf(s)) = 0
    BY <2>2, FS_EmptySet
  <2> QED
    BY <2>1, <2>3, <2>4, FreeFinite, ConfigAssumption
<1>6. Cardinality(Free') + todo'[t] * ObjPerSlab >= CacheAcquire
  <2>1. ObjPerSlab \in Nat /\ CacheAcquire \in Nat
    BY ConfigAssumption
  <2>2. (todo[t] - 1) * ObjPerSlab + ObjPerSlab = todo[t] * ObjPerSlab
    BY <1>1, <2>1
  <2>3. (todo[t] - 1) * ObjPerSlab \in Nat
    BY <1>1, <2>1
  <2> QED
    BY <1>2, <1>3, <1>5, <2>1, <2>2, <2>3
<1>7. CASE todo[t] > 1
  BY <1>2, <1>3, <1>6, <1>7, Zenon DEF Supply
<1>8. CASE ~(todo[t] > 1)
  <2>1. pc'[t] = "load" /\ todo'[t] = 0
    BY <1>1, <1>3, <1>8
  <2>2. Cardinality(batch'[t]) = 0 /\ at'[t] = 1
    BY <1>2, <1>3, FS_EmptySet, Zenon
  <2>3. Cardinality(Free') + 0 >= CacheAcquire
    BY <1>5, <1>6, <2>1, ConfigAssumption
  <2> QED
    BY <2>1, <2>2, <2>3 DEF Supply
<1> QED
  BY <1>7, <1>8, Zenon

\* The loop of tss_allocator_batch_acquire moves objects from the slabs to the
\* batch, and goes on to the next slab only when it has emptied this one.
LEMMA SupplyLoadSlab ==
  ASSUME IInv, NEW t \in Thread, Supply(t), Keeps(t), LoadSlab(t)
  PROVE  Supply(t)'
<1>1. /\ pc[t] = "load" /\ at[t] \in 1..Len(active)
      /\ Cardinality(batch[t]) < CacheAcquire
  BY DEF LoadSlab, At, IInv, TypeOK
<1>2. /\ Cardinality(Free) + Cardinality(batch[t]) >= CacheAcquire
      /\ \A i \in 1..Len(active) : i < at[t] => slabFree[active[i]] = {}
  BY <1>1, Zenon DEF Supply
<1>3. PICK s \in Slab : s = active[at[t]]
  BY <1>1 DEF IInv, TypeOK
<1> DEFINE n == CacheAcquire - Cardinality(batch[t])
<1>4. PICK X \in Loads(slabFree[s], n) :
        /\ batch' = [batch EXCEPT ![t] = @ \cup X]
        /\ slabFree' = [slabFree EXCEPT ![s] = LeftBy(@, X)]
  BY <1>3, Zenon DEF LoadSlab
<1>5. /\ pc' = pc /\ at'[t] = at[t] + 1 /\ active' = active /\ mapped' = mapped
      /\ batch'[t] = batch[t] \cup X /\ slabFree'[s] = slabFree[s] \ X
      /\ \A r \in Slab \ {s} : slabFree'[r] = slabFree[r]
  BY <1>4 DEF LoadSlab, NextSlab, LeftBy, IInv, TypeOK
<1>6. /\ X \subseteq slabFree[s] /\ s \in mapped
      /\ slabFree[s] = ObjectsOf(s) \ OutOf(s)
  BY <1>1, <1>3, <1>4, Zenon DEF Loads, IInv, Slabs, Lists, FreeExact, ActiveSlabs
<1>7. X \subseteq Free /\ Free' = Free \ X
  <2>1. \A o \in X : o \in Obj /\ SlabOf(o) = s
    BY <1>6, Zenon DEF ObjectsOf
  <2>2. X \subseteq Free
    BY <1>6, <2>1 DEF Free
  <2>3. ASSUME NEW o \in Obj PROVE o \in Free' <=> o \in Free /\ o \notin X
    <3>1. CASE SlabOf(o) = s
      BY <1>5, <3>1 DEF Free
    <3>2. CASE SlabOf(o) # s
      BY <1>5, <2>1, <3>2, SlabOfObject, Zenon DEF Free
    <3> QED
      BY <3>1, <3>2
  <2> QED
    BY <2>2, <2>3, Zenon DEF Free
<1>8. X \cap batch[t] = {}
  BY <1>6, OutMember, Zenon DEF OutOf, ObjectsOf
<1>9. /\ IsFiniteSet(X) /\ Cardinality(X) \in Nat /\ Cardinality(Free) \in Nat
      /\ IsFiniteSet(batch[t]) /\ Cardinality(batch[t]) \in Nat
      /\ CacheAcquire \in Nat
  BY <1>7, FreeFinite, FS_Subset, FS_CardinalityType, Sizes, ConfigAssumption, Zenon
     DEF IInv
<1>10. Cardinality(Free') = Cardinality(Free) - Cardinality(X)
  <2>1. Free \cap X = X
    BY <1>7
  <2>2. Cardinality(Free \ X) = Cardinality(Free) - Cardinality(Free \cap X)
    BY FreeFinite, FS_Difference, Zenon
  <2> QED
    BY <1>7, <2>1, <2>2, Zenon
<1>11. Cardinality(batch'[t]) = Cardinality(batch[t]) + Cardinality(X)
  <2>1. Cardinality(batch[t] \cup X)
          = Cardinality(batch[t]) + Cardinality(X) - Cardinality(batch[t] \cap X)
    BY <1>9, FS_Union, Zenon
  <2>2. batch[t] \cap X = {} /\ Cardinality({}) = 0
    BY <1>8, FS_EmptySet
  <2>3. Cardinality(batch[t] \cap X) = 0
    BY <2>2, Zenon
  <2>4. batch'[t] = batch[t] \cup X
    BY <1>5, Zenon
  <2>5. Cardinality(batch[t]) \in Nat /\ Cardinality(X) \in Nat
    BY <1>9, Zenon
  <2>6. Cardinality(batch[t] \cup X) = Cardinality(batch[t]) + Cardinality(X)
    BY <2>1, <2>3, <2>5
  <2> QED
    BY <2>4, <2>6, Zenon
<1>12. ASSUME Cardinality(batch'[t]) < CacheAcquire,
              NEW i \in 1..Len(active), i < at'[t]
       PROVE  slabFree'[active[i]] = {}
  <2>1. Cardinality(X) # n
    BY <1>9, <1>11, <1>12
  <2>2. X = slabFree[s]
    BY <1>4, <2>1 DEF Loads
  <2>3. active[i] \in Slab /\ at[t] \in Int /\ i \in Int
    BY <1>1 DEF IInv, TypeOK
  <2>4. CASE active[i] = s
    BY <1>5, <2>2, <2>4, Zenon
  <2>5. CASE active[i] # s
    <3>1. i # at[t]
      BY <1>3, <2>5, Zenon
    <3>2. i < at[t] + 1
      BY <1>5, <1>12, Zenon
    <3>3. i < at[t]
      BY <2>3, <3>1, <3>2
    <3> QED
      BY <1>2, <1>5, <2>3, <2>5, <3>3, Zenon
  <2> QED
    BY <2>4, <2>5, Zenon
<1>13. Cardinality(Free') + Cardinality(batch'[t]) >= CacheAcquire
  BY <1>2, <1>9, <1>10, <1>11
<1> QED
  BY <1>1, <1>5, <1>12, <1>13, Zenon DEF Supply

\* No slab is retired or destroyed, and active_list_count stays exact.
LEMMA ActiveExactStep ==
  ASSUME IInv, ActiveExact, [Next]_vars, past' = {}
  PROVE  ActiveExact'
<1>1. ASSUME retired' = retired, mapped' = mapped, activeCount' = activeCount,
             alive' = alive
      PROVE  ActiveExact'
  BY <1>1, Zenon DEF ActiveExact
<1>2. ASSUME UNCHANGED <<allocVars, slabVars, alive>> PROVE ActiveExact'
  BY <1>1, <1>2 DEF allocVars, slabVars
<1>3. ASSUME NEW t \in Thread, Call(t) \/ Lock(t) PROVE ActiveExact'
  BY <1>2, <1>3, NoSlabTouched
<1>4. ASSUME NEW t \in Thread, ReleaseObj(t) PROVE ActiveExact'
  BY <1>1, <1>4, Zenon DEF ReleaseObj, DestroysSlab, ActiveExact
<1>5. ASSUME NEW t \in Thread,
             \/ ReleaseEnd(t) \/ Acquire(t) \/ AddSlabError(t) \/ LoadEnd(t)
             \/ RetireEnd(t) \/ Unlock(t)
      PROVE  ActiveExact'
  BY <1>2, <1>5, Zenon DEF ReleaseEnd, Acquire, AddSlabError, LoadEnd, RetireEnd,
                    Unlock, Fails
<1>6. ASSUME NEW t \in Thread, LoadSlab(t) PROVE ActiveExact'
  BY <1>1, <1>6, Zenon DEF LoadSlab
<1>7. ASSUME NEW t \in Thread, RetireSlab(t) PROVE ActiveExact'
  BY <1>1, <1>7, Zenon DEF RetireSlab
<1>8. ASSUME NEW t \in Thread, AddSlab(t) PROVE ActiveExact'
  <2>1. PICK s \in Slab \ mapped :
          mapped' = mapped \cup {s} /\ retired' = retired \ {s}
    BY <1>8 DEF AddSlab
  <2>2. mapped \in SUBSET Slab /\ mapped \cup {s} \in SUBSET Slab
    BY DEF IInv, TypeOK
  <2>3. /\ IsFiniteSet(mapped) /\ Cardinality(mapped) \in Nat
        /\ Cardinality(mapped \cup {s}) < SizeMod
    BY <2>2, SlabSizes, Zenon
  <2>4. Cardinality(mapped \cup {s}) = Cardinality(mapped) + 1
    BY <2>3, FS_AddElement, Zenon
  <2>5. alive /\ activeCount = Cardinality(mapped)
    BY <1>8 DEF AddSlab, At, IInv, Control, ActiveExact
  <2>6. activeCount + 1 \in 0..(SizeMod - 1) /\ activeCount + 1 \in Int
    BY <2>3, <2>4, <2>5, SizeAssumption
  <2>7. activeCount' = activeCount + 1
    BY <1>8, <2>6, Wrap, Zenon DEF AddSlab
  <2> QED
    BY <2>1, <2>4, <2>5, <2>7 DEF ActiveExact
<1>9. ASSUME Destroy PROVE ActiveExact'
  BY <1>9, Zenon DEF Destroy, ActiveExact
<1>10. ASSUME UNCHANGED vars PROVE ActiveExact'
  BY <1>2, <1>10 DEF vars
<1> QED
  BY <1>3, <1>4, <1>5, <1>6, <1>7, <1>8, <1>9, <1>10, Zenon DEF Next, Halted, HolderStep

-----------------------------------------------------------------------------
(* The asserts.                                                             *)

\* What tss_batch_load takes from a list with n objects or more, when it is
\* asked for n.
LEMMA LoadsTarget ==
  ASSUME NEW list, NEW n \in Nat, NEW X \in Loads(list, n),
         Cardinality(list) \in Nat, Cardinality(list) >= n
  PROVE  Cardinality(X) = n /\ (Cardinality(list) = n => X = list)
BY DEF Loads

\* A call asks its cache for no more than the cache has.
LEMMA CallAsserts ==
  ASSUME IInv, NEW t \in Thread, Keeps(t), Call(t)
  PROVE  fault' \in {fault, "load_target"}
<1>1. /\ cacheCount[t] = Cardinality(cacheList[t]) /\ cacheCount[t] \in Nat
      /\ IsFiniteSet(cacheList[t])
  BY Sizes, Zenon DEF Keeps, Counted, IInv, TypeOK
<1>2. CASE AllocFast(t)
  <2>1. cacheList[t] # {}
    BY <1>1, <1>2, FS_EmptySet DEF AllocFast
  <2> QED
    BY <1>2, <2>1 DEF AllocFast
<1>3. ASSUME NEW o \in held, FreeSlow(t, o) PROVE fault' = fault
  <2> DEFINE L == cacheList[t] \cup {o}
  <2>1. PICK X \in Loads(L, CacheRelease) :
          fault' = fault \/ Cardinality(X) < CacheRelease
    BY <1>3 DEF FreeSlow
  <2>2. Cardinality(L) = cacheCount[t] + 1
    BY <1>1, OneMore, Zenon
  <2>3. cacheCount[t] + 1 >= CacheCap
    BY <1>3, Zenon DEF FreeSlow, CacheFull
  <2> HIDE DEF L
  <2>4. Cardinality(L) \in Nat /\ Cardinality(L) >= CacheRelease /\ CacheRelease \in Nat
    BY <1>1, <2>2, <2>3, ConfigAssumption
  <2>5. Cardinality(X) = CacheRelease
    BY <2>4, LoadsTarget
  <2> QED
    BY <2>1, <2>4, <2>5
<1>4. ASSUME NEW X \in Loads(cacheList[t], cacheCount[t])
      PROVE  X = cacheList[t] /\ LoadCount(X) = cacheCount[t]
  BY <1>1, LoadsTarget DEF LoadCount
<1>5. CASE Refresh(t)
  BY <1>4, <1>5 DEF Refresh, Fails
<1>6. CASE FullRelease(t)
  BY <1>4, <1>6 DEF FullRelease
<1>7. ASSUME NEW o \in held, FreeFast(t, o) PROVE fault' = fault
  BY <1>7 DEF FreeFast
<1>8. CASE AllocSlow(t) \/ ExplicitRetire(t)
  BY <1>8 DEF AllocSlow, ExplicitRetire
<1> QED
  BY <1>2, <1>3, <1>5, <1>6, <1>7, <1>8, Zenon DEF Call

\* tss_allocator_batch_acquire meets its target: at the end of the active list
\* every slab is empty, so that all it was promised is in the batch.
LEMMA AcquireAssert ==
  ASSUME IInv, ActiveExact, NEW t \in Thread, Supply(t), LoadEnd(t)
  PROVE  fault' = fault
<1>1. SUFFICES ASSUME Cardinality(batch[t]) < CacheAcquire, at[t] > Len(active)
               PROVE  FALSE
  BY Zenon DEF LoadEnd
<1>2. /\ Cardinality(Free) + Cardinality(batch[t]) >= CacheAcquire
      /\ \A i \in 1..Len(active) : i < at[t] => slabFree[active[i]] = {}
  BY <1>1, Zenon DEF Supply, LoadEnd, At
<1>3. \A i \in 1..Len(active) : slabFree[active[i]] = {}
  <2>1. at[t] \in Nat /\ Len(active) \in Nat
    BY DEF IInv, TypeOK
  <2> QED
    BY <1>1, <1>2, <2>1
<1>4. mapped = ActiveSlabs
  BY DEF IInv, Slabs, Lists, ActiveExact
<1>5. Free = {}
  BY <1>3, <1>4 DEF Free, ActiveSlabs
<1>6. Cardinality(Free) = 0
  BY <1>5, FS_EmptySet
<1> QED
  BY <1>1, <1>2, <1>6, Sizes, ConfigAssumption DEF IInv

\* No other step can fail.
LEMMA OtherAsserts ==
  ASSUME NEW t \in Thread, Lock(t) \/ HolderStep(t), ~LoadEnd(t)
  PROVE  fault' = fault
BY Zenon DEF Lock, HolderStep, ReleaseObj, ReleaseEnd, Acquire, AddSlab,
             AddSlabError, LoadSlab, RetireSlab, RetireEnd, Unlock

\* Every step keeps the supply and the asserts.
LEMMA SuppliedStep == IInv /\ Cached /\ AInv /\ [Next]_vars => AInv'
<1> SUFFICES ASSUME IInv, Cached, AInv, [Next]_vars PROVE AInv'
  OBVIOUS
<1>1. Mutex /\ Mutex'
  BY MutexStep DEF AInv
<1>2. SUFFICES ASSUME past' = {}
               PROVE  /\ ActiveExact' /\ \A u \in Thread : Supply(u)'
                      /\ fault' \in {"none", "load_target"}
  BY <1>1 DEF AInv, Supplied
<1>3. /\ ActiveExact /\ \A u \in Thread : Supply(u) /\ Keeps(u)
      /\ fault \in {"none", "load_target"}
  BY <1>2, PastGrows DEF AInv, Supplied, Cached
<1>4. ActiveExact'
  BY <1>2, <1>3, ActiveExactStep
<1>5. ASSUME NEW t \in Thread, Call(t) \/ Lock(t) \/ HolderStep(t)
      PROVE  /\ \A u \in Thread : Supply(u)'
             /\ fault' \in {"none", "load_target"}
  <2>1. Supply(t)'
    BY <1>3, <1>5, SupplyCall, SupplyPassed, SupplyAcquire, SupplyAddSlab,
       SupplyLoadSlab DEF HolderStep
  <2>2. \A u \in Thread \ {t} : Supply(u)'
    BY <1>1, <1>3, <1>5, SupplyElsewhere
  <2>3. fault' \in {"none", "load_target"}
    BY <1>3, <1>5, CallAsserts, AcquireAssert, OtherAsserts, Zenon
  <2> QED
    BY <2>1, <2>2, <2>3
<1>6. ASSUME Destroy
      PROVE  /\ \A u \in Thread : Supply(u)'
             /\ fault' \in {"none", "load_target"}
  <2>1. \A u \in Thread : pc'[u] = "idle" /\ at'[u] = 1
    BY <1>3, <1>6, Zenon DEF Destroy, threadVars, Supply
  <2> QED
    BY <1>3, <1>6, <2>1, Zenon DEF Destroy, Supply
<1>7. ASSUME UNCHANGED vars
      PROVE  /\ \A u \in Thread : Supply(u)'
             /\ fault' \in {"none", "load_target"}
  BY <1>3, <1>7, SupplyKept, Zenon DEF vars, threadVars, slabVars, allocVars
<1> QED
  BY <1>4, <1>5, <1>6, <1>7 DEF Next, Halted

\* It holds of an allocator that was just initialised.
LEMMA InitSupplied == Init => AInv
<1> SUFFICES ASSUME Init PROVE AInv
  OBVIOUS
<1>1. Mutex
  BY DEF Init, Mutex, Inside
<1>2. ActiveExact
  BY FS_EmptySet DEF Init, ActiveExact
<1>3. \A t \in Thread : Supply(t)
  BY DEF Init, Supply
<1> QED
  BY <1>1, <1>2, <1>3 DEF AInv, Supplied, Init

=============================================================================
