--------------------------- MODULE ThreadSafeSlab ---------------------------
(***************************************************************************)
(* The slab allocator of src/modules/old_thread_safe_slab.c: threads with  *)
(* a cache each, in front of slabs that a mutex protects.                  *)
(*                                                                         *)
(* A free list is the set of its objects: nothing depends on their order.  *)
(* Its count is kept apart, as in the code, so that the two can disagree.  *)
(* A failed assert, or an access the hardware refuses, stops the process:  *)
(* fault names it.                                                         *)
(***************************************************************************)
EXTENDS Integers, Sequences, FiniteSets

CONSTANTS
  Thread,           \* the threads, one jfs_tss_cache_t each
  NoThread,         \* "the mutex is free": not a thread
  Slab,             \* the addresses tss_aligned_mmap may return
  ObjPerSlab,       \* obj_per_slab
  CacheCap,         \* cache_cap
  CacheAcquire,     \* cache_acquire
  CacheRelease,     \* cache_release
  RetireThreshold,  \* retire_threshold
  PercentToRetire,  \* 100 * percent_to_retire
  SizeMod,          \* size_t counts modulo SizeMod
  Ops               \* the calls the program makes

Calls == {"alloc", "free", "refresh", "full_release", "explicit_retire",
          "destroy"}

\* What tss_slab_config_init and tss_cache_config_init assert.
ASSUME ConfigAssumption ==
  /\ NoThread \notin Thread
  /\ ObjPerSlab \in Nat \ {0} /\ RetireThreshold \in Nat
  /\ ObjPerSlab > RetireThreshold
  /\ CacheAcquire \in Nat \ {0} /\ CacheRelease \in Nat \ {0}
  /\ CacheCap \in Nat /\ CacheCap >= CacheAcquire /\ CacheCap >= CacheRelease
  /\ PercentToRetire \in 1..100
  /\ Ops \subseteq Calls

\* The counters are wide enough for the objects of the address space.
ASSUME SizeAssumption ==
  /\ IsFiniteSet(Thread) /\ IsFiniteSet(Slab)
  /\ SizeMod \in Nat /\ Cardinality(Slab \X (1..ObjPerSlab)) < SizeMod

VARIABLES
  lock,        \* the thread that holds alloc->lock
  active,      \* the active list, head first
  activeCount, \* active_list_count
  usedObjs,    \* used_obj_count
  mapped,      \* the slabs that are mapped
  used,        \* used[s]: used_count of slab s
  slabFree,    \* slabFree[s]: the free list of slab s
  retired,     \* the slabs whose retired_flag is set
  cacheList,   \* cacheList[t]: the free list of t's cache
  cacheCount,  \* cacheCount[t]: its free_list_count
  batch,       \* batch[t]: the objects of t's tss_batch_t
  held,        \* the objects the program holds
  pc,          \* pc[t]: where t is
  op,          \* op[t]: the call t is in
  todo,        \* todo[t]: the slabs batch_acquire has yet to add
  at,          \* at[t]: the place of current_slab in the active list
  alive,       \* FALSE once jfs_tss_allocator_destroy ran
  fault,       \* the assert or access that stopped the process
  past         \* history: whether slabs were retired and caches refreshed

allocVars  == <<active, activeCount, usedObjs>>
slabVars   == <<mapped, used, slabFree, retired>>
cacheVars  == <<cacheList, cacheCount>>
threadVars == <<pc, op, todo, at>>
vars == <<lock, allocVars, slabVars, cacheVars, batch, held, threadVars, alive,
          fault, past>>

-----------------------------------------------------------------------------
(* Data. *)

Obj == Slab \X (1..ObjPerSlab)

\* tss_allocator_find_slab: the mask gives the slab an object lies in.
SlabOf(o) == o[1]

ObjectsOf(s) == {o \in Obj : SlabOf(o) = s}

\* Every object that is in no slab's free list.
Out == held \cup UNION {cacheList[t] \cup batch[t] : t \in Thread}

OutOf(s) == {o \in Out : SlabOf(o) = s}

ActiveSlabs == {active[i] : i \in 1..Len(active)}

\* tss_batch_load: the sets of objects it may take from a list when the batch
\* has room for n more.
Loads(list, n) ==
  {X \in SUBSET list : IF Cardinality(list) <= n THEN X = list
                       ELSE Cardinality(X) = n}

\* Mutant: *list_head is not moved past the objects.
LeftAllLoaded(list, X) == list

\* What tss_batch_load leaves in the list.
LeftBy(list, X) == list \ X

\* Mutant: total starts at 0.
LoadCountFromZero(X) == Cardinality(X) - 1

\* The total tss_batch_load returns.
LoadCount(X) == Cardinality(X)

\* Mutant: the cache may fill up to its capacity.
CacheFullLate(n) == n > CacheCap

\* A cache that holds n objects goes down the slow path of jfs_tss_free.
CacheFull(n) == n >= CacheCap

\* obj_remaining of tss_allocator_batch_acquire.
ObjRemaining == (ObjPerSlab * activeCount - usedObjs) % SizeMod

\* Mutant: the division rounds down.
SlabsToAddRoundedDown ==
  IF ObjRemaining < CacheAcquire
  THEN (CacheAcquire - ObjRemaining) \div ObjPerSlab
  ELSE 0

\* number_of_slabs.
SlabsToAdd ==
  IF ObjRemaining < CacheAcquire
  THEN ((CacheAcquire - ObjRemaining) \div ObjPerSlab) + 1
  ELSE 0

\* 0 / 0 is not a number, and no number is at most that.
ReadyForRetire ==
  /\ activeCount > 0
  /\ 100 * usedObjs <= PercentToRetire * (activeCount * ObjPerSlab)

Init ==
  /\ lock = NoThread
  /\ active = <<>> /\ activeCount = 0 /\ usedObjs = 0
  /\ mapped = {} /\ retired = {}
  /\ used = [s \in Slab |-> 0] /\ slabFree = [s \in Slab |-> {}]
  /\ cacheList = [t \in Thread |-> {}] /\ cacheCount = [t \in Thread |-> 0]
  /\ batch = [t \in Thread |-> {}] /\ held = {}
  /\ pc = [t \in Thread |-> "idle"] /\ op = [t \in Thread |-> "none"]
  /\ todo = [t \in Thread |-> 0] /\ at = [t \in Thread |-> 1]
  /\ alive = TRUE /\ fault = "none" /\ past = {}

\* t is outside the allocator and may make call c.
CanCall(t, c) == fault = "none" /\ alive /\ pc[t] = "idle" /\ c \in Ops

\* t is at place p of a call.
At(t, p) == fault = "none" /\ pc[t] = p

\* An assert of the code fails, or memory is not there.
Fails(f) ==
  /\ fault' = f
  /\ UNCHANGED <<lock, allocVars, slabVars, cacheVars, batch, held, threadVars,
                 alive, past>>

\* t enters the mutex on behalf of call c.
WantLock(t, c) ==
  /\ pc' = [pc EXCEPT ![t] = "lock"]
  /\ op' = [op EXCEPT ![t] = c]

-----------------------------------------------------------------------------
(* The calls, up to the mutex. *)

\* jfs_tss_alloc with a count above 0 takes the head of the cache's list.
AllocFast(t) ==
  /\ CanCall(t, "alloc") /\ cacheCount[t] > 0
  /\ \/ \E o \in cacheList[t] :
          /\ cacheList' = [cacheList EXCEPT ![t] = @ \ {o}]
          /\ cacheCount' = [cacheCount EXCEPT ![t] = @ - 1]
          /\ held' = held \cup {o}
          /\ UNCHANGED <<lock, allocVars, slabVars, batch, threadVars, alive,
                         fault, past>>
     \/ cacheList[t] = {} /\ Fails("null_head")

AllocSlow(t) ==
  /\ CanCall(t, "alloc") /\ cacheCount[t] = 0
  /\ WantLock(t, "alloc")
  /\ UNCHANGED <<lock, allocVars, slabVars, cacheVars, batch, held, todo, at,
                 alive, fault, past>>

\* jfs_tss_free of an object below the cache's capacity.
FreeFast(t, o) ==
  /\ CanCall(t, "free") /\ o \in held
  /\ ~CacheFull(cacheCount[t] + 1)
  /\ held' = held \ {o}
  /\ cacheList' = [cacheList EXCEPT ![t] = @ \cup {o}]
  /\ cacheCount' = [cacheCount EXCEPT ![t] = @ + 1]
  /\ UNCHANGED <<lock, allocVars, slabVars, batch, threadVars, alive, fault, past>>

\* jfs_tss_free that fills the cache: tss_free_slow_path takes a batch out of
\* the cache before it locks.
FreeSlow(t, o) ==
  /\ CanCall(t, "free") /\ o \in held
  /\ CacheFull(cacheCount[t] + 1)
  /\ \E X \in Loads(cacheList[t] \cup {o}, CacheRelease) :
       \/ /\ Cardinality(X) >= CacheRelease
          /\ held' = held \ {o}
          /\ cacheList' = [cacheList EXCEPT ![t] = LeftBy(@ \cup {o}, X)]
          /\ cacheCount' = [cacheCount EXCEPT ![t] = @ + 1 - LoadCount(X)]
          /\ batch' = [batch EXCEPT ![t] = X]
          /\ WantLock(t, "free")
          /\ UNCHANGED <<lock, allocVars, slabVars, todo, at, alive, fault, past>>
       \/ Cardinality(X) < CacheRelease /\ Fails("release_target")

\* jfs_tss_cache_refresh empties the list into the batch.  It leaves
\* free_list_count as it is.
Refresh(t) ==
  /\ CanCall(t, "refresh")
  /\ \/ cacheCount[t] = 0 /\ Fails("load_target")
     \/ /\ cacheCount[t] > 0
        /\ \E X \in Loads(cacheList[t], cacheCount[t]) :
             \/ /\ LoadCount(X) = cacheCount[t]
                /\ cacheList' = [cacheList EXCEPT ![t] = LeftBy(@, X)]
                /\ batch' = [batch EXCEPT ![t] = X]
                /\ WantLock(t, "refresh")
                /\ past' = past \cup {"refreshed"}
                /\ UNCHANGED <<lock, allocVars, slabVars, cacheCount, held,
                               todo, at, alive, fault>>
             \/ LoadCount(X) # cacheCount[t] /\ Fails("loaded_count")

\* jfs_tss_cache_full_release of a cache that is not empty.
FullRelease(t) ==
  /\ CanCall(t, "full_release") /\ cacheCount[t] > 0
  /\ \E X \in Loads(cacheList[t], cacheCount[t]) :
       \/ /\ X = cacheList[t] /\ LoadCount(X) = cacheCount[t]
          /\ cacheList' = [cacheList EXCEPT ![t] = {}]
          /\ cacheCount' = [cacheCount EXCEPT ![t] = 0]
          /\ batch' = [batch EXCEPT ![t] = X]
          /\ WantLock(t, "full_release")
          /\ UNCHANGED <<lock, allocVars, slabVars, held, todo, at, alive,
                         fault, past>>
       \/ /\ ~(X = cacheList[t] /\ LoadCount(X) = cacheCount[t])
          /\ Fails("full_count")

ExplicitRetire(t) ==
  /\ CanCall(t, "explicit_retire")
  /\ WantLock(t, "explicit_retire")
  /\ UNCHANGED <<lock, allocVars, slabVars, cacheVars, batch, held, todo, at,
                 alive, fault, past>>

-----------------------------------------------------------------------------
(* Under the mutex. *)

\* Where a call goes on once it has the mutex.
Locked(c) ==
  CASE c = "alloc"                              -> "acquire"
    [] c \in {"free", "full_release", "refresh"} -> "release"
    [] c = "explicit_retire"                    -> "retire"

Lock(t) ==
  /\ At(t, "lock") /\ lock = NoThread
  /\ lock' = t
  /\ pc' = [pc EXCEPT ![t] = Locked(op[t])]
  /\ UNCHANGED <<allocVars, slabVars, cacheVars, batch, held, op, todo, at,
                 alive, fault, past>>

\* Mutants: one of the two conditions is missing.
DestroysSlabInUse(s) == s \in retired

DestroysSlabNotRetired(s) == used'[s] = 0

\* tss_allocator_release_obj destroys a retired slab with its last object.
DestroysSlab(s) == used'[s] = 0 /\ s \in retired

\* One turn of tss_allocator_batch_release.  It writes to the slab the object
\* lies in: SlabsOutlastObjects says that the slab is mapped.
ReleaseObj(t) ==
  /\ At(t, "release")
  /\ \E o \in batch[t] : LET s == SlabOf(o) IN
       /\ batch' = [batch EXCEPT ![t] = @ \ {o}]
       /\ used' = [used EXCEPT ![s] = (@ - 1) % SizeMod]
       /\ usedObjs' = (usedObjs - 1) % SizeMod
       /\ IF DestroysSlab(s)
          THEN /\ mapped' = mapped \ {s} /\ retired' = retired \ {s}
               /\ slabFree' = [slabFree EXCEPT ![s] = {}]
          ELSE /\ slabFree' = [slabFree EXCEPT ![s] = @ \cup {o}]
               /\ UNCHANGED <<mapped, retired>>
  /\ UNCHANGED <<lock, active, activeCount, cacheVars, held, threadVars, alive,
                 fault, past>>

ReleaseEnd(t) ==
  /\ At(t, "release") /\ batch[t] = {}
  /\ pc' = [pc EXCEPT ![t] = IF op[t] = "refresh" THEN "acquire" ELSE "unlock"]
  /\ UNCHANGED <<lock, allocVars, slabVars, cacheVars, batch, held, op, todo,
                 at, alive, fault, past>>

\* tss_allocator_batch_acquire decides how many slabs to add.
Acquire(t) ==
  /\ At(t, "acquire")
  /\ todo' = [todo EXCEPT ![t] = SlabsToAdd]
  /\ pc' = [pc EXCEPT ![t] = IF SlabsToAdd > 0 THEN "add" ELSE "load"]
  /\ UNCHANGED <<lock, allocVars, slabVars, cacheVars, batch, held, op, at,
                 alive, fault, past>>

\* tss_allocator_add_slab: a fresh mapping goes to the head of the list.
AddSlab(t) ==
  /\ At(t, "add")
  /\ \E s \in Slab \ mapped :
       /\ mapped' = mapped \cup {s}
       /\ used' = [used EXCEPT ![s] = 0]
       /\ slabFree' = [slabFree EXCEPT ![s] = ObjectsOf(s)]
       /\ retired' = retired \ {s}
       /\ active' = <<s>> \o active
  /\ activeCount' = (activeCount + 1) % SizeMod
  /\ todo' = [todo EXCEPT ![t] = @ - 1]
  /\ pc' = [pc EXCEPT ![t] = IF todo[t] > 1 THEN "add" ELSE "load"]
  /\ UNCHANGED <<lock, usedObjs, cacheVars, batch, held, op, at, alive, fault, past>>

\* mmap fails.  The slabs of earlier turns stay; the call ends with an error.
AddSlabError(t) ==
  /\ At(t, "add")
  /\ pc' = [pc EXCEPT ![t] = "unlock"]
  /\ todo' = [todo EXCEPT ![t] = 0]
  /\ UNCHANGED <<lock, allocVars, slabVars, cacheVars, batch, held, op, at,
                 alive, fault, past>>

\* Mutant: a loop over the active list stays where it is.
SameSlab(i) == i

\* The loops over the active list go on to the next slab.
NextSlab(i) == i + 1

\* One turn of the loop over the active list: load from current_slab.
LoadSlab(t) ==
  /\ At(t, "load")
  /\ Cardinality(batch[t]) < CacheAcquire /\ at[t] <= Len(active)
  /\ LET s == active[at[t]] IN
       \E X \in Loads(slabFree[s], CacheAcquire - Cardinality(batch[t])) :
         /\ batch' = [batch EXCEPT ![t] = @ \cup X]
         /\ slabFree' = [slabFree EXCEPT ![s] = LeftBy(@, X)]
         /\ used' = [used EXCEPT ![s] = (@ + LoadCount(X)) % SizeMod]
         /\ usedObjs' = (usedObjs + LoadCount(X)) % SizeMod
  /\ at' = [at EXCEPT ![t] = NextSlab(@)]
  /\ UNCHANGED <<lock, active, activeCount, mapped, retired, cacheVars, held,
                 pc, op, todo, alive, fault, past>>

\* The loop ends.  tss_alloc_slow_path then looks whether to retire slabs.
LoadEnd(t) ==
  /\ At(t, "load")
  /\ \/ /\ Cardinality(batch[t]) >= CacheAcquire
        /\ at' = [at EXCEPT ![t] = 1]
        /\ pc' = [pc EXCEPT ![t] = IF op[t] = "alloc" /\ ReadyForRetire
                                   THEN "retire" ELSE "unlock"]
        /\ UNCHANGED <<lock, allocVars, slabVars, cacheVars, batch, held, op,
                       todo, alive, fault, past>>
     \/ /\ Cardinality(batch[t]) < CacheAcquire /\ at[t] > Len(active)
        /\ Fails("met_target")

\* *prev_next = (*prev_next)->next takes the i-th slab out of a list.
Unlinked(list, i) == SubSeq(list, 1, i - 1) \o SubSeq(list, i + 1, Len(list))

\* The branches of tss_allocator_retire_slabs on slab s.  The slab that is
\* destroyed stays in active_list_count.
RetireEmpty(s) ==
  /\ used[s] = 0
  /\ mapped' = mapped \ {s}
  /\ slabFree' = [slabFree EXCEPT ![s] = {}]
  /\ UNCHANGED <<activeCount, retired>>

RetireThin(s) ==
  /\ used[s] > 0 /\ used[s] <= RetireThreshold
  /\ retired' = retired \cup {s}
  /\ activeCount' = (activeCount - 1) % SizeMod
  /\ UNCHANGED <<mapped, slabFree>>

\* One turn of tss_allocator_retire_slabs; prev_next is before at[t].
RetireSlab(t) ==
  /\ At(t, "retire") /\ at[t] <= Len(active)
  /\ LET s == active[at[t]] IN
       \/ /\ RetireEmpty(s) \/ RetireThin(s)
          /\ active' = Unlinked(active, at[t])
          /\ past' = past \cup {"retired"}
          /\ at' = at
       \/ /\ used[s] > RetireThreshold
          /\ at' = [at EXCEPT ![t] = NextSlab(@)]
          /\ UNCHANGED <<active, activeCount, mapped, slabFree, retired, past>>
  /\ UNCHANGED <<lock, usedObjs, used, cacheVars, batch, held, pc, op, todo,
                 alive, fault>>

RetireEnd(t) ==
  /\ At(t, "retire") /\ at[t] > Len(active)
  /\ at' = [at EXCEPT ![t] = 1]
  /\ pc' = [pc EXCEPT ![t] = "unlock"]
  /\ UNCHANGED <<lock, allocVars, slabVars, cacheVars, batch, held, op, todo,
                 alive, fault, past>>

\* Mutant: unload_count is not added to free_list_count.
UnloadUncounted(t) ==
  \/ /\ batch[t] = {}
     /\ UNCHANGED <<cacheVars, batch, held>>
  \/ \E taken \in SUBSET batch[t] :
       /\ batch[t] # {}
       /\ Cardinality(taken) = IF op[t] = "alloc" THEN 1 ELSE 0
       /\ cacheList' = [cacheList EXCEPT ![t] = @ \cup (batch[t] \ taken)]
       /\ cacheCount' = [cacheCount EXCEPT ![t] = @ - Cardinality(taken)]
       /\ held' = held \cup taken
       /\ batch' = [batch EXCEPT ![t] = {}]

\* tss_batch_unload, and for jfs_tss_alloc the object that it returns.  After
\* an error the batch is empty.
Unload(t) ==
  \/ /\ batch[t] = {}
     /\ UNCHANGED <<cacheVars, batch, held>>
  \/ \E taken \in SUBSET batch[t] :
       /\ batch[t] # {}
       /\ Cardinality(taken) = IF op[t] = "alloc" THEN 1 ELSE 0
       /\ cacheList' = [cacheList EXCEPT ![t] = @ \cup (batch[t] \ taken)]
       /\ cacheCount' = [cacheCount EXCEPT
                           ![t] = @ + Cardinality(batch[t]) - Cardinality(taken)]
       /\ held' = held \cup taken
       /\ batch' = [batch EXCEPT ![t] = {}]

\* The mutex is released and the call returns.
Unlock(t) ==
  /\ At(t, "unlock")
  /\ lock' = NoThread
  /\ Unload(t)
  /\ pc' = [pc EXCEPT ![t] = "idle"]
  /\ op' = [op EXCEPT ![t] = "none"]
  /\ UNCHANGED <<allocVars, slabVars, todo, at, alive, fault, past>>

\* jfs_tss_allocator_destroy, when no thread can use the allocator.
Destroy ==
  /\ fault = "none" /\ alive /\ "destroy" \in Ops
  /\ \A t \in Thread : pc[t] = "idle"
  /\ mapped' = mapped \ ActiveSlabs
  /\ slabFree' = [s \in Slab |-> IF s \in ActiveSlabs THEN {} ELSE slabFree[s]]
  /\ active' = <<>>
  /\ alive' = FALSE
  /\ UNCHANGED <<lock, activeCount, usedObjs, used, retired, cacheVars, batch,
                 held, threadVars, fault, past>>

\* The process has stopped, or the allocator is gone.
Halted == (fault # "none" \/ ~alive) /\ UNCHANGED vars

Call(t) ==
  \/ AllocFast(t) \/ AllocSlow(t)
  \/ \E o \in held : FreeFast(t, o) \/ FreeSlow(t, o)
  \/ Refresh(t) \/ FullRelease(t) \/ ExplicitRetire(t)

\* What t does while it holds the mutex.
HolderStep(t) ==
  \/ ReleaseObj(t) \/ ReleaseEnd(t)
  \/ Acquire(t) \/ AddSlab(t) \/ AddSlabError(t) \/ LoadSlab(t) \/ LoadEnd(t)
  \/ RetireSlab(t) \/ RetireEnd(t)
  \/ Unlock(t)

Next ==
  \/ \E t \in Thread : Call(t) \/ Lock(t) \/ HolderStep(t)
  \/ Destroy
  \/ Halted

Spec == Init /\ [][Next]_vars

\* A thread inside the mutex is scheduled.  No thread has to call, and the
\* mutex promises no thread its turn.
FairSpec == Spec /\ \A t \in Thread : WF_vars(HolderStep(t))

-----------------------------------------------------------------------------
(* Properties. *)

Faults == {"none", "null_head", "release_target", "load_target",
           "loaded_count", "full_count", "met_target"}

\* Type invariant of the allocator, the slabs, the caches and the threads.
TypeOK ==
  /\ lock \in Thread \cup {NoThread}
  /\ active \in Seq(Slab)
  /\ activeCount \in 0..(SizeMod - 1) /\ usedObjs \in 0..(SizeMod - 1)
  /\ mapped \subseteq Slab /\ retired \subseteq Slab
  /\ used \in [Slab -> 0..(SizeMod - 1)]
  /\ slabFree \in [Slab -> SUBSET Obj]
  /\ cacheList \in [Thread -> SUBSET Obj] /\ cacheCount \in [Thread -> Nat]
  /\ batch \in [Thread -> SUBSET Obj] /\ held \subseteq Obj
  /\ pc \in [Thread -> {"idle", "lock", "release", "acquire", "add", "load",
                        "retire", "unlock"}]
  /\ op \in [Thread -> Calls \cup {"none"}]
  /\ todo \in [Thread -> Nat] /\ at \in [Thread -> Nat \ {0}]
  /\ alive \in BOOLEAN /\ fault \in Faults
  /\ past \subseteq {"retired", "refreshed"}

\* An object is in one place: with the program, in one cache, in one batch or
\* in the free list of its own slab.  No object of a mapped slab is lost, no
\* two calls of jfs_tss_alloc return the same object while it is in use, and
\* tss_batch_load, tss_batch_unload and tss_allocator_release_obj leave no
\* object in two lists.
ObjectsInOnePlace ==
  /\ \A t \in Thread :
       /\ held \cap (cacheList[t] \cup batch[t]) = {}
       /\ cacheList[t] \cap batch[t] = {}
       /\ \A u \in Thread \ {t} :
            (cacheList[t] \cup batch[t]) \cap (cacheList[u] \cup batch[u]) = {}
  /\ \A s \in mapped : slabFree[s] = ObjectsOf(s) \ OutOf(s)

\* While the allocator lives, the slab of every object that the program, a
\* cache or a batch has is mapped: neither the retire pass nor the release of
\* another thread's object unmaps memory that is in use, and
\* tss_allocator_release_obj finds its slab.
SlabsOutlastObjects == alive => \A o \in Out : SlabOf(o) \in mapped

\* used_count is the number of objects of the slab that are out of its list,
\* and used_obj_count is their number in all slabs, the retired ones included.
CountsExact ==
  alive => /\ \A s \in mapped : used[s] = Cardinality(OutOf(s))
           /\ usedObjs = Cardinality(Out)

\* A slab is mapped exactly when the active list holds it, or when it was
\* retired and still has objects out.  tss_allocator_retire_slabs drops its
\* pointer to a slab only when a later release is sure to unmap it, and
\* jfs_tss_allocator_destroy leaves no other slab behind.
SlabsAccountedFor ==
  mapped = ActiveSlabs \cup {s \in retired : used[s] > 0}

\* free_list_count is the length of the cache's list and stays below
\* cache_cap, through every path of jfs_tss_alloc, jfs_tss_free and
\* jfs_tss_cache_full_release, until a cache is refreshed.
CacheCountExact ==
  "refreshed" \notin past =>
    \A t \in Thread : /\ cacheCount[t] = Cardinality(cacheList[t])
                      /\ cacheCount[t] < CacheCap

\* No assert of the allocator fails, and no list is found empty that its count
\* says is not, until a slab is retired or a cache refreshed: what the threads
\* do between their turns in the mutex cannot make one fail.  A refresh of an
\* empty cache is the caller's error (jfs_tss_cache_refresh).
AssertsHold == past = {} => fault \in {"none", "load_target"}

\* The assert that ends tss_allocator_batch_acquire.
AcquireMeetsTarget == fault # "met_target"

\* The assert of jfs_tss_cache_refresh on what it took out of the cache.
RefreshLoadsCount == fault # "loaded_count"

\* A thread that holds the mutex releases it, whatever error its call meets,
\* unless an assert stops the process.
LockReleased ==
  \A t \in Thread : lock = t ~> lock # t \/ fault # "none"

=============================================================================
