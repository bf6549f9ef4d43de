------------------------ MODULE ThreadSafeSlabProofs ------------------------
(***************************************************************************)
(* Theorems about ThreadSafeSlab, for any number of threads, caches of any *)
(* size and slabs of any size, and the rest of the proof that its          *)
(* invariant is inductive: the steps that move objects between a slab and  *)
(* a batch, map slabs, unmap them or change the active list.               *)
(***************************************************************************)
EXTENDS ThreadSafeSlabAsserts

\* The provers of a leaf that names none, in this order.
USE SMTT(20), Z3T(20), ZenonT(20)

\* tss_allocator_release_obj.  The slab of the object is mapped and counts it,
\* so the counters do not wrap; a slab that is destroyed has no object out.
LEMMA ReleaseObjKeeps ==
  ASSUME IInv, NEW t \in Thread, ReleaseObj(t)
  PROVE  IInv'
<1>1. PICK o \in batch[t] :
        /\ batch' = [batch EXCEPT ![t] = @ \ {o}]
        /\ used' = [used EXCEPT ![SlabOf(o)] = (@ - 1) % SizeMod]
        /\ usedObjs' = (usedObjs - 1) % SizeMod
        /\ IF DestroysSlab(SlabOf(o))
           THEN /\ mapped' = mapped \ {SlabOf(o)} /\ retired' = retired \ {SlabOf(o)}
                /\ slabFree' = [slabFree EXCEPT ![SlabOf(o)] = {}]
           ELSE /\ slabFree' = [slabFree EXCEPT ![SlabOf(o)] = @ \cup {o}]
                /\ UNCHANGED <<mapped, retired>>
  BY Zenon DEF ReleaseObj
<1>2. UNCHANGED <<lock, active, activeCount, cacheVars, held, threadVars, alive,
                  fault, past>>
  BY DEF ReleaseObj
<1> DEFINE s == SlabOf(o)
<1>3. /\ alive /\ o \in Obj /\ o \in Out /\ s \in Slab /\ o \in ObjectsOf(s)
      /\ s \in mapped
  <2>1. alive
    BY DEF ReleaseObj, At, IInv, Control
  <2>2. o \in Obj /\ o \in Out
    BY OutMember DEF IInv, TypeOK
  <2>3. s \in Slab /\ o \in ObjectsOf(s)
    BY <2>2, SlabOfObject
  <2>4. s \in mapped
    BY <2>1, <2>2 DEF IInv, Slabs, SlabsOutlastObjects
  <2> QED
    BY <2>1, <2>2, <2>3, <2>4
<1> HIDE DEF s
<1>4. Apart' /\ Out' = Out \ {o}
  <2>1. /\ \A u \in Thread \ {t} : cacheList'[u] = cacheList[u] /\ batch'[u] = batch[u]
        /\ cacheList'[t] = cacheList[t] /\ batch'[t] = batch[t] \ {o} /\ held' = held
    BY <1>1, <1>2, Zenon DEF IInv, TypeOK, cacheVars
  <2>2. Moves(t) /\ Hands(t)' = Hands(t) \ {o}
    BY <2>1 DEF IInv, Apart, Moves, Hands
  <2>3. Hands(t) \subseteq Out /\ o \in Hands(t)
    BY OutMember DEF Hands
  <2> QED
    BY <2>2, <2>3, Moved DEF IInv
<1>5. /\ OutOf(s)' = OutOf(s) \ {o} /\ o \in OutOf(s)
      /\ \A r : r # s => OutOf(r)' = OutOf(r)
  BY <1>3, <1>4 DEF OutOf, s
<1>6. /\ Out \in SUBSET Obj /\ OutOf(s) \in SUBSET Obj
      /\ Out' \in SUBSET Obj /\ OutOf(s)' \in SUBSET Obj
  BY <1>4, <1>5, OutObjects DEF IInv, OutOf
<1>7. usedObjs = Cardinality(Out) /\ used[s] = Cardinality(OutOf(s))
  BY <1>3 DEF IInv, Slabs, CountsExact
<1>8. /\ Cardinality(Out') = Cardinality(Out) - 1
      /\ Cardinality(OutOf(s)') = Cardinality(OutOf(s)) - 1
  <2>1. IsFiniteSet(Out) /\ IsFiniteSet(OutOf(s))
    BY <1>6, Countable
  <2> QED
    BY <1>3, <1>4, <1>5, <2>1, FS_RemoveElement, Zenon
<1>9. /\ Cardinality(Out') \in 0..(SizeMod - 1)
      /\ Cardinality(OutOf(s)') \in 0..(SizeMod - 1)
      /\ Cardinality(OutOf(s)') = 0 <=> OutOf(s)' = {}
  BY <1>6, Countable
<1>10. /\ usedObjs' = Cardinality(Out')
       /\ used' = [used EXCEPT ![s] = Cardinality(OutOf(s)')]
  <2>1. (usedObjs - 1) % SizeMod = Cardinality(Out')
    BY <1>7, <1>8, <1>9, Wrap
  <2>2. (used[s] - 1) % SizeMod = Cardinality(OutOf(s)')
    BY <1>7, <1>8, <1>9, Wrap
  <2> QED
    BY <1>1, <1>3, <2>1, <2>2, Zenon DEF s
<1>11. TypeOK'
  <2>1. used' \in [Slab -> 0..(SizeMod - 1)] /\ usedObjs' \in 0..(SizeMod - 1)
    BY <1>9, <1>10, Zenon DEF IInv, TypeOK
  <2>2. /\ slabFree' \in [Slab -> SUBSET Obj]
        /\ mapped' \subseteq Slab /\ retired' \subseteq Slab
    <3>1. CASE DestroysSlab(SlabOf(o))
      BY <1>1, <3>1, Zenon DEF IInv, TypeOK
    <3>2. CASE ~DestroysSlab(SlabOf(o))
      <4>1. slabFree[SlabOf(o)] \cup {o} \in SUBSET Obj
        BY <1>3 DEF IInv, TypeOK, s
      <4> QED
        BY <1>1, <3>2, <4>1, Zenon DEF IInv, TypeOK
    <3> QED
      BY <3>1, <3>2
  <2> QED
    BY <1>1, <1>2, <2>1, <2>2, Zenon DEF IInv, TypeOK, cacheVars, threadVars
<1>12. Control'
  BY <1>1, <1>2 DEF IInv, TypeOK, Control, ReleaseObj, At, cacheVars, threadVars
<1>13. ActiveSlabs' = ActiveSlabs
  BY <1>2 DEF ActiveSlabs
<1>14. used'[s] = Cardinality(OutOf(s)') /\ \A r \in Slab \ {s} : used'[r] = used[r]
  BY <1>3, <1>10 DEF IInv, TypeOK
<1>15. CASE DestroysSlab(s)
  <2>1. /\ mapped' = mapped \ {s} /\ retired' = retired \ {s}
        /\ \A r \in Slab \ {s} : slabFree'[r] = slabFree[r]
        /\ s \in retired /\ OutOf(s)' = {}
    BY <1>1, <1>9, <1>14, <1>15, Zenon DEF s, DestroysSlab, IInv, TypeOK
  <2>2. Lists'
    BY <1>2, <1>13, <1>14, <2>1, Zenon DEF IInv, TypeOK, Slabs, Lists
  <2>3. FreeExact'
    BY <1>5, <2>1, Zenon DEF IInv, TypeOK, Slabs, FreeExact
  <2>4. SlabsOutlastObjects'
    BY <1>3, <1>4, <2>1, Zenon DEF IInv, Slabs, SlabsOutlastObjects, OutOf
  <2>5. CountsExact'
    BY <1>2, <1>3, <1>5, <1>10, <1>14, <2>1, Zenon DEF IInv, TypeOK, Slabs, CountsExact
  <2> QED
    BY <1>4, <1>11, <1>12, <2>2, <2>3, <2>4, <2>5, Zenon DEF IInv, Slabs
<1>16. CASE ~DestroysSlab(s)
  <2>1. /\ mapped' = mapped /\ retired' = retired
        /\ slabFree'[s] = slabFree[s] \cup {o}
        /\ \A r \in Slab \ {s} : slabFree'[r] = slabFree[r]
        /\ s \in retired => used'[s] # 0
    BY <1>1, <1>3, <1>16, Zenon DEF s, DestroysSlab, IInv, TypeOK
  <2>2. Lists'
    <3>1. ASSUME NEW r \in retired PROVE used'[r] > 0
      <4>1. CASE r = s
        BY <1>9, <1>14, <2>1, <4>1
      <4>2. CASE r # s
        BY <1>14, <4>2 DEF IInv, TypeOK, Slabs, Lists
      <4> QED
        BY <4>1, <4>2, Zenon
    <3> QED
      BY <1>2, <1>13, <2>1, <3>1, Zenon DEF IInv, Slabs, Lists
  <2>3. FreeExact'
    <3>1. slabFree'[s] = ObjectsOf(s) \ OutOf(s)'
      BY <1>3, <1>5, <2>1 DEF IInv, Slabs, FreeExact
    <3>2. ASSUME NEW r \in mapped, r # s PROVE slabFree'[r] = ObjectsOf(r) \ OutOf(r)'
      BY <1>5, <2>1, <3>2, Zenon DEF IInv, TypeOK, Slabs, FreeExact
    <3> QED
      BY <2>1, <3>1, <3>2 DEF FreeExact
  <2>4. SlabsOutlastObjects'
    BY <1>2, <1>4, <2>1, Zenon DEF IInv, Slabs, SlabsOutlastObjects
  <2>5. CountsExact'
    BY <1>2, <1>3, <1>5, <1>10, <1>14, <2>1, Zenon DEF IInv, TypeOK, Slabs,
       CountsExact
  <2> QED
    BY <1>4, <1>11, <1>12, <2>2, <2>3, <2>4, <2>5, Zenon DEF IInv, Slabs
<1> QED
  BY <1>15, <1>16, Zenon

\* One turn of the load loop.  The objects X were in the slab's list, so they
\* were not out, and the counters grow by their number without a wrap.
LEMMA LoadSlabKeeps ==
  ASSUME IInv, NEW t \in Thread, LoadSlab(t)
  PROVE  IInv'
<1>1. PICK s \in Slab : s = active[at[t]] /\ at[t] \in 1..Len(active)
  <2>1. at[t] \in 1..Len(active)
    BY DEF LoadSlab, IInv, TypeOK
  <2> QED
    BY <2>1 DEF IInv, TypeOK
<1>2. PICK X \in Loads(slabFree[s], CacheAcquire - Cardinality(batch[t])) :
        /\ batch' = [batch EXCEPT ![t] = @ \cup X]
        /\ slabFree' = [slabFree EXCEPT ![s] = LeftBy(@, X)]
        /\ used' = [used EXCEPT ![s] = (@ + LoadCount(X)) % SizeMod]
        /\ usedObjs' = (usedObjs + LoadCount(X)) % SizeMod
  BY <1>1, Zenon DEF LoadSlab
<1>3. /\ at' = [at EXCEPT ![t] = NextSlab(@)]
      /\ UNCHANGED <<lock, active, activeCount, mapped, retired, cacheVars, held,
                     pc, op, todo, alive, fault, past>>
      /\ alive' = alive /\ mapped' = mapped
  BY DEF LoadSlab
<1>4. s \in ActiveSlabs /\ s \in mapped /\ alive
  <2>1. Lists /\ Control
    BY Zenon DEF IInv, Slabs
  <2>2. pc[t] = "load"
    BY Zenon DEF LoadSlab, At
  <2>3. s \in ActiveSlabs
    BY <1>1, Zenon DEF ActiveSlabs
  <2>4. alive
    BY <2>1, <2>2 DEF Control
  <2> QED
    BY <2>1, <2>3, <2>4, Zenon DEF Lists
<1>5. /\ X \subseteq ObjectsOf(s) /\ X \in SUBSET Obj /\ X \cap Out = {}
      /\ X \subseteq slabFree[s]
  <2>1. X \subseteq slabFree[s] /\ slabFree[s] = ObjectsOf(s) \ OutOf(s)
    BY <1>2, <1>4 DEF Loads, IInv, Slabs, FreeExact
  <2> QED
    BY <2>1 DEF ObjectsOf, OutOf
<1>6. Apart' /\ Out' = Out \cup X
  <2>1. /\ \A u \in Thread \ {t} : cacheList'[u] = cacheList[u] /\ batch'[u] = batch[u]
        /\ cacheList'[t] = cacheList[t] /\ batch'[t] = batch[t] \cup X /\ held' = held
    BY <1>2, <1>3, Zenon DEF IInv, TypeOK, cacheVars
  <2>2. Hands(t) \subseteq Out /\ Hands(t)' = Hands(t) \cup X
    BY <2>1, OutMember, Zenon DEF Hands
  <2>3. X \cap held = {} /\ X \cap cacheList[t] = {}
    BY <1>5, <2>2 DEF Hands
  <2>4. Moves(t)
    BY <1>5, <2>1, <2>2, <2>3 DEF IInv, Apart, Moves
  <2> QED
    BY <2>2, <2>4, Moved DEF IInv
<1>7. /\ OutOf(s)' = OutOf(s) \cup X /\ OutOf(s) \cap X = {}
      /\ \A r : r # s => OutOf(r)' = OutOf(r)
  BY <1>5, <1>6 DEF OutOf, ObjectsOf
<1>8. /\ Out \in SUBSET Obj /\ OutOf(s) \in SUBSET Obj
      /\ Out' \in SUBSET Obj /\ OutOf(s)' \in SUBSET Obj
  BY <1>5, <1>6, <1>7, OutObjects DEF IInv, OutOf
<1>9. /\ IsFiniteSet(Out) /\ IsFiniteSet(OutOf(s)) /\ IsFiniteSet(X)
      /\ Cardinality(Out') \in 0..(SizeMod - 1)
      /\ Cardinality(OutOf(s)') \in 0..(SizeMod - 1)
      /\ Cardinality(Out) \in Nat /\ Cardinality(OutOf(s)) \in Nat
      /\ Cardinality(X) \in Nat
  BY <1>5, <1>8, Countable, FS_CardinalityType, Zenon
<1>10. /\ Cardinality(Out') = Cardinality(Out) + Cardinality(X)
      /\ Cardinality(OutOf(s)') = Cardinality(OutOf(s)) + Cardinality(X)
  <2>1. Cardinality(Out \cap X) = 0 /\ Cardinality(OutOf(s) \cap X) = 0
    BY <1>5, <1>7, FS_EmptySet, Zenon
  <2>2. Cardinality(Out \cup X)
          = Cardinality(Out) + Cardinality(X) - Cardinality(Out \cap X)
    BY <1>9, FS_Union
  <2>3. Cardinality(OutOf(s) \cup X)
          = Cardinality(OutOf(s)) + Cardinality(X) - Cardinality(OutOf(s) \cap X)
    BY <1>9, FS_Union
  <2> QED
    BY <1>6, <1>7, <1>9, <2>1, <2>2, <2>3
<1>11. /\ usedObjs' = Cardinality(Out')
       /\ used' = [used EXCEPT ![s] = Cardinality(OutOf(s)')]
  <2>1. usedObjs = Cardinality(Out) /\ used[s] = Cardinality(OutOf(s))
    BY <1>4 DEF IInv, Slabs, CountsExact
  <2>2. (usedObjs + Cardinality(X)) % SizeMod = Cardinality(Out')
    BY <1>9, <1>10, <2>1, Wrap
  <2>3. (used[s] + Cardinality(X)) % SizeMod = Cardinality(OutOf(s)')
    BY <1>9, <1>10, <2>1, Wrap
  <2> QED
    BY <1>2, <2>2, <2>3, Zenon DEF LoadCount
<1>12. TypeOK'
  <2>1. used' \in [Slab -> 0..(SizeMod - 1)] /\ usedObjs' \in 0..(SizeMod - 1)
    BY <1>9, <1>11 DEF IInv, TypeOK
  <2>2. slabFree' \in [Slab -> SUBSET Obj]
    BY <1>2 DEF IInv, TypeOK, LeftBy
  <2>3. batch' \in [Thread -> SUBSET Obj]
    BY <1>2, <1>5 DEF IInv, TypeOK
  <2>4. at' \in [Thread -> Nat \ {0}]
    BY <1>3 DEF IInv, TypeOK, NextSlab
  <2> QED
    BY <1>3, <2>1, <2>2, <2>3, <2>4, Zenon DEF IInv, TypeOK, cacheVars
<1>13. Control'
  <2>1. Control /\ pc[t] = "load"
    BY Zenon DEF IInv, LoadSlab, At
  <2>2. batch \in [Thread -> SUBSET Obj]
    BY Zenon DEF IInv, TypeOK
  <2>3. \A r \in Thread \ {t} : batch'[r] = batch[r]
    BY <1>2, <2>2
  <2>4. pc' = pc /\ op' = op /\ todo' = todo /\ alive' = alive
    BY <1>3, Zenon
  <2> QED
    BY <2>1, <2>3, <2>4 DEF Control
<1>14. /\ used'[s] = Cardinality(OutOf(s)') /\ slabFree'[s] = slabFree[s] \ X
       /\ \A r \in Slab \ {s} : used'[r] = used[r] /\ slabFree'[r] = slabFree[r]
  BY <1>2, <1>4, <1>11, Zenon DEF IInv, TypeOK, LeftBy
<1>15. Lists'
  <2>1. ActiveSlabs' = ActiveSlabs
    BY <1>3, Zenon DEF ActiveSlabs
  <2>2. s \notin retired
    BY <1>4 DEF IInv, Slabs, Lists
  <2> QED
    BY <1>3, <1>14, <2>1, <2>2, Zenon DEF IInv, TypeOK, Slabs, Lists
<1>16. FreeExact'
  <2>1. slabFree'[s] = ObjectsOf(s) \ OutOf(s)'
    BY <1>4, <1>7, <1>14, Zenon DEF IInv, Slabs, FreeExact
  <2>2. ASSUME NEW r \in mapped, r # s PROVE slabFree'[r] = ObjectsOf(r) \ OutOf(r)'
    BY <1>7, <1>14, <2>2, Zenon DEF IInv, TypeOK, Slabs, FreeExact
  <2> QED
    BY <1>3, <2>1, <2>2 DEF FreeExact
<1>17. SlabsOutlastObjects'
  BY <1>3, <1>4, <1>5, <1>6, Zenon DEF IInv, Slabs, SlabsOutlastObjects, ObjectsOf
<1>18. CountsExact'
  BY <1>3, <1>4, <1>7, <1>11, <1>14, Zenon DEF IInv, TypeOK, Slabs, CountsExact
<1> QED
  BY <1>6, <1>12, <1>13, <1>15, <1>16, <1>17, <1>18, Zenon DEF IInv, Slabs

-----------------------------------------------------------------------------
\* The active list without its i-th slab.
LEMMA Removed ==
  ASSUME NEW q \in Seq(Slab), NEW i \in 1..Len(q)
  PROVE  /\ Unlinked(q, i) \in Seq(Slab)
         /\ Len(Unlinked(q, i)) = Len(q) - 1
         /\ \A j \in 1..(Len(q) - 1) :
              Unlinked(q, i)[j] = IF j < i THEN q[j] ELSE q[j + 1]
<1> DEFINE a == SubSeq(q, 1, i - 1)
           b == SubSeq(q, i + 1, Len(q))
<1>1. a \in Seq(Slab) /\ Len(a) = i - 1 /\ \A j \in 1..(i - 1) : a[j] = q[j]
  OBVIOUS
<1>2. b \in Seq(Slab) /\ Len(b) = Len(q) - i
        /\ \A j \in 1..(Len(q) - i) : b[j] = q[i + j]
  OBVIOUS
<1> HIDE DEF a, b
<1>3. Len(q) \in Nat /\ i \in Nat
  OBVIOUS
<1>4. a \o b \in Seq(Slab) /\ Len(a \o b) = Len(a) + Len(b)
  <2>1. a \in Seq(Slab) /\ b \in Seq(Slab)
    BY <1>1, <1>2
  <2> QED
    BY <2>1
<1>5. Len(a \o b) = Len(q) - 1
  BY <1>1, <1>2, <1>3, <1>4
<1>6. ASSUME NEW j \in 1..(Len(q) - 1), j < i
      PROVE  (a \o b)[j] = q[j]
  BY <1>1, <1>2, <1>6
<1>7. ASSUME NEW j \in 1..(Len(q) - 1), ~(j < i)
      PROVE  (a \o b)[j] = q[j + 1]
  <2>1. j - (i - 1) \in 1..(Len(q) - i) /\ i + (j - (i - 1)) = j + 1
    BY <1>7
  <2>2. (a \o b)[j] = b[j - (i - 1)]
    BY <1>1, <1>2, <1>7
  <2> QED
    BY <1>2, <2>1, <2>2, Zenon
<1>8. Unlinked(q, i) = a \o b
  BY Zenon DEF Unlinked, a, b
<1> QED
  BY <1>4, <1>5, <1>6, <1>7, <1>8, Zenon

\* A slab put in front of a list.
LEMMA Prepended ==
  ASSUME NEW q \in Seq(Slab), NEW s \in Slab
  PROVE  /\ <<s>> \o q \in Seq(Slab) /\ Len(<<s>> \o q) = Len(q) + 1
         /\ \A i \in 1..(Len(q) + 1) : (<<s>> \o q)[i] = IF i = 1 THEN s ELSE q[i - 1]
OBVIOUS

\* tss_allocator_add_slab.  No object of a slab that is not mapped is out.
LEMMA AddSlabKeeps ==
  ASSUME IInv, NEW t \in Thread, AddSlab(t)
  PROVE  IInv'
<1>1. PICK s \in Slab \ mapped :
        /\ mapped' = mapped \cup {s}
        /\ used' = [used EXCEPT ![s] = 0]
        /\ slabFree' = [slabFree EXCEPT ![s] = ObjectsOf(s)]
        /\ retired' = retired \ {s}
        /\ active' = <<s>> \o active
  BY Zenon DEF AddSlab
<1>2. /\ activeCount' = (activeCount + 1) % SizeMod
      /\ todo' = [todo EXCEPT ![t] = @ - 1]
      /\ pc' = [pc EXCEPT ![t] = IF todo[t] > 1 THEN "add" ELSE "load"]
      /\ UNCHANGED <<lock, usedObjs, cacheVars, batch, held, op, at, alive, fault,
                     past>>
      /\ pc[t] = "add" /\ alive' = alive /\ usedObjs' = usedObjs
  BY DEF AddSlab, At
<1>3. alive
  BY <1>2 DEF IInv, Control
<1>4. Out' = Out /\ \A r : OutOf(r)' = OutOf(r)
  <2>1. Out' = Out
    BY <1>2 DEF Out, cacheVars
  <2> QED
    BY <2>1 DEF OutOf
<1>5. OutOf(s) = {} /\ s \notin ActiveSlabs /\ s \notin retired
  BY <1>1, <1>3, Zenon DEF IInv, Slabs, Lists, SlabsOutlastObjects, OutOf
<1>6. Cardinality(OutOf(s)') = 0
  BY <1>4, <1>5, FS_EmptySet, Zenon
<1>7. /\ active \in Seq(Slab) /\ Len(active) \in Nat
      /\ active' \in Seq(Slab) /\ Len(active') = Len(active) + 1
      /\ \A i \in 1..(Len(active) + 1) : active'[i] = IF i = 1 THEN s ELSE active[i - 1]
  BY <1>1, Prepended DEF IInv, TypeOK
<1>8. TypeOK'
  <2>1. activeCount' \in 0..(SizeMod - 1) /\ 0 \in 0..(SizeMod - 1)
    BY <1>2, Wrap DEF IInv, TypeOK
  <2>2. ObjectsOf(s) \in SUBSET Obj
    BY Zenon DEF ObjectsOf
  <2>3. used' \in [Slab -> 0..(SizeMod - 1)] /\ slabFree' \in [Slab -> SUBSET Obj]
    BY <1>1, <2>1, <2>2, Zenon DEF IInv, TypeOK
  <2>4. todo[t] - 1 \in Nat
    BY <1>2 DEF IInv, TypeOK, Control
  <2>5. todo' \in [Thread -> Nat]
    BY <1>2, <2>4, Zenon DEF IInv, TypeOK
  <2> QED
    BY <1>1, <1>2, <1>7, <2>1, <2>3, <2>5, Zenon DEF IInv, TypeOK, cacheVars
<1>9. Control'
  <2>1. todo'[t] = todo[t] - 1 /\ todo[t] \in Nat
    BY <1>2, Zenon DEF IInv, TypeOK
  <2> QED
    BY <1>2, <1>3, <2>1 DEF IInv, TypeOK, Control
<1>10. Apart'
  BY <1>2 DEF IInv, Apart, cacheVars
<1>11. /\ used'[s] = 0 /\ slabFree'[s] = ObjectsOf(s)
       /\ \A r \in Slab \ {s} : used'[r] = used[r] /\ slabFree'[r] = slabFree[r]
  BY <1>1 DEF IInv, TypeOK
<1>12. ActiveSlabs' = ActiveSlabs \cup {s}
  <2>1. ASSUME NEW i \in 1..Len(active') PROVE active'[i] \in ActiveSlabs \cup {s}
    <3>1. CASE i = 1
      BY <1>7, <3>1
    <3>2. CASE i # 1
      <4>1. i - 1 \in 1..Len(active) /\ active'[i] = active[i - 1]
        BY <1>7, <3>2
      <4> QED
        BY <4>1 DEF ActiveSlabs
    <3> QED
      BY <3>1, <3>2
  <2>2. s \in ActiveSlabs'
    <3>1. 1 \in 1..Len(active') /\ active'[1] = s
      BY <1>7
    <3> QED
      BY <3>1 DEF ActiveSlabs
  <2>3. ASSUME NEW i \in 1..Len(active) PROVE active[i] \in ActiveSlabs'
    <3>1. i + 1 \in 1..Len(active') /\ active'[i + 1] = active[i]
      BY <1>7
    <3> QED
      BY <3>1 DEF ActiveSlabs
  <2> QED
    BY <2>1, <2>2, <2>3 DEF ActiveSlabs
<1>13. Lists'
  <2>1. ASSUME NEW i \in 1..Len(active'), NEW j \in 1..Len(active'),
               active'[i] = active'[j]
        PROVE  i = j
    <3>1. \A k \in 1..Len(active') : k # 1 =>
            /\ k - 1 \in 1..Len(active) /\ active'[k] = active[k - 1]
            /\ active[k - 1] # s
      BY <1>5, <1>7 DEF ActiveSlabs
    <3>2. active'[1] = s
      BY <1>7
    <3>3. CASE i # 1 /\ j # 1
      <4>1. i - 1 = j - 1
        BY <2>1, <3>1, <3>3 DEF IInv, Slabs, Lists
      <4> QED
        BY <4>1
    <3> QED
      BY <2>1, <3>1, <3>2, <3>3, Zenon
  <2>2. \A r \in retired' : used'[r] > 0
    BY <1>1, <1>11, Zenon DEF IInv, TypeOK, Slabs, Lists
  <2> QED
    BY <1>1, <1>5, <1>12, <2>1, <2>2 DEF IInv, Slabs, Lists
<1>14. FreeExact'
  BY <1>1, <1>4, <1>5, <1>11, Zenon DEF IInv, TypeOK, Slabs, FreeExact
<1>15. SlabsOutlastObjects'
  BY <1>1, <1>2, <1>4 DEF IInv, Slabs, SlabsOutlastObjects
<1>16. CountsExact'
  BY <1>1, <1>2, <1>4, <1>6, <1>11 DEF IInv, TypeOK, Slabs, CountsExact
<1> QED
  BY <1>8, <1>9, <1>10, <1>13, <1>14, <1>15, <1>16 DEF IInv, Slabs

\* One turn of tss_allocator_retire_slabs.  A slab that is unmapped has no
\* object out, and one that is retired has.
LEMMA RetireSlabKeeps ==
  ASSUME IInv, NEW t \in Thread, RetireSlab(t)
  PROVE  IInv'
<1>1. PICK s \in Slab : s = active[at[t]] /\ at[t] \in 1..Len(active)
  <2>1. at[t] \in 1..Len(active)
    BY DEF RetireSlab, IInv, TypeOK
  <2> QED
    BY <2>1 DEF IInv, TypeOK
<1>2. /\ UNCHANGED <<lock, usedObjs, used, cacheVars, batch, held, pc, op, todo,
                     alive, fault>>
      /\ used' = used /\ usedObjs' = usedObjs /\ alive' = alive
      /\ pc[t] = "retire"
  BY Zenon DEF RetireSlab, At
<1>3. alive /\ s \in ActiveSlabs /\ s \in mapped /\ s \notin retired
  <2>1. Lists /\ Control
    BY Zenon DEF IInv, Slabs
  <2>2. s \in ActiveSlabs
    BY <1>1, Zenon DEF ActiveSlabs
  <2>3. alive
    BY <1>2, <2>1 DEF Control
  <2> QED
    BY <2>1, <2>2, <2>3, Zenon DEF Lists
<1>4. Control'
  BY <1>2 DEF IInv, Control
<1>5. Apart'
  BY <1>2, Zenon DEF IInv, Apart, cacheVars
<1>6. CASE /\ used[s] > RetireThreshold
           /\ at' = [at EXCEPT ![t] = NextSlab(@)]
           /\ UNCHANGED <<active, activeCount, mapped, slabFree, retired, past>>
  <2>1. at' \in [Thread -> Nat \ {0}]
    BY <1>6 DEF IInv, TypeOK, NextSlab
  <2>2. TypeOK'
    BY <1>2, <1>6, <2>1, Zenon DEF IInv, TypeOK, cacheVars
  <2>3. Slabs'
    BY <1>2, <1>6, Still DEF allocVars, slabVars, cacheVars
  <2> QED
    BY <1>4, <1>5, <2>2, <2>3 DEF IInv
<1>7. CASE /\ RetireEmpty(s) \/ RetireThin(s)
           /\ active' = Unlinked(active, at[t])
           /\ past' = past \cup {"retired"}
           /\ at' = at
  <2>1. PICK k \in 1..Len(active) : k = at[t]
    BY <1>1
  <2>2. /\ active \in Seq(Slab) /\ Len(active) \in Nat /\ active[k] = s
        /\ active' \in Seq(Slab) /\ Len(active') = Len(active) - 1
        /\ \A j \in 1..(Len(active) - 1) :
             active'[j] = IF j < k THEN active[j] ELSE active[j + 1]
    <3>1. active \in Seq(Slab) /\ active' = Unlinked(active, k) /\ active[k] = s
      BY <1>1, <1>7, <2>1 DEF IInv, TypeOK
    <3>2. Len(active) \in Nat
      BY <3>1
    <3> QED
      BY <3>1, <3>2, Removed, Zenon
  <2>3. ActiveSlabs' = ActiveSlabs \ {s}
    <3>1. ASSUME NEW j \in 1..Len(active') PROVE active'[j] \in ActiveSlabs \ {s}
      <4>1. CASE j < k
        <5>1. j \in 1..Len(active) /\ active'[j] = active[j] /\ j # k
          BY <2>2, <4>1
        <5> QED
          BY <2>2, <5>1 DEF ActiveSlabs, IInv, Slabs, Lists
      <4>2. CASE ~(j < k)
        <5>1. j + 1 \in 1..Len(active) /\ active'[j] = active[j + 1] /\ j + 1 # k
          BY <2>2, <4>2
        <5> QED
          BY <2>2, <5>1, Zenon DEF ActiveSlabs, IInv, Slabs, Lists
      <4> QED
        BY <4>1, <4>2
    <3>2. ASSUME NEW j \in 1..Len(active), active[j] # s
          PROVE  active[j] \in ActiveSlabs'
      <4>1. CASE j < k
        <5>1. j \in 1..Len(active') /\ active'[j] = active[j]
          BY <2>2, <4>1
        <5> QED
          BY <5>1 DEF ActiveSlabs
      <4>2. CASE j > k
        <5>1. j - 1 \in 1..Len(active') /\ j - 1 + 1 = j /\ ~(j - 1 < k)
          BY <2>2, <4>2
        <5>2. active'[j - 1] = active[j]
          BY <2>2, <5>1
        <5> QED
          BY <5>1, <5>2 DEF ActiveSlabs
      <4>3. j # k
        BY <2>2, <3>2
      <4> QED
        BY <4>1, <4>2, <4>3
    <3> QED
      BY <3>1, <3>2, Zenon DEF ActiveSlabs
  <2>4. \A i, j \in 1..Len(active') : active'[i] = active'[j] => i = j
    <3>1. ASSUME NEW j \in 1..Len(active')
          PROVE  LET n == IF j < k THEN j ELSE j + 1
                 IN  n \in 1..Len(active) /\ active'[j] = active[n]
      BY <2>2
    <3>2. ASSUME NEW i \in 1..Len(active'), NEW j \in 1..Len(active'),
                 active'[i] = active'[j]
          PROVE  (IF i < k THEN i ELSE i + 1) = (IF j < k THEN j ELSE j + 1)
      BY <3>1, <3>2, Zenon DEF IInv, Slabs, Lists
    <3> QED
      BY <3>2
  <2>5. Out' = Out /\ \A r : OutOf(r)' = OutOf(r)
    <3>1. Out' = Out
      BY <1>2 DEF Out, cacheVars
    <3> QED
      BY <3>1 DEF OutOf
  <2>6. CASE RetireEmpty(s)
    <3>1. /\ used[s] = 0 /\ mapped' = mapped \ {s} /\ retired' = retired
          /\ slabFree' = [slabFree EXCEPT ![s] = {}] /\ activeCount' = activeCount
      BY <2>6, Zenon DEF RetireEmpty
    <3>2. OutOf(s) = {}
      <4>1. used[s] = Cardinality(OutOf(s)) /\ OutOf(s) \in SUBSET Obj
        BY <1>3, OutObjects, Zenon DEF IInv, Slabs, CountsExact, OutOf
      <4> QED
        BY <3>1, <4>1, Countable
    <3>3. TypeOK'
      <4>1. /\ slabFree' \in [Slab -> SUBSET Obj] /\ mapped' \subseteq Slab
            /\ past' \subseteq {"retired", "refreshed"}
        BY <1>7, <3>1, Zenon DEF IInv, TypeOK
      <4>2. activeCount' = activeCount /\ retired' = retired /\ at' = at
        BY <1>7, <3>1, Zenon
      <4> QED
        BY <1>2, <2>2, <4>1, <4>2, Zenon DEF IInv, TypeOK, cacheVars
    <3>4. Lists'
      BY <1>2, <1>3, <2>3, <2>4, <3>1 DEF IInv, Slabs, Lists
    <3>5. FreeExact'
      BY <2>5, <3>1, Zenon DEF IInv, TypeOK, Slabs, FreeExact
    <3>6. SlabsOutlastObjects'
      BY <1>2, <2>5, <3>1, <3>2 DEF IInv, Slabs, SlabsOutlastObjects, OutOf
    <3>7. CountsExact'
      BY <1>2, <2>5, <3>1 DEF IInv, Slabs, CountsExact
    <3> QED
      BY <1>4, <1>5, <3>3, <3>4, <3>5, <3>6, <3>7, Zenon DEF IInv, Slabs
  <2>7. CASE RetireThin(s)
    <3>1. /\ used[s] > 0 /\ retired' = retired \cup {s}
          /\ activeCount' = (activeCount - 1) % SizeMod
          /\ mapped' = mapped /\ slabFree' = slabFree
      BY <2>7, Zenon DEF RetireThin
    <3>2. activeCount' \in 0..(SizeMod - 1)
      BY <3>1, Wrap DEF IInv, TypeOK
    <3>3. TypeOK'
      BY <1>2, <1>7, <2>2, <3>1, <3>2, Zenon DEF IInv, TypeOK, cacheVars
    <3>4. Lists'
      BY <1>2, <1>3, <2>3, <2>4, <3>1, Zenon DEF IInv, Slabs, Lists
    <3>5. FreeExact' /\ SlabsOutlastObjects' /\ CountsExact'
      BY <1>2, <2>5, <3>1
        DEF IInv, Slabs, FreeExact, SlabsOutlastObjects, CountsExact
    <3> QED
      BY <1>4, <1>5, <3>3, <3>4, <3>5, Zenon DEF IInv, Slabs
  <2> QED
    BY <1>7, <2>6, <2>7
<1> QED
  BY <1>1, <1>6, <1>7, Zenon DEF RetireSlab

\* jfs_tss_allocator_destroy unmaps the active slabs, and only those.
LEMMA DestroyKeeps ==
  ASSUME IInv, Destroy
  PROVE  IInv'
<1>1. /\ mapped' = mapped \ ActiveSlabs
      /\ slabFree' = [s \in Slab |-> IF s \in ActiveSlabs THEN {} ELSE slabFree[s]]
      /\ active' = <<>> /\ alive' = FALSE
      /\ UNCHANGED <<lock, activeCount, usedObjs, used, retired, cacheVars, batch,
                     held, threadVars, fault, past>>
      /\ retired' = retired /\ used' = used
      /\ \A t \in Thread : pc[t] = "idle"
  BY Zenon DEF Destroy
<1>2. Out' = Out /\ \A r : OutOf(r)' = OutOf(r)
  <2>1. Out' = Out
    BY <1>1 DEF Out, cacheVars
  <2> QED
    BY <2>1 DEF OutOf
<1>3. active' \in Seq(Slab) /\ Len(active') = 0 /\ ActiveSlabs' = {}
  BY <1>1 DEF ActiveSlabs
<1>4. TypeOK'
  <2>1. slabFree' \in [Slab -> SUBSET Obj] /\ mapped' \subseteq Slab
    BY <1>1, Zenon DEF IInv, TypeOK
  <2> QED
    BY <1>1, <1>3, <2>1, Zenon DEF IInv, TypeOK, cacheVars, threadVars
<1>5. Control' /\ Apart'
  BY <1>1, Zenon DEF IInv, Control, Apart, cacheVars, threadVars
<1>6. Lists'
  BY <1>1, <1>3 DEF IInv, Slabs, Lists
<1>7. FreeExact'
  BY <1>1, <1>2, Zenon DEF IInv, TypeOK, Slabs, FreeExact
<1>8. SlabsOutlastObjects' /\ CountsExact'
  BY <1>1, Zenon DEF SlabsOutlastObjects, CountsExact
<1> QED
  BY <1>4, <1>5, <1>6, <1>7, <1>8, Zenon DEF IInv, Slabs

-----------------------------------------------------------------------------
\* It holds of an allocator that was just initialised.
LEMMA InitHolds == Init => IInv
<1> SUFFICES ASSUME Init PROVE IInv
  OBVIOUS
<1>1. 0 \in 0..(SizeMod - 1)
  BY Wrap
<1>2. TypeOK
  BY <1>1 DEF Init, TypeOK, Faults
<1>3. Control /\ Apart
  BY DEF Init, Control, Apart
<1>4. Out = {}
  BY DEF Init, Out
<1>5. Lists
  BY DEF Init, Lists, ActiveSlabs
<1>6. FreeExact /\ SlabsOutlastObjects
  BY <1>4 DEF Init, FreeExact, SlabsOutlastObjects
<1>7. CountsExact
  BY <1>4, FS_EmptySet DEF Init, CountsExact
<1> QED
  BY <1>2, <1>3, <1>5, <1>6, <1>7 DEF IInv, Slabs

\* Every step keeps it.
LEMMA StepKeeps == IInv /\ [Next]_vars => IInv'
<1> SUFFICES ASSUME IInv, [Next]_vars PROVE IInv'
  OBVIOUS
<1>1. ASSUME UNCHANGED vars PROVE IInv'
  <2>1. UNCHANGED <<allocVars, slabVars, cacheVars, batch, held, alive>>
    BY <1>1 DEF vars
  <2>2. Apart' /\ Slabs'
    BY <2>1, Still, Zenon DEF cacheVars
  <2>3. TypeOK'
    BY <1>1, Zenon DEF IInv, TypeOK, vars, allocVars, slabVars, cacheVars, threadVars
  <2>4. Control'
    BY <1>1, Zenon DEF IInv, Control, vars, threadVars
  <2> QED
    BY <2>2, <2>3, <2>4 DEF IInv
<1>2. ASSUME NEW t \in Thread, Call(t) PROVE IInv'
  BY <1>2, AllocFastKeeps, WantLockKeeps, FreeFastKeeps, FreeSlowKeeps,
     RefreshKeeps, FullReleaseKeeps, Zenon DEF Call
<1>3. ASSUME NEW t \in Thread, HolderStep(t) PROVE IInv'
  BY <1>3, ReleaseObjKeeps, LoopEndKeeps, AcquireKeeps, AddSlabKeeps,
     LoadSlabKeeps, LoadEndKeeps, RetireSlabKeeps, UnlockKeeps, Zenon DEF HolderStep
<1> QED
  BY <1>1, <1>2, <1>3, LockKeeps, DestroyKeeps DEF Next, Halted

\* The inductive invariant of the allocator.
THEOREM Inductive == Spec => []IInv
BY InitHolds, StepKeeps, PTL DEF Spec

\* Types of the allocator, the slabs, the caches and the threads: the counters
\* stay within a size_t, and no free_list_count becomes negative.
THEOREM Types == Spec => []TypeOK
<1>1. IInv => TypeOK
  BY Zenon DEF IInv
<1> QED
  BY Inductive, <1>1, PTL

\* No object of a mapped slab is lost or in two places, whatever the threads do
\* and however large caches and slabs are.
THEOREM OnePlace == Spec => []ObjectsInOnePlace
<1>1. IInv => ObjectsInOnePlace
  BY Zenon DEF IInv, Apart, Slabs, FreeExact, ObjectsInOnePlace
<1> QED
  BY Inductive, <1>1, PTL

\* No slab is unmapped while one of its objects is out.
THEOREM NoUseAfterUnmap == Spec => []SlabsOutlastObjects
<1>1. IInv => SlabsOutlastObjects
  BY DEF IInv, Slabs
<1> QED
  BY Inductive, <1>1, PTL

\* used_count and used_obj_count are exact, and never wrap around.
THEOREM ExactCounts == Spec => []CountsExact
<1>1. IInv => CountsExact
  BY DEF IInv, Slabs
<1> QED
  BY Inductive, <1>1, PTL

\* A mapped slab is in the active list, or retired with objects out.
THEOREM NoSlabLost == Spec => []SlabsAccountedFor
<1>1. IInv => SlabsAccountedFor
  BY DEF IInv, Slabs, Lists, SlabsAccountedFor
<1> QED
  BY Inductive, <1>1, PTL

\* A cache's count is the length of its list, and below its capacity, until a
\* cache is refreshed.
THEOREM CachesCounted == Spec => []CacheCountExact
<1>1. Cached => CacheCountExact
  BY DEF Cached, Keeps, Counted, CacheCountExact
<1> QED
  BY Inductive, InitCached, CachedStep, <1>1, PTL DEF Spec

\* Until a slab is retired or a cache refreshed no assert fails: among others a
\* jfs_tss_alloc that has the mutex finds the objects that it needs.
THEOREM AssertsNeverFail == Spec => []AssertsHold
<1>1. AInv => AssertsHold
  BY DEF AInv, Supplied, AssertsHold
<1>2. Spec => []Cached
  BY Inductive, InitCached, CachedStep, PTL DEF Spec
<1> QED
  BY Inductive, InitSupplied, SuppliedStep, <1>1, <1>2, PTL DEF Spec

=============================================================================
