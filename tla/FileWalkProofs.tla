--------------------------- MODULE FileWalkProofs ---------------------------
(***************************************************************************)
(* Proofs about FileWalk for every file system, every capacity and every   *)
(* choice of failing calls.                                                *)
(***************************************************************************)
EXTENDS FileWalk, TLAPS

\* The provers of a leaf that names none, in this order.
USE SMTT(20), Z3T(20), ZenonT(20)

(* The inductive invariant. *)

Mid == pc \in {"opendir", "scan", "push"}

\* No step has failed for good: a failed step may leave paths in path_vec
\* whose parent is not in dir_vec.
Clean ==
  \/ pc = "step" \/ Mid
  \/ pc \in {"ret", "record"} /\ err \in {"OK", "FW_SKIP"}

Listed(x, dv) == \E j \in 1..Len(dv) : x \in Elems(dv[j].files)

\* The paths the running fw_push_dir_paths has pushed so far.
Pushed == {fileVec[j] : j \in 1..(idx - 1)}

\* Which locals are in use, and what the error and the value of a step say.
Control ==
  /\ Mid => cur \in Node /\ fileCap >= 1
  /\ ~Mid => cur = None
  /\ pc \notin {"scan", "push"} => fileVec = <<>>
  /\ pc # "push" => idx = 1
  /\ idx <= Len(fileVec) + 1
  /\ pc \in {"start", "create", "step", "report"} \/ Mid => err = "OK"
  /\ pc \in {"start", "create"} => pathVec = <<>> /\ dirVec = <<>>
  /\ pc = "step" \/ Mid \/ pc \in {"ret", "record"} =>
       pathCap >= 1 /\ dirCap >= 1
  /\ pc = "ret" /\ err # "OK" => ret = (pathVec = <<>>)
  /\ pc = "record" /\ err # "OK" => pathVec # <<>>

\* A listing holds entries of its directory, each once.
Listings ==
  /\ unread \subseteq Children(cur)
  /\ Elems(fileVec) \subseteq Children(cur)
  /\ Elems(fileVec) \cap unread = {}
  /\ \A i, j \in 1..Len(fileVec) : fileVec[i] = fileVec[j] => i = j
  /\ \A i \in 1..Len(dirVec) :
       Elems(dirVec[i].files) \subseteq Children(dirVec[i].path)

\* dir_vec is a tree, and every known path hangs on it.
Tree(dv) ==
  /\ \A i, j \in 1..Len(dv) : dv[i].path = dv[j].path => i = j
  /\ dv # <<>> => dv[1].path = Root
  /\ \A i \in 2..Len(dv) : \E j \in 1..(i-1) : dv[i].path \in Elems(dv[j].files)

Hanging ==
  Clean => /\ \A x \in Elems(pathVec) :
                x = Root \/ Listed(x, dirVec) \/ x \in Pushed
           /\ Mid => cur = Root \/ Listed(cur, dirVec)

\* Every listed subdirectory has been found or reported.
Closed ==
  Clean => /\ \A i \in 1..Len(dirVec) : \A c \in Elems(dirVec[i].files) :
                Walked(c) => c \in Elems(pathVec) \cup Recorded(dirVec)
                                     \cup {cur} \cup skipped
           /\ \A j \in 1..(idx - 1) :
                Walked(fileVec[j]) => fileVec[j] \in Elems(pathVec)

IInv ==
  /\ TypeOK /\ Control /\ Listings /\ SingleOwner /\ VectorsInBounds
  /\ Tree(dirVec) /\ Hanging /\ Closed
  /\ RecordClosed /\ RecordIsTree

-----------------------------------------------------------------------------
(* Lemmas about the vectors. *)

\* fw_path_vector_push and fw_file_vector_push add one element at the end.
LEMMA ElemsAppend ==
  ASSUME NEW S, NEW s \in Seq(S), NEW x
  PROVE  Elems(Append(s, x)) = Elems(s) \cup {x}
  BY DEF Elems

\* fw_path_vector_pop takes the last element and leaves the others.
LEMMA ElemsPop ==
  ASSUME NEW S, NEW s \in Seq(S), s # <<>>
  PROVE  /\ s[Len(s)] \in S
         /\ SubSeq(s, 1, Len(s) - 1) \in Seq(S)
         /\ Len(SubSeq(s, 1, Len(s) - 1)) = Len(s) - 1
         /\ \A i \in 1..(Len(s) - 1) : SubSeq(s, 1, Len(s) - 1)[i] = s[i]
         /\ Elems(s) = Elems(SubSeq(s, 1, Len(s) - 1)) \cup {s[Len(s)]}
  <1> DEFINE t == SubSeq(s, 1, Len(s) - 1)
  <1>1. Len(s) \in Nat /\ Len(s) >= 1
    OBVIOUS
  <1>2. s[Len(s)] \in S
    BY <1>1
  <1>3. t \in Seq(S) /\ Len(t) = Len(s) - 1
    <2>1. Len(s) - 1 \in Int /\ \A i \in 1..(Len(s) - 1) : s[i] \in S
      BY <1>1
    <2>2. /\ t \in Seq(S)
          /\ Len(t) = IF 1 <= Len(s) - 1 THEN (Len(s) - 1) - 1 + 1 ELSE 0
      BY <2>1
    <2>3. \A n \in Nat : n >= 1 =>
            (IF 1 <= n - 1 THEN (n - 1) - 1 + 1 ELSE 0) = n - 1
      OBVIOUS
    <2> HIDE DEF t
    <2> QED  BY <1>1, <2>2, <2>3, Zenon
  <1>4. \A i \in 1..(Len(s) - 1) : t[i] = s[i]
    BY <1>1
  <1> HIDE DEF t
  <1>5. 1..Len(s) = (1..Len(t)) \cup {Len(s)}
    BY <1>1, <1>3
  <1>6. \A i \in 1..Len(t) : t[i] = s[i]
    BY <1>3, <1>4
  <1>7. Elems(s) = Elems(t) \cup {s[Len(s)]}
    BY <1>5, <1>6 DEF Elems
  <1> QED  BY <1>2, <1>3, <1>4, <1>7 DEF t

\* Pushing an element a vector does not hold keeps its elements distinct.
LEMMA DistinctAppend ==
  ASSUME NEW S, NEW s \in Seq(S), NEW x, x \notin Elems(s),
         \A i, j \in 1..Len(s) : s[i] = s[j] => i = j
  PROVE  \A i, j \in 1..Len(Append(s, x)) :
           Append(s, x)[i] = Append(s, x)[j] => i = j
  <1>1. \A k \in 1..Len(s) : s[k] # x /\ Append(s, x)[k] = s[k]
    BY DEF Elems
  <1>2. Len(Append(s, x)) = Len(s) + 1 /\ Append(s, x)[Len(s) + 1] = x
    OBVIOUS
  <1>3. Len(s) \in Nat
    OBVIOUS
  <1> TAKE i, j \in 1..Len(Append(s, x))
  <1>4. i \in 1..Len(s) \/ i = Len(s) + 1
    BY <1>2, <1>3
  <1>5. j \in 1..Len(s) \/ j = Len(s) + 1
    BY <1>2, <1>3
  <1> HIDE <1>3
  <1> QED  BY <1>1, <1>2, <1>4, <1>5

\* fw_dir_vector_push records one more path.
LEMMA RecordedAppend ==
  ASSUME NEW dv \in Seq(DirRecord), NEW r
  PROVE  Recorded(Append(dv, r)) = Recorded(dv) \cup {r.path}
  BY DEF Recorded

\* A path an array holds is a node, a recorded path too.
LEMMA ElemsType ==
  ASSUME NEW S, NEW s \in Seq(S)
  PROVE  /\ Elems(s) \subseteq S
         /\ (Elems(s) = {}) = (s = <<>>)
  BY DEF Elems

LEMMA ElemsEmpty == Elems(<<>>) = {} /\ Len(<<>>) = 0
  BY DEF Elems

\* An empty vector has no element and no index.
LEMMA EmptyVector ==
  /\ Elems(<<>>) = {} /\ Recorded(<<>>) = {} /\ Len(<<>>) = 0
  /\ \A i : i \notin 1..Len(<<>>) /\ i \notin 2..Len(<<>>)
  <1>1. Len(<<>>) = 0
    OBVIOUS
  <1>2. \A i : i \notin 1..Len(<<>>) /\ i \notin 2..Len(<<>>)
    BY <1>1
  <1> QED  BY <1>1, <1>2 DEF Elems, Recorded

LEMMA RecordedType ==
  ASSUME NEW dv \in Seq(DirRecord)
  PROVE  Recorded(dv) \subseteq Node
  <1>1. \A i \in 1..Len(dv) : dv[i] \in DirRecord
    OBVIOUS
  <1> QED  BY <1>1 DEF Recorded, DirRecord

\* *_vector_push has room for one more element.
LEMMA GrownRoom ==
  ASSUME NEW vec, NEW cap, Len(vec) \in Nat, cap \in Nat, cap >= 1, Len(vec) <= cap
  PROVE  /\ Grown(vec, cap) \in Nat /\ Grown(vec, cap) >= 1
         /\ Len(vec) + 1 <= Grown(vec, cap)
  BY DEF Grown

\* A step that leaves the record alone leaves it closed and a tree.
LEMMA RecordKept ==
  ASSUME IInv, record' = record, skipped \subseteq skipped'
  PROVE  RecordClosed' /\ RecordIsTree'
  <1>1. RecordClosed'
    BY DEF IInv, RecordClosed
  <1>2. RecordIsTree'
    BY DEF IInv, RecordIsTree
  <1> QED  BY <1>1, <1>2

-----------------------------------------------------------------------------
(* Every action preserves the inductive invariant. *)

LEMMA InitIInv == Init => IInv
  <1> SUFFICES ASSUME Init PROVE IInv
    OBVIOUS
  <1> USE NodeAssumption, BoundAssumption DEF Init
  <1>1. TypeOK
    <2>1. fs \in [Node -> {"absent", "present", "removed"}]
      OBVIOUS
    <2>2. pathVec \in Seq(Node) /\ dirVec \in Seq(DirRecord)
            /\ fileVec \in Seq(Node \ {Root}) /\ record \in Seq(DirRecord)
      OBVIOUS
    <2>3. denied \subseteq Deniable /\ unread \subseteq Node \ {Root}
            /\ skipped \subseteq Node /\ churn \in 0..MaxChurn
      OBVIOUS
    <2>4. pathCap \in Nat /\ dirCap \in Nat /\ fileCap \in Nat /\ idx \in Nat \ {0}
      OBVIOUS
    <2>5. /\ ret \in BOOLEAN /\ errno \in BOOLEAN /\ startPath \in BOOLEAN
          /\ cur \in Node \cup {None}
      BY Zenon
    <2> QED  BY <2>1, <2>2, <2>3, <2>4, <2>5, Zenon DEF TypeOK, Errors, Init
  <1>2. Control
    BY DEF Control, Mid
  <1>3. Listings /\ SingleOwner /\ VectorsInBounds
    BY DEF Listings, SingleOwner, VectorsInBounds, Elems, Recorded
  <1>4. Tree(dirVec) /\ Hanging /\ Closed
    BY DEF Tree, Hanging, Closed, Clean, Mid
  <1>5. RecordClosed /\ RecordIsTree
    BY DEF RecordClosed, RecordIsTree
  <1> QED  BY <1>1, <1>2, <1>3, <1>4, <1>5 DEF IInv

LEMMA StateCreateIInv == IInv /\ StateCreate => IInv'
  <1> SUFFICES ASSUME IInv, StateCreate PROVE IInv'
    OBVIOUS
  <1> USE NodeAssumption, BoundAssumption
  <1>1. /\ UNCHANGED <<fsVars, ret, dirVec, stepVars, record, skipped>>
        /\ pc = "create" /\ pc' \in {"step", "done", "crashed"}
        /\ err' \in {err, "SYS"} /\ (pc' = "step" => err' = err)
        /\ \/ /\ pathVec' = <<Root>>
              /\ pathCap' = DefaultCapacity /\ dirCap' = DefaultCapacity
           \/ /\ pc' # "step"
              /\ UNCHANGED <<pathVec, pathCap, dirCap>>
    BY Zenon DEF StateCreate
  <1>2. /\ dirVec = <<>> /\ pathVec = <<>> /\ cur = None /\ fileVec = <<>>
        /\ idx = 1 /\ err = "OK"
    BY <1>1 DEF IInv, Control, Mid
  <1>3. /\ pathVec' \in Seq(Node) /\ Elems(pathVec') \subseteq {Root}
        /\ Len(pathVec') \in {0, 1} /\ pathCap' \in Nat /\ dirCap' \in Nat
        /\ Len(pathVec') <= pathCap'
    <2>1. CASE pathVec' = <<Root>>
      BY <1>1, <1>2, <2>1 DEF Elems
    <2>2. CASE UNCHANGED <<pathVec, pathCap, dirCap>>
      BY <1>2, <2>2 DEF Elems, IInv, TypeOK, VectorsInBounds
    <2> QED  BY <1>1, <2>1, <2>2
  <1>4. TypeOK'
    <2>1. startPath \in BOOLEAN
      BY Zenon DEF IInv, TypeOK
    <2>2. startPath' \in BOOLEAN
      BY <2>1, Zenon DEF StateCreate
    <2> QED  BY <1>1, <1>3, <2>2 DEF IInv, TypeOK, fsVars, stepVars, Errors
  <1>5. Control'
    BY <1>1, <1>2 DEF IInv, Control, Mid, stepVars
  <1>6. Listings' /\ Tree(dirVec)'
    BY <1>1, <1>2 DEF IInv, Listings, Tree, stepVars
  <1>7. SingleOwner' /\ Hanging'
    <2>1. Recorded(dirVec') = {}
      BY <1>1, <1>2 DEF Recorded
    <2> QED  BY <1>1, <1>2, <1>3, <2>1 DEF SingleOwner, Hanging, Mid, stepVars
  <1>8. Closed' /\ VectorsInBounds'
    BY <1>1, <1>2, <1>3 DEF IInv, TypeOK, Closed, VectorsInBounds, stepVars
  <1>9. RecordClosed' /\ RecordIsTree'
    BY <1>1, RecordKept
  <1> QED  BY <1>4, <1>5, <1>6, <1>7, <1>8, <1>9 DEF IInv

\* The actions that touch neither the vectors nor the locals of a step: what
\* is left to show is that the control moves between states that agree.
LEMMA QuietIInv ==
  ASSUME IInv,
         UNCHANGED <<pathVec, dirVec, dirCap, pathCap, fileVec, fileCap, cur,
                     idx, record, skipped>>,
         TypeOK', Control', unread' \subseteq Children(cur),
         Elems(fileVec) \cap unread' = {},
         Clean' => Clean, Mid' => Mid
  PROVE  IInv'
  <1>1. Listings' /\ SingleOwner' /\ VectorsInBounds'
    <2>1. Listings'
      BY Zenon DEF IInv, Listings
    <2>2. SingleOwner' /\ VectorsInBounds'
      BY Zenon DEF IInv, SingleOwner, VectorsInBounds
    <2> QED  BY <2>1, <2>2
  <1>2. Tree(dirVec)' /\ RecordClosed' /\ RecordIsTree'
    BY DEF IInv, Tree, RecordClosed, RecordIsTree
  <1>3. Hanging' /\ Closed'
    BY DEF IInv, Hanging, Closed, Listed, Pushed
  <1> QED  BY <1>1, <1>2, <1>3 DEF IInv

LEMMA OthersIInv == IInv /\ (Others \/ UNCHANGED vars) => IInv'
  <1> SUFFICES ASSUME IInv, Others \/ UNCHANGED vars PROVE IInv'
    OBVIOUS
  <1>1. /\ UNCHANGED <<pc, err, ret, pathVec, pathCap, dirVec, dirCap, stepVars,
                       heap, record, skipped, startPath>>
        /\ fs' \in [Node -> {"absent", "present", "removed"}]
        /\ denied' \subseteq Deniable /\ churn' \in 0..MaxChurn
    <2> USE BoundAssumption DEF IInv, TypeOK
    <2>1. CASE \E n \in Node : Create(n) \/ Remove(n)
      <3>1. PICK n \in Node, v \in {"present", "removed"} :
              /\ fs' = [fs EXCEPT ![n] = v] /\ churn < MaxChurn /\ churn' = churn + 1
              /\ UNCHANGED <<denied, pc, err, ret, vecVars, stepVars, heap, record,
                             skipped, startPath>>
        BY <2>1, Zenon DEF Create, Remove
      <3>2. fs' \in [Node -> {"absent", "present", "removed"}]
        BY <3>1
      <3>3. churn' \in 0..MaxChurn
        BY <3>1
      <3> QED  BY <3>1, <3>2, <3>3 DEF vecVars
    <2>2. CASE \E d \in Deniable : Chmod(d)
      BY <2>2 DEF Chmod, stepVars, vecVars
    <2>3. CASE UNCHANGED vars
      BY <2>3 DEF vars, fsVars, stepVars, vecVars
    <2> QED  BY <2>1, <2>2, <2>3 DEF Others
  <1>2. TypeOK'
    BY <1>1 DEF IInv, TypeOK, stepVars
  <1>3. Control' /\ (Clean' => Clean) /\ (Mid' => Mid)
    BY <1>1 DEF IInv, Control, Clean, Mid, stepVars
  <1> QED  BY <1>1, <1>2, <1>3, QuietIInv, Zenon DEF IInv, Listings, stepVars

LEMMA PathInitIInv == IInv /\ PathInit => IInv'
  <1> SUFFICES ASSUME IInv, PathInit PROVE IInv'
    OBVIOUS
  <1>1. /\ pc = "start" /\ pc' \in {"create", "done"}
        /\ err' \in {err, "SYS"} /\ (pc' = "create" => err' = err)
        /\ UNCHANGED <<fsVars, ret, vecVars, stepVars, heap, record, skipped>>
    BY Zenon DEF PathInit
  <1>2. UNCHANGED <<fs, denied, churn, ret, pathVec, pathCap, dirVec, dirCap, cur,
                    unread, errno, fileVec, fileCap, idx, record, skipped>>
    BY <1>1, Zenon DEF fsVars, vecVars, stepVars
  <1>3. TypeOK'
    <2>1. TypeOK
      BY Zenon DEF IInv
    <2>2. startPath' \in BOOLEAN
      BY <2>1, Zenon DEF PathInit, TypeOK
    <2>3. pc' \in {"create", "done"} /\ err' \in Errors
      BY <1>1, <2>1 DEF TypeOK, Errors
    <2> QED  BY <1>2, <2>1, <2>2, <2>3 DEF TypeOK
  <1>4. Control' /\ ~Clean' /\ ~Mid'
    <2>1. Control
      BY Zenon DEF IInv
    <2> QED  BY <1>1, <1>2, <2>1 DEF Control, Clean, Mid
  <1>5. unread' \subseteq Children(cur) /\ Elems(fileVec) \cap unread' = {}
    BY <1>2, Zenon DEF IInv, Listings
  <1> QED  BY <1>2, <1>3, <1>4, <1>5, QuietIInv

LEMMA ControlStepsIInv ==
  IInv /\ (StepEmpty \/ OpenDir \/ ScanUnsupported \/ ScanEnd \/ CallerLoop
             \/ RecordInitError) => IInv'
  <1> SUFFICES ASSUME IInv, \/ StepEmpty \/ OpenDir \/ ScanUnsupported \/ ScanEnd
                            \/ CallerLoop \/ RecordInitError
               PROVE IInv'
    OBVIOUS
  <1>1. UNCHANGED <<fsVars, pathVec, pathCap, dirVec, dirCap, fileVec, fileCap,
                    cur, idx, record, skipped, startPath>>
    BY DEF vecVars, StepEmpty, OpenDir, ScanUnsupported, ScanEnd, CallerLoop,
           RecordInitError, stepVars
  <1>2. unread' \subseteq Children(cur) /\ Elems(fileVec) \cap unread' = {}
    <2>1. CASE OpenDir
      <3>1. fileVec = <<>>
        <4>1. pc = "opendir" /\ Control
          BY <2>1, Zenon DEF OpenDir, IInv
        <4> QED
          BY <4>1 DEF Control
      <3> QED  BY <2>1, <3>1 DEF OpenDir, Elems
    <2>2. CASE ~OpenDir
      <3>1. unread' \subseteq unread
        BY <2>2, Zenon DEF StepEmpty, ScanUnsupported, ScanEnd, CallerLoop,
                           RecordInitError, stepVars
      <3>2. unread \subseteq Children(cur) /\ Elems(fileVec) \cap unread = {}
        BY Zenon DEF IInv, Listings
      <3> QED  BY <3>1, <3>2
    <2> QED  BY <2>1, <2>2
  <1>3. TypeOK'
    <2>1. unread' \subseteq Node \ {Root}
      BY <1>2 DEF Children
    <2>2. ret \in BOOLEAN /\ errno \in BOOLEAN /\ err \in Errors
      BY DEF IInv, TypeOK
    <2>3. ret' \in BOOLEAN /\ errno' \in BOOLEAN
      BY <2>2, Zenon DEF stepVars, StepEmpty, OpenDir, ScanUnsupported, ScanEnd,
                         CallerLoop, RecordInitError
    <2>4. err' \in Errors
      BY <2>2, Zenon DEF Errors, StepEmpty, OpenDir, ScanUnsupported, ScanEnd,
                         CallerLoop, RecordInitError
    <2>5. pc' \in {"scan", "push", "ret", "step", "cleanup", "record"}
      BY Zenon DEF StepEmpty, OpenDir, ScanUnsupported, ScanEnd, CallerLoop,
                   RecordInitError
    <2> QED  BY <1>1, <2>1, <2>3, <2>4, <2>5 DEF IInv, TypeOK, fsVars
  <1>4. Control' /\ (Clean' => Clean) /\ (Mid' => Mid)
    <2>1. \/ pc = "step" /\ pc' = "ret" /\ err' = err
          \/ pc \in {"opendir", "scan"} /\ pc' \in {"scan", "push"} /\ err' = err
          \/ pc = "ret" /\ pc' = "step" /\ err \in {"OK", "FW_SKIP"} /\ err' = "OK"
          \/ pc = "ret" /\ pc' = "record" /\ ~ret /\ err' = err
          \/ pc \in {"ret", "record"} /\ pc' = "cleanup"
      BY Zenon DEF StepEmpty, OpenDir, ScanUnsupported, ScanEnd, CallerLoop,
                   RecordInitError
    <2>2. Control'
      BY <1>1, <2>1, Zenon DEF IInv, Control, Mid
    <2>3. (Clean' => Clean) /\ (Mid' => Mid)
      BY <2>1 DEF Clean, Mid
    <2> QED  BY <2>2, <2>3
  <1> QED  BY <1>1, <1>2, <1>3, <1>4, QuietIInv

\* A step that fails leaves path_vec and dir_vec as they are.  Only a failed
\* opendir keeps the walk clean, and then the directory is in skipped.
LEMMA StepCleanupIInv ==
  ASSUME IInv, pc = "step" \/ Mid, NEW e, StepCleanup(e),
         e \in {"SYS", "INVAL_PATH", "ACCESS", "FW_UNKNOWN"},
         e = "ACCESS" => pc = "opendir"
  PROVE  IInv'
  <1>1. /\ UNCHANGED <<startPath, fsVars, pathVec, pathCap, dirVec, dirCap, record>>
        /\ cur' = None /\ unread' = {} /\ errno' = FALSE /\ fileVec' = <<>>
        /\ fileCap' = 0 /\ idx' = 1 /\ pc' = "ret"
        /\ err' = Remap(e) /\ ret' = (pathVec = <<>>)
        /\ skipped' = IF e = "ACCESS" THEN skipped \cup {cur} ELSE skipped
    BY DEF StepCleanup, vecVars
  <1>2. /\ Remap(e) \in Errors
        /\ Remap(e) \in {"OK", "FW_SKIP"} => e = "ACCESS"
    BY DEF Remap, Errors
  <1>3. Clean
    BY DEF Clean, Mid
  <1>4. TypeOK'
    <2>1. skipped' \subseteq Node
      BY <1>1 DEF IInv, TypeOK, Control, Mid
    <2>2. ret' \in BOOLEAN
      BY <1>1
    <2>3. fileVec' \in Seq(Node \ {Root}) /\ unread' \subseteq Node \ {Root}
      BY <1>1
    <2>4. errno' \in BOOLEAN
      BY <1>1, Zenon
    <2> QED  BY <1>1, <1>2, <2>1, <2>2, <2>3, <2>4 DEF IInv, TypeOK, fsVars
  <1>5. Control'
    BY <1>1, <1>2 DEF IInv, Control, Mid, TypeOK
  <1>6. Listings' /\ Tree(dirVec)'
    <2>1. Tree(dirVec)'
      BY <1>1 DEF IInv, Tree
    <2>2. /\ Elems(fileVec') = {} /\ unread' = {} /\ Len(fileVec') = 0
          /\ dirVec' = dirVec
      BY <1>1, ElemsEmpty
    <2>3. \A i \in 1..Len(dirVec) :
            Elems(dirVec[i].files) \subseteq Children(dirVec[i].path)
      BY DEF IInv, Listings
    <2>4. Listings'
      BY <2>2, <2>3 DEF Listings
    <2> QED  BY <2>1, <2>4
  <1>7. SingleOwner' /\ VectorsInBounds'
    <2>1. None \notin Elems(pathVec) /\ None \notin Recorded(dirVec)
      BY NodeAssumption, ElemsType, RecordedType DEF IInv, TypeOK
    <2> QED  BY <1>1, <2>1 DEF IInv, SingleOwner, VectorsInBounds
  <1>8. Hanging' /\ Closed'
    <2>1. CASE e # "ACCESS"
      BY <1>1, <1>2, <2>1 DEF Hanging, Closed, Clean, Mid
    <2>2. CASE e = "ACCESS"
      <3>1. pc = "opendir" /\ idx = 1 /\ skipped' = skipped \cup {cur}
        BY <1>1, <2>2 DEF IInv, Control
      <3>2. Hanging'
        BY <1>1, <1>3, <3>1 DEF IInv, Hanging, Pushed, Mid
      <3>3. Closed'
        BY <1>1, <1>3, <3>1 DEF IInv, Closed
      <3> QED  BY <3>2, <3>3
    <2> QED  BY <2>1, <2>2
  <1>9. RecordClosed' /\ RecordIsTree'
    BY <1>1, RecordKept
  <1> QED  BY <1>4, <1>5, <1>6, <1>7, <1>8, <1>9 DEF IInv

LEMMA FailedStepIInv ==
  IInv /\ (StepNoMemory \/ OpenDirError \/ ScanEntryError \/ ScanEndError
             \/ PushDirPathError \/ CommitDirError) => IInv'
  <1> SUFFICES ASSUME IInv, \/ StepNoMemory \/ OpenDirError \/ ScanEntryError
                            \/ ScanEndError \/ PushDirPathError \/ CommitDirError
               PROVE IInv'
    OBVIOUS
  <1>1. \E e \in {"SYS", "INVAL_PATH", "ACCESS", "FW_UNKNOWN"} :
          StepCleanup(e) /\ (pc = "step" \/ Mid) /\ (e = "ACCESS" => pc = "opendir")
    BY DEF StepNoMemory, OpenDirError, ScanEntryError, ScanEndError,
           PushDirPathError, CommitDirError, Mid
  <1> QED  BY <1>1, StepCleanupIInv

LEMMA StepPopIInv == IInv /\ StepPop => IInv'
  <1> SUFFICES ASSUME IInv, StepPop PROVE IInv'
    OBVIOUS
  <1> DEFINE rest == SubSeq(pathVec, 1, Len(pathVec) - 1)
             d == pathVec[Len(pathVec)]
  <1>1. /\ UNCHANGED <<fsVars, err, ret, pathCap, dirVec, dirCap, unread, errno,
                       fileVec, idx, record, skipped, startPath>>
        /\ pc = "step" /\ pc' = "opendir" /\ pathVec # <<>>
        /\ cur' = d /\ pathVec' = rest /\ fileCap' = DefaultCapacity
    BY DEF StepPop, Popped
  <1>2. pathVec \in Seq(Node)
    BY DEF IInv, TypeOK
  <1>3. /\ d \in Node /\ rest \in Seq(Node) /\ Len(rest) = Len(pathVec) - 1
        /\ Elems(pathVec) = Elems(rest) \cup {d}
        /\ \A i \in 1..Len(rest) : rest[i] = pathVec[i]
    BY <1>1, <1>2, ElemsPop
  <1>4. /\ cur = None /\ fileVec = <<>> /\ idx = 1 /\ ~Mid /\ Clean /\ Clean'
    BY <1>1 DEF IInv, Control, Mid, Clean
  <1>5. TypeOK'
    BY <1>1, <1>3, BoundAssumption DEF IInv, TypeOK, fsVars
  <1>6. Control'
    BY <1>1, <1>3, <1>4, BoundAssumption DEF IInv, Control, Mid
  <1>7. Listings' /\ Tree(dirVec)'
    <2>1. unread = {}
      <3>1. unread \subseteq Children(None)
        BY <1>4 DEF IInv, Listings
      <3> QED  BY <3>1, NodeAssumption DEF Children
    <2>2. /\ Elems(fileVec') = {} /\ unread' = {} /\ Len(fileVec') = 0
          /\ dirVec' = dirVec
      BY <1>1, <1>4, <2>1, ElemsEmpty
    <2>3. Listings'
      <3>1. \A i \in 1..Len(dirVec) :
              Elems(dirVec[i].files) \subseteq Children(dirVec[i].path)
        BY DEF IInv, Listings
      <3> QED  BY <2>2, <3>1 DEF Listings
    <2>4. Tree(dirVec)'
      BY <2>2 DEF IInv, Tree
    <2> QED  BY <2>3, <2>4
  <1>8. SingleOwner'
    <2>1. \A i, j \in 1..Len(pathVec) : pathVec[i] = pathVec[j] => i = j
      BY DEF IInv, SingleOwner
    <2>2. d \notin Elems(rest)
      <3> SUFFICES ASSUME NEW i \in 1..Len(rest), rest[i] = d PROVE FALSE
        BY DEF Elems
      <3>1. i \in 1..Len(pathVec) /\ Len(pathVec) \in 1..Len(pathVec)
        BY <1>1, <1>2, <1>3
      <3> QED  BY <1>2, <1>3, <2>1, <3>1
    <2>3. \A i, j \in 1..Len(rest) : rest[i] = rest[j] => i = j
      BY <1>2, <1>3, <2>1
    <2>4. /\ pathVec' = rest /\ cur' = d /\ dirVec' = dirVec
          /\ Elems(pathVec) = Elems(rest) \cup {d}
      BY <1>1, <1>3
    <2>5. Elems(pathVec) \cap Recorded(dirVec) = {}
      BY DEF IInv, SingleOwner
    <2> HIDE DEF rest, d
    <2> QED  BY <2>2, <2>3, <2>4, <2>5 DEF SingleOwner
  <1>9. VectorsInBounds'
    <2>1. Len(pathVec) <= pathCap /\ Len(dirVec) <= dirCap /\ pathCap \in Nat
      BY DEF IInv, VectorsInBounds, TypeOK
    <2>2. /\ Len(pathVec') = Len(pathVec) - 1 /\ Len(pathVec) \in Nat
          /\ UNCHANGED <<pathCap, dirVec, dirCap>>
      BY <1>1, <1>2, <1>3
    <2>3. Len(fileVec') = 0 /\ fileCap' \in Nat
      BY <1>1, <1>4, ElemsEmpty, BoundAssumption
    <2> QED  BY <2>1, <2>2, <2>3 DEF VectorsInBounds
  <1>10. Hanging'
    <2>1. /\ \A x \in Elems(pathVec) : x = Root \/ Listed(x, dirVec) \/ x \in Pushed
          /\ Pushed = {} /\ dirVec' = dirVec /\ cur' = d
      BY <1>1, <1>4 DEF IInv, Hanging, Pushed
    <2>2. Elems(pathVec) = Elems(pathVec') \cup {cur'}
      BY <1>1, <1>3
    <2> QED  BY <2>1, <2>2 DEF Hanging, Listed
  <1>11. Closed'
    <2>1. \A i \in 1..Len(dirVec) : None \notin Elems(dirVec[i].files)
      BY NodeAssumption DEF IInv, Listings, Children
    <2>2. /\ Closed /\ Clean /\ cur = None /\ idx' = 1
          /\ dirVec' = dirVec /\ skipped' = skipped
      BY <1>1, <1>4 DEF IInv
    <2>3. Elems(pathVec) = Elems(pathVec') \cup {cur'}
      BY <1>1, <1>3
    <2> QED  BY <2>1, <2>2, <2>3 DEF Closed
  <1>12. RecordClosed' /\ RecordIsTree'
    BY <1>1, RecordKept
  <1> QED
    BY <1>5, <1>6, <1>7, <1>8, <1>9, <1>10, <1>11, <1>12 DEF IInv

LEMMA ScanEntryIInv == IInv /\ ScanEntry => IInv'
  <1> SUFFICES ASSUME IInv, ScanEntry PROVE IInv'
    OBVIOUS
  <1>1. PICK n \in unread : /\ unread' = unread \ {n}
                            /\ fileCap' = Grown(fileVec, fileCap)
                            /\ fileVec' = Append(fileVec, n)
    BY DEF ScanEntry
  <1>2. /\ UNCHANGED <<fsVars, pc, err, ret, pathVec, pathCap, dirVec, dirCap,
                       cur, errno, idx, record, skipped, startPath>>
        /\ pc = "scan" /\ Mid /\ Mid' /\ Clean /\ Clean' /\ idx = 1
    BY DEF ScanEntry, IInv, Control, Mid, Clean, vecVars
  <1>3. /\ n \in Node \ {Root} /\ n \in Children(cur) /\ n \notin Elems(fileVec)
        /\ fileVec \in Seq(Node \ {Root})
    BY DEF IInv, TypeOK, Listings
  <1>4. /\ Elems(fileVec') = Elems(fileVec) \cup {n}
        /\ fileVec' \in Seq(Node \ {Root}) /\ Len(fileVec') = Len(fileVec) + 1
        /\ fileVec'[Len(fileVec')] = n
        /\ \A i \in 1..Len(fileVec) : fileVec'[i] = fileVec[i]
    <2>1. fileVec' = Append(fileVec, n) /\ fileVec \in Seq(Node \ {Root})
          /\ n \in Node \ {Root}
      BY <1>1, <1>3, Zenon
    <2>2. Elems(fileVec') = Elems(fileVec) \cup {n}
      BY <2>1, ElemsAppend, Zenon
    <2> QED
      BY <2>1, <2>2
  <1>5. fileCap' \in Nat /\ fileCap' >= 1 /\ Len(fileVec') <= fileCap'
    <2>1. fileCap \in Nat /\ Len(fileVec) \in Nat
      BY <1>3 DEF IInv, TypeOK
    <2>2. fileCap >= 1 /\ Len(fileVec) <= fileCap
      BY <1>2 DEF IInv, Control, VectorsInBounds
    <2> QED  BY <1>1, <1>4, <2>1, <2>2, GrownRoom
  <1>6. TypeOK'
    BY <1>1, <1>2, <1>4, <1>5 DEF IInv, TypeOK, fsVars
  <1>7. Control'
    BY <1>2, <1>4, <1>3, <1>5 DEF IInv, Control, Mid
  <1>8. Listings'
    <2>1. \A i, j \in 1..Len(fileVec') : fileVec'[i] = fileVec'[j] => i = j
      <3>1. \A i, j \in 1..Len(fileVec) : fileVec[i] = fileVec[j] => i = j
        BY DEF IInv, Listings
      <3>2. \A i, j \in 1..Len(Append(fileVec, n)) :
              Append(fileVec, n)[i] = Append(fileVec, n)[j] => i = j
        BY <1>3, <3>1, DistinctAppend, Zenon
      <3> QED  BY <1>1, <3>2
    <2>2. /\ unread' \subseteq Children(cur)
          /\ Elems(fileVec') \subseteq Children(cur)
          /\ Elems(fileVec') \cap unread' = {}
      <3>1. /\ unread \subseteq Children(cur) /\ Elems(fileVec) \subseteq Children(cur)
            /\ Elems(fileVec) \cap unread = {}
        BY DEF IInv, Listings
      <3> QED  BY <1>1, <1>3, <1>4, <3>1
    <2>3. \A i \in 1..Len(dirVec) :
            Elems(dirVec[i].files) \subseteq Children(dirVec[i].path)
      BY DEF IInv, Listings
    <2>4. dirVec' = dirVec /\ cur' = cur
      BY <1>2
    <2> QED  BY <2>1, <2>2, <2>3, <2>4, Zenon DEF Listings
  <1>9. Tree(dirVec)' /\ SingleOwner' /\ VectorsInBounds'
    BY <1>2, <1>5 DEF IInv, Tree, SingleOwner, VectorsInBounds
  <1>10. Hanging' /\ Closed'
    <2>1. /\ UNCHANGED <<pathVec, dirVec, cur, skipped>>
          /\ Clean /\ Mid /\ idx = 1 /\ idx' = 1
      BY <1>2
    <2>2. \A j : j \notin 1..(1 - 1)
      OBVIOUS
    <2>3. Pushed = {} /\ Pushed' = {}
      BY <2>1, <2>2 DEF Pushed
    <2>4. Hanging'
      BY <2>1, <2>3 DEF IInv, Hanging, Listed
    <2>5. \A i \in 1..Len(dirVec) : \A c \in Elems(dirVec[i].files) :
            Walked(c) => c \in Elems(pathVec) \cup Recorded(dirVec)
                                 \cup {cur} \cup skipped
      BY <2>1 DEF IInv, Closed
    <2>6. Closed'
      BY <2>1, <2>2, <2>5, Zenon DEF Closed, Walked, PathOverflow
    <2> QED  BY <2>4, <2>6
  <1>11. RecordClosed' /\ RecordIsTree'
    BY <1>2, RecordKept
  <1> QED  BY <1>6, <1>7, <1>8, <1>9, <1>10, <1>11 DEF IInv

LEMMA PushNothingIInv == IInv /\ PushNothing => IInv'
  <1> SUFFICES ASSUME IInv, PushNothing PROVE IInv'
    OBVIOUS
  <1>1. /\ UNCHANGED <<fsVars, pc, err, ret, pathVec, pathCap, dirVec, dirCap, cur,
                       unread, errno, fileVec, fileCap, record, skipped, startPath>>
        /\ pc = "push" /\ Mid /\ Mid' /\ Clean /\ Clean'
        /\ idx <= Len(fileVec) /\ idx' = idx + 1 /\ ~Walked(fileVec[idx])
    BY DEF PushNothing, Mid, Clean, vecVars
  <1>2. idx \in Nat \ {0} /\ idx' \in Nat \ {0} /\ Len(fileVec) \in Nat
    BY <1>1 DEF IInv, TypeOK
  <1>3. TypeOK' /\ Control'
    <2>1. TypeOK'
      BY <1>1, <1>2 DEF IInv, TypeOK, fsVars
    <2>2. Control'
      BY <1>1, <1>2 DEF IInv, Control, Mid
    <2> QED  BY <2>1, <2>2
  <1>4. Listings' /\ SingleOwner' /\ VectorsInBounds' /\ Tree(dirVec)'
    <2>1. Listings'
      BY <1>1, Zenon DEF IInv, Listings
    <2>2. SingleOwner' /\ VectorsInBounds'
      BY <1>1 DEF IInv, SingleOwner, VectorsInBounds
    <2>3. Tree(dirVec)'
      BY <1>1 DEF IInv, Tree
    <2> QED  BY <2>1, <2>2, <2>3
  <1>5. Hanging'
    BY <1>1, <1>2 DEF IInv, Hanging, Listed, Pushed
  <1>6. Closed'
    BY <1>1, <1>2 DEF IInv, Closed
  <1>7. RecordClosed' /\ RecordIsTree'
    BY <1>1, RecordKept
  <1> QED  BY <1>3, <1>4, <1>5, <1>6, <1>7 DEF IInv

\* The path that is pushed is new: its parent is the running directory, while
\* every known path hangs on a recorded directory or was pushed before.
LEMMA PushDirPathIInv == IInv /\ PushDirPath => IInv'
  <1> SUFFICES ASSUME IInv, PushDirPath PROVE IInv'
    OBVIOUS
  <1> DEFINE c == fileVec[idx]
  <1>1. /\ UNCHANGED <<fsVars, pc, err, ret, dirVec, dirCap, cur, unread, errno,
                       fileVec, fileCap, record, skipped, startPath>>
        /\ pc = "push" /\ Mid /\ Mid' /\ Clean /\ Clean'
        /\ idx <= Len(fileVec) /\ idx' = idx + 1
        /\ pathCap' = Grown(pathVec, pathCap)
        /\ pathVec' = Append(pathVec, c)
    BY DEF PushDirPath, Mid, Clean
  <1>2. /\ idx \in Nat \ {0} /\ idx' \in Nat \ {0} /\ Len(fileVec) \in Nat
        /\ idx \in 1..Len(fileVec) /\ pathVec \in Seq(Node)
        /\ fileVec \in Seq(Node \ {Root}) /\ dirVec \in Seq(DirRecord)
    BY <1>1 DEF IInv, TypeOK
  <1>3. c \in Elems(fileVec) /\ c \in Children(cur) /\ c \in Node \ {Root}
    <2>1. c \in Elems(fileVec)
      BY <1>2 DEF Elems
    <2>2. Listings
      BY Zenon DEF IInv
    <2> QED  BY <2>1, <2>2 DEF Listings, Children
  <1>4. /\ Elems(pathVec') = Elems(pathVec) \cup {c} /\ pathVec' \in Seq(Node)
        /\ Len(pathVec') = Len(pathVec) + 1 /\ pathVec'[Len(pathVec')] = c
        /\ \A i \in 1..Len(pathVec) : pathVec'[i] = pathVec[i]
    BY <1>1, <1>2, <1>3, ElemsAppend
  <1>5. pathCap' \in Nat /\ pathCap' >= 1 /\ Len(pathVec') <= pathCap'
    <2>1. pathCap \in Nat /\ Len(pathVec) \in Nat
      BY <1>2 DEF IInv, TypeOK
    <2>2. pathCap >= 1 /\ Len(pathVec) <= pathCap
      BY <1>1 DEF IInv, Control, VectorsInBounds
    <2> QED  BY <1>1, <1>4, <2>1, <2>2, GrownRoom
  <1>6. TypeOK' /\ Control'
    <2>1. TypeOK'
      BY <1>1, <1>2, <1>4, <1>5, Zenon DEF IInv, TypeOK, fsVars
    <2>2. Control'
      BY <1>1, <1>2, <1>5 DEF IInv, Control, Mid
    <2> QED  BY <2>1, <2>2
  <1>7. Listings' /\ VectorsInBounds' /\ Tree(dirVec)'
    <2>1. UNCHANGED <<dirVec, dirCap, cur, unread, fileVec, fileCap>>
      BY <1>1
    <2>2. Listings'
      BY <2>1, Zenon DEF IInv, Listings
    <2>3. VectorsInBounds' /\ Tree(dirVec)'
      BY <1>5, <2>1, Zenon DEF IInv, VectorsInBounds, Tree
    <2> QED  BY <2>2, <2>3
  <1>8. cur \in Node /\ cur \notin Recorded(dirVec)
    BY <1>1 DEF IInv, Control, SingleOwner
  <1>9. ~Listed(c, dirVec)
    <2> SUFFICES ASSUME NEW j \in 1..Len(dirVec), c \in Elems(dirVec[j].files)
                 PROVE FALSE
      BY DEF Listed
    <2>1. c \in Children(dirVec[j].path)
      BY DEF IInv, Listings
    <2>2. dirVec[j].path = cur
      BY <1>3, <2>1 DEF Children
    <2> QED  BY <1>8, <2>2 DEF Recorded
  <1>10. c \notin Pushed
    <2>1. \A i, j \in 1..Len(fileVec) : fileVec[i] = fileVec[j] => i = j
      BY DEF IInv, Listings
    <2>2. \A j \in 1..(idx - 1) : j \in 1..Len(fileVec) /\ j # idx
      BY <1>2
    <2> QED  BY <1>2, <2>1, <2>2 DEF Pushed
  <1>11. SingleOwner'
    <2> HIDE DEF c
    <2>0. /\ \A x \in Elems(pathVec) : x = Root \/ Listed(x, dirVec) \/ x \in Pushed
          /\ cur = Root \/ Listed(cur, dirVec)
      BY <1>1 DEF IInv, Hanging
    <2>1. c \notin Elems(pathVec)
      BY <1>3, <1>9, <1>10, <2>0
    <2>2. c # cur
      BY <1>3, <1>9, <2>0
    <2>3. c \notin Recorded(dirVec)
      <3> SUFFICES ASSUME NEW i \in 1..Len(dirVec), dirVec[i].path = c PROVE FALSE
        BY DEF Recorded
      <3>1. i # 1 => \E j \in 1..(i-1) : c \in Elems(dirVec[j].files)
        BY <1>2 DEF IInv, Tree
      <3>2. dirVec[1].path = Root
        BY <1>2 DEF IInv, Tree
      <3> QED  BY <1>2, <1>3, <1>9, <3>1, <3>2 DEF Listed
    <2>4. \A i, j \in 1..Len(pathVec') : pathVec'[i] = pathVec'[j] => i = j
      <3>1. \A i, j \in 1..Len(pathVec) : pathVec[i] = pathVec[j] => i = j
        BY DEF IInv, SingleOwner
      <3>2. \A i, j \in 1..Len(Append(pathVec, c)) :
              Append(pathVec, c)[i] = Append(pathVec, c)[j] => i = j
        BY <1>2, <2>1, <3>1, DistinctAppend, Zenon
      <3> QED  BY <1>1, <3>2, Zenon
    <2>5. UNCHANGED <<dirVec, cur>> /\ Elems(pathVec') = Elems(pathVec) \cup {c}
      BY <1>1, <1>4
    <2> QED  BY <2>1, <2>2, <2>3, <2>4, <2>5 DEF IInv, SingleOwner
  <1>12. Hanging'
    <2>1. /\ UNCHANGED <<fileVec, dirVec, cur>> /\ idx' = idx + 1
          /\ idx \in Nat \ {0} /\ Clean /\ Mid
      BY <1>1, <1>2
    <2>2. Pushed' = Pushed \cup {c}
      BY <2>1 DEF Pushed
    <2>3. Elems(pathVec') = Elems(pathVec) \cup {c}
      BY <1>4, Zenon
    <2> HIDE DEF c
    <2> QED  BY <2>1, <2>2, <2>3 DEF IInv, Hanging, Listed
  <1>13. Closed'
    <2>1. /\ Closed /\ Clean /\ dirVec' = dirVec /\ cur' = cur
          /\ fileVec' = fileVec /\ skipped' = skipped /\ idx' = idx + 1
      BY <1>1 DEF IInv
    <2>2. /\ Elems(pathVec') = Elems(pathVec) \cup {fileVec[idx]}
          /\ idx \in Nat \ {0}
      BY <1>2, <1>4
    <2>3. \A i \in 1..Len(dirVec) : \A c2 \in Elems(dirVec[i].files) :
            Walked(c2) => c2 \in Elems(pathVec) \cup Recorded(dirVec)
                                   \cup {cur} \cup skipped
      BY <2>1, Zenon DEF Closed
    <2>4. \A j \in 1..(idx - 1) : Walked(fileVec[j]) => fileVec[j] \in Elems(pathVec)
      BY <2>1, Zenon DEF Closed
    <2>5. \A j \in 1..(idx' - 1) : j \in 1..(idx - 1) \/ j = idx
      BY <2>1, <2>2
    <2>6. \A j \in 1..(idx' - 1) : fileVec[j] \in Elems(pathVec') \/ ~Walked(fileVec[j])
      BY <2>2, <2>4, <2>5
    <2>7. \A i \in 1..Len(dirVec) : \A c2 \in Elems(dirVec[i].files) :
            Walked(c2) => c2 \in Elems(pathVec') \cup Recorded(dirVec)
                                   \cup {cur} \cup skipped
      BY <2>2, <2>3
    <2> QED  BY <2>1, <2>6, <2>7, Zenon DEF Closed, Walked, PathOverflow
  <1>14. RecordClosed' /\ RecordIsTree'
    BY <1>1, RecordKept
  <1> QED  BY <1>6, <1>7, <1>11, <1>12, <1>13, <1>14 DEF IInv

LEMMA CommitDirIInv == IInv /\ CommitDir => IInv'
  <1> SUFFICES ASSUME IInv, CommitDir PROVE IInv'
    OBVIOUS
  <1> DEFINE r == [path |-> cur, files |-> fileVec]
  <1>1. /\ UNCHANGED <<startPath, fsVars, err, pathVec, pathCap, record, skipped>>
        /\ pc = "push" /\ pc' = "ret" /\ idx > Len(fileVec)
        /\ dirCap' = Grown(dirVec, dirCap) /\ dirVec' = Append(dirVec, r)
        /\ ret' = (pathVec # <<>>)
        /\ cur' = None /\ unread' = {} /\ errno' = FALSE
        /\ fileVec' = <<>> /\ fileCap' = 0 /\ idx' = 1
    BY DEF CommitDir, PathsLeft
  <1>2. /\ Mid /\ ~Mid' /\ Clean /\ cur \in Node /\ err = "OK"
        /\ idx = Len(fileVec) + 1 /\ dirVec \in Seq(DirRecord)
        /\ fileVec \in Seq(Node \ {Root}) /\ pathVec \in Seq(Node)
    <2>1. /\ dirVec \in Seq(DirRecord) /\ fileVec \in Seq(Node \ {Root})
          /\ pathVec \in Seq(Node) /\ idx \in Nat \ {0}
      BY DEF IInv, TypeOK
    <2>2. Mid /\ ~Mid' /\ Clean
      BY <1>1 DEF Mid, Clean
    <2>3. cur \in Node /\ err = "OK" /\ idx <= Len(fileVec) + 1
      BY <2>2 DEF IInv, Control
    <2> QED  BY <1>1, <2>1, <2>2, <2>3
  <1>3. r \in DirRecord /\ r.path = cur /\ r.files = fileVec
    BY <1>2 DEF DirRecord
  <1> HIDE DEF r
  <1>4. /\ dirVec' \in Seq(DirRecord) /\ Len(dirVec') = Len(dirVec) + 1
        /\ dirVec'[Len(dirVec) + 1] = r /\ Len(dirVec) \in Nat
        /\ \A i \in 1..Len(dirVec) : dirVec'[i] = dirVec[i]
    BY <1>1, <1>2, <1>3
  <1>5. Recorded(dirVec') = Recorded(dirVec) \cup {cur}
    BY <1>1, <1>2, <1>3, RecordedAppend
  <1>6. Elems(fileVec') = {} /\ Len(fileVec') = 0
    BY <1>1, ElemsEmpty
  <1>7. dirCap' \in Nat /\ dirCap' >= 1 /\ Len(dirVec') <= dirCap'
    <2>1. dirCap \in Nat /\ Len(dirVec) \in Nat
      BY <1>4 DEF IInv, TypeOK
    <2>2. dirCap >= 1 /\ Len(dirVec) <= dirCap
      BY <1>2 DEF IInv, Control, VectorsInBounds
    <2> QED  BY <1>1, <1>4, <2>1, <2>2, GrownRoom
  <1>8. TypeOK'
    <2>1. ret' \in BOOLEAN /\ errno' \in BOOLEAN
      BY <1>1, Zenon
    <2>2. fileVec' \in Seq(Node \ {Root}) /\ unread' \subseteq Node \ {Root}
      BY <1>1
    <2>3. /\ startPath' \in BOOLEAN
          /\ fs' \in [Node -> {"absent", "present", "removed"}]
          /\ denied' \subseteq Deniable /\ churn' \in 0..MaxChurn
          /\ err' \in Errors /\ pathVec' \in Seq(Node) /\ pathCap' \in Nat
          /\ record' \in Seq(DirRecord) /\ skipped' \subseteq Node
      BY <1>1, Zenon DEF IInv, TypeOK, fsVars
    <2>4. /\ pc' = "ret" /\ cur' \in Node \cup {None}
          /\ fileCap' \in Nat /\ idx' \in Nat \ {0}
      BY <1>1
    <2>5. dirVec' \in Seq(DirRecord) /\ dirCap' \in Nat
      BY <1>4, <1>7
    <2> QED  BY <2>1, <2>2, <2>3, <2>4, <2>5, Zenon DEF TypeOK
  <1>9. Control'
    BY <1>1, <1>2, <1>6, <1>7 DEF IInv, Control, Mid
  <1>10. Listings'
    <2>1. \A i \in 1..Len(dirVec) :
            Elems(dirVec[i].files) \subseteq Children(dirVec[i].path)
      BY DEF IInv, Listings
    <2>2. Elems(r.files) \subseteq Children(r.path)
      BY <1>3 DEF IInv, Listings
    <2>3. \A i \in 1..Len(dirVec') : i \in 1..Len(dirVec) \/ i = Len(dirVec) + 1
      BY <1>4
    <2>4. \A i \in 1..Len(dirVec') :
            Elems(dirVec'[i].files) \subseteq Children(dirVec'[i].path)
      BY <1>4, <2>1, <2>2, <2>3, Zenon
    <2>5. unread' = {} /\ fileVec' = <<>>
      BY <1>1
    <2>6. \A i, j \in 1..Len(fileVec') : fileVec'[i] = fileVec'[j] => i = j
      BY <2>5, EmptyVector, Zenon
    <2>7. /\ unread' \subseteq Children(cur') /\ Elems(fileVec') \subseteq Children(cur')
          /\ Elems(fileVec') \cap unread' = {}
      BY <1>6, <2>5
    <2> QED  BY <2>4, <2>6, <2>7, Zenon DEF Listings
  <1>11. SingleOwner'
    <2>1. None \notin Elems(pathVec) /\ None \notin Recorded(dirVec')
      BY <1>2, <1>4, NodeAssumption, ElemsType, RecordedType
    <2>2. pathVec' = pathVec /\ cur' = None
      BY <1>1
    <2> QED  BY <1>5, <2>1, <2>2 DEF IInv, SingleOwner
  <1>12. VectorsInBounds'
    <2>1. UNCHANGED <<pathVec, pathCap>> /\ fileCap' = 0
      BY <1>1
    <2> QED  BY <1>6, <1>7, <2>1 DEF IInv, VectorsInBounds
  <1>13. ASSUME NEW x, Listed(x, dirVec) PROVE Listed(x, dirVec')
    BY <1>4, <1>13 DEF Listed
  <1>14. Tree(dirVec')
    <2>1. \A i \in 1..Len(dirVec') : i \in 1..Len(dirVec) \/ i = Len(dirVec) + 1
      BY <1>4
    <2>2. \A i \in 1..Len(dirVec) : dirVec[i].path # cur
      BY DEF IInv, SingleOwner, Recorded
    <2>3. \A i, j \in 1..Len(dirVec') : dirVec'[i].path = dirVec'[j].path => i = j
      <3>1. \A i, j \in 1..Len(dirVec) : dirVec[i].path = dirVec[j].path => i = j
        BY DEF IInv, Tree
      <3> QED  BY <1>3, <1>4, <2>1, <2>2, <3>1, Zenon
    <2>4. dirVec = <<>> => cur = Root
      <3>1. cur = Root \/ Listed(cur, dirVec)
        BY <1>2 DEF IInv, Hanging
      <3> QED  BY <3>1, EmptyVector, Zenon DEF Listed
    <2>5. dirVec'[1].path = Root
      <3>1. CASE dirVec = <<>>
        BY <1>3, <1>4, <2>4, <3>1
      <3>2. CASE dirVec # <<>>
        <4>1. 1 \in 1..Len(dirVec)
          BY <1>2, <3>2
        <4> QED  BY <1>4, <3>2, <4>1 DEF IInv, Tree
      <3> QED  BY <3>1, <3>2
    <2>6. Len(dirVec) > 0 => Listed(cur, dirVec)
      <3>1. Len(dirVec) > 0 => Root \in Recorded(dirVec)
        BY <1>2 DEF IInv, Tree, Recorded
      <3> QED  BY <1>2, <3>1 DEF IInv, Hanging, SingleOwner
    <2>7. ASSUME NEW i \in 2..Len(dirVec')
          PROVE  \E j \in 1..(i-1) : dirVec'[i].path \in Elems(dirVec'[j].files)
      <3>1. CASE i \in 2..Len(dirVec)
        <4>1. PICK j \in 1..(i-1) : dirVec[i].path \in Elems(dirVec[j].files)
          BY <3>1 DEF IInv, Tree
        <4>2. i \in 1..Len(dirVec) /\ j \in 1..Len(dirVec)
          BY <1>4, <3>1
        <4> QED  BY <1>4, <4>1, <4>2
      <3>2. CASE i = Len(dirVec) + 1
        <4>1. Len(dirVec) > 0 /\ i - 1 = Len(dirVec)
          BY <1>4, <3>2
        <4>2. PICK j \in 1..Len(dirVec) : cur \in Elems(dirVec[j].files)
          BY <2>6, <4>1 DEF Listed
        <4> QED  BY <1>3, <1>4, <3>2, <4>1, <4>2
      <3> QED  BY <1>4, <3>1, <3>2
    <2> QED  BY <2>3, <2>5, <2>7 DEF Tree
  <1>15. Hanging'
    <2>1. Pushed \subseteq Elems(r.files)
      <3>1. idx - 1 = Len(fileVec)
        BY <1>2
      <3> QED  BY <1>3, <3>1 DEF Pushed, Elems
    <2>2. \A x \in Pushed : Listed(x, dirVec')
      <3>1. Len(dirVec) + 1 \in 1..Len(dirVec')
        BY <1>4
      <3> QED  BY <1>4, <2>1, <3>1 DEF Listed
    <2>3. \A x \in Elems(pathVec) : x = Root \/ Listed(x, dirVec')
      BY <1>2, <1>13, <2>2 DEF IInv, Hanging
    <2>4. pathVec' = pathVec
      BY <1>1
    <2> QED  BY <1>2, <2>3, <2>4 DEF Hanging
  <1>16. Closed'
    <2>1. \A c \in Elems(fileVec) : Walked(c) => c \in Elems(pathVec)
      <3>1. idx - 1 = Len(fileVec)
        BY <1>2
      <3> QED  BY <1>2, <3>1, Zenon DEF IInv, Closed, Elems
    <2>2. \A i \in 1..Len(dirVec') : i \in 1..Len(dirVec) \/ i = Len(dirVec) + 1
      BY <1>4
    <2>3. \A i \in 1..Len(dirVec') : \A c \in Elems(dirVec'[i].files) :
            Walked(c) => c \in Elems(pathVec) \cup Recorded(dirVec') \cup skipped
      BY <1>2, <1>3, <1>4, <1>5, <2>1, <2>2, Zenon DEF IInv, Closed
    <2>4. pathVec' = pathVec /\ skipped' = skipped /\ idx' = 1
      BY <1>1
    <2> QED  BY <2>3, <2>4 DEF Closed
  <1>17. RecordClosed' /\ RecordIsTree'
    BY <1>1, RecordKept
  <1> QED
    BY <1>8, <1>9, <1>10, <1>11, <1>12, <1>14, <1>15, <1>16, <1>17 DEF IInv

\* A record is made only of a clean walk with nothing left to open: closure
\* of dir_vec then is closure of the record.
LEMMA RecordInitIInv == IInv /\ RecordInit => IInv'
  <1> SUFFICES ASSUME IInv, RecordInit PROVE IInv'
    OBVIOUS
  <1>1. /\ UNCHANGED <<startPath, fsVars, err, ret, pathVec, stepVars, skipped>>
        /\ pc = "record" /\ pc' = "report" /\ pathVec = <<>>
        /\ record' = dirVec /\ dirVec' = <<>> /\ pathCap' = 0 /\ dirCap' = 0
    BY DEF RecordInit
  <1>2. /\ cur = None /\ fileVec = <<>> /\ Clean /\ ~Mid' /\ ~Clean' /\ idx = 1
    BY <1>1 DEF IInv, Control, Mid, Clean
  <1>3. Elems(<<>>) = {} /\ Len(<<>>) = 0 /\ Recorded(<<>>) = {}
    BY ElemsEmpty DEF Recorded
  <1>4. TypeOK' /\ Control'
    <2>1. TypeOK'
      BY <1>1 DEF IInv, TypeOK, fsVars, stepVars
    <2>2. Control'
      BY <1>1, <1>2 DEF IInv, Control, Mid, stepVars
    <2> QED  BY <2>1, <2>2
  <1>5. Listings'
    <2>1. UNCHANGED <<cur, unread, fileVec>> /\ dirVec' = <<>>
      BY <1>1 DEF stepVars
    <2>2. /\ unread' \subseteq Children(cur') /\ Elems(fileVec') \subseteq Children(cur')
          /\ Elems(fileVec') \cap unread' = {}
          /\ \A i, j \in 1..Len(fileVec') : fileVec'[i] = fileVec'[j] => i = j
      BY <2>1, Zenon DEF IInv, Listings
    <2>3. \A i \in 1..Len(dirVec') :
            Elems(dirVec'[i].files) \subseteq Children(dirVec'[i].path)
      BY <2>1, EmptyVector, Zenon
    <2> QED  BY <2>2, <2>3, Zenon DEF Listings
  <1>6. SingleOwner' /\ VectorsInBounds' /\ Tree(dirVec)'
    <2>1. /\ pathVec' = <<>> /\ dirVec' = <<>> /\ fileVec' = <<>>
          /\ pathCap' = 0 /\ dirCap' = 0 /\ fileCap' = fileCap
      BY <1>1, <1>2 DEF stepVars
    <2>2. SingleOwner' /\ Tree(dirVec)'
      BY <1>3, <2>1 DEF SingleOwner, Tree
    <2>3. VectorsInBounds'
      BY <1>3, <2>1 DEF VectorsInBounds, IInv, TypeOK
    <2> QED  BY <2>2, <2>3
  <1>7. Hanging' /\ Closed'
    BY <1>2 DEF Hanging, Closed
  <1>8. RecordClosed'
    <2>1. \A i \in 1..Len(dirVec) : None \notin Elems(dirVec[i].files)
      BY NodeAssumption DEF IInv, Listings, Children
    <2>2. \A i \in 1..Len(dirVec) : \A c \in Elems(dirVec[i].files) :
            Walked(c) => c \in Elems(pathVec) \cup Recorded(dirVec) \cup skipped \cup {cur}
      BY <1>2 DEF IInv, Closed
    <2>3. Elems(pathVec) = {} /\ cur = None /\ record' = dirVec /\ skipped' = skipped
      BY <1>1, <1>2, <1>3
    <2>4. \A i \in 1..Len(dirVec) : \A c \in Elems(dirVec[i].files) :
            Walked(c) => c \in Recorded(dirVec) \cup skipped
      BY <2>1, <2>2, <2>3, Zenon
    <2> QED  BY <2>3, <2>4, Zenon DEF RecordClosed, Walked, PathOverflow
  <1>9. RecordIsTree'
    BY <1>1 DEF IInv, Tree, RecordIsTree
  <1> QED  BY <1>4, <1>5, <1>6, <1>7, <1>8, <1>9 DEF IInv

LEMMA FreeIInv == IInv /\ (StateDestroy \/ RecordFree) => IInv'
  <1> SUFFICES ASSUME IInv, StateDestroy \/ RecordFree PROVE IInv'
    OBVIOUS
  <1>1. Elems(<<>>) = {} /\ Len(<<>>) = 0 /\ Recorded(<<>>) = {}
    BY ElemsEmpty DEF Recorded
  <1>2. /\ UNCHANGED <<fsVars, err, ret, stepVars, skipped>>
        /\ pc' = "done" /\ ~Mid' /\ ~Clean' /\ ~Mid
        /\ cur = None /\ fileVec = <<>> /\ idx = 1
    BY DEF StateDestroy, RecordFree, IInv, Control, Mid, Clean
  <1>3. CASE StateDestroy
    <2>1. /\ pathVec' = <<>> /\ pathCap' = 0 /\ dirVec' = <<>> /\ dirCap' = 0
          /\ record' = record /\ startPath' = FALSE
      BY <1>3, Zenon DEF StateDestroy
    <2>2. TypeOK' /\ Control'
      <3>1. TypeOK'
        <4>1. startPath' \in BOOLEAN
          BY <2>1, Zenon
        <4> QED  BY <1>2, <2>1, <4>1 DEF IInv, TypeOK, fsVars, stepVars
      <3>2. Control'
        BY <1>2, <2>1 DEF IInv, Control, Mid, stepVars
      <3> QED  BY <3>1, <3>2
    <2>3. Listings' /\ SingleOwner' /\ VectorsInBounds' /\ Tree(dirVec)'
      <3>1. UNCHANGED <<cur, unread, fileVec, fileCap>>
        BY <1>2 DEF stepVars
      <3>2. Listings'
        <4>1. \A i \in 1..Len(dirVec') :
                Elems(dirVec'[i].files) \subseteq Children(dirVec'[i].path)
          BY <2>1, EmptyVector, Zenon
        <4> QED  BY <3>1, <4>1, Zenon DEF IInv, Listings
      <3>3. SingleOwner'
        <4>1. \A i, j \in 1..Len(pathVec') : pathVec'[i] = pathVec'[j] => i = j
          BY <2>1, EmptyVector, Zenon
        <4> QED  BY <1>1, <2>1, <4>1 DEF SingleOwner
      <3>4. VectorsInBounds'
        BY <1>1, <2>1, <3>1 DEF IInv, VectorsInBounds
      <3>5. Tree(dirVec)'
        BY <2>1, EmptyVector, Zenon DEF Tree
      <3> QED  BY <3>2, <3>3, <3>4, <3>5
    <2>4. Hanging' /\ Closed' /\ RecordClosed' /\ RecordIsTree'
      <3>1. Hanging' /\ Closed'
        BY <1>2 DEF Hanging, Closed
      <3>2. RecordClosed' /\ RecordIsTree'
        BY <1>2, <2>1, RecordKept
      <3> QED  BY <3>1, <3>2
    <2> QED  BY <2>2, <2>3, <2>4 DEF IInv
  <1>4. CASE RecordFree
    <2>1. /\ UNCHANGED <<startPath, pathVec, pathCap, dirVec, dirCap>>
          /\ record' = <<>>
      BY <1>4 DEF RecordFree, vecVars
    <2>2. TypeOK' /\ Control'
      <3>1. TypeOK'
        BY <1>2, <2>1 DEF IInv, TypeOK, fsVars, stepVars
      <3>2. Control'
        BY <1>2, <2>1 DEF IInv, Control, Mid, stepVars
      <3> QED  BY <3>1, <3>2
    <2>3. Listings' /\ SingleOwner' /\ VectorsInBounds' /\ Tree(dirVec)'
      <3>1. UNCHANGED <<cur, unread, fileVec, fileCap>>
        BY <1>2 DEF stepVars
      <3>2. Listings'
        BY <2>1, <3>1, Zenon DEF IInv, Listings
      <3>3. SingleOwner' /\ VectorsInBounds' /\ Tree(dirVec)'
        BY <2>1, <3>1, Zenon DEF IInv, SingleOwner, VectorsInBounds, Tree
      <3> QED  BY <3>2, <3>3
    <2>4. Hanging' /\ Closed'
      BY <1>2 DEF Hanging, Closed
    <2>5. RecordClosed' /\ RecordIsTree'
      BY <2>1, EmptyVector, Zenon DEF RecordClosed, RecordIsTree
    <2> QED  BY <2>2, <2>3, <2>4, <2>5 DEF IInv
  <1> QED  BY <1>3, <1>4

-----------------------------------------------------------------------------
(* Who owns what malloc returned. *)

\* The state has its vectors until they are handed over or freed; the record
\* has them while the caller reports.
Handed ==
  /\ pc # "report" => record = <<>>
  /\ pc = "report" => record # <<>>
  /\ pc \in {"start", "create", "report", "done", "crashed"} =>
       pathVec = <<>> /\ dirVec = <<>>

\* The blocks of the two vectors, and of the running step.
Kept == {<<"path", d>> : d \in Elems(pathVec)} \cup VecBlocks(dirVec)

Taken ==
  IF cur = None THEN {}
  ELSE IF pc = "opendir" THEN StepBlocks \ {<<"stream", cur>>} ELSE StepBlocks

HeapOwned == heap = Owned

HInv == Handed /\ HeapOwned

\* The caller's path, from its jfs_fio_path_init to its cleanup label.
Lent ==
  /\ pc = "start" => ~startPath
  /\ pc \notin {"start", "done"} => startPath
  /\ pc = "done" /\ err # "OK" => ~startPath

\* No directories, no blocks.
LEMMA NoBlocks == VecBlocks(<<>>) = {} /\ {<<"path", d>> : d \in Elems(<<>>)} = {}
  BY EmptyVector, Zenon DEF VecBlocks

\* What is owned in each phase of the walk.
LEMMA OwnedIs ==
  ASSUME Handed
  PROVE  /\ pc \notin {"start", "create", "report", "done", "crashed"} =>
              Owned = Kept \cup StateBlocks \cup Taken
         /\ pc \in {"start", "create", "done", "crashed"} => Owned = Taken
         /\ pc = "report" => Owned = VecBlocks(record) \cup {<<"dir_array">>} \cup Taken
  <1>1. pc # "report" => VecBlocks(record) = {} /\ record = <<>>
    BY NoBlocks DEF Handed
  <1>2. pc \in {"start", "create", "report", "done", "crashed"} => Kept = {}
    BY NoBlocks DEF Handed, Kept
  <1>3. Owned = Kept \cup VecBlocks(record)
                  \cup (IF record # <<>> THEN {<<"dir_array">>} ELSE {})
                  \cup (IF pc \in {"start", "create", "report", "done", "crashed"} THEN {}
                        ELSE StateBlocks) \cup Taken
    BY Zenon DEF Owned, Kept, Taken
  <1> QED  BY <1>1, <1>2, <1>3 DEF Handed

\* ... and after a step.
LEMMA OwnedIsNext ==
  ASSUME Handed'
  PROVE  /\ pc' \notin {"start", "create", "report", "done", "crashed"} =>
              Owned' = Kept' \cup StateBlocks \cup Taken'
         /\ pc' \in {"start", "create", "done", "crashed"} => Owned' = Taken'
         /\ pc' = "report" => Owned' = VecBlocks(record') \cup {<<"dir_array">>} \cup Taken'
  <1>1. pc' # "report" => VecBlocks(record') = {} /\ record' = <<>>
    BY NoBlocks DEF Handed
  <1>2. pc' \in {"start", "create", "report", "done", "crashed"} => Kept' = {}
    BY NoBlocks DEF Handed, Kept
  <1>3. Owned' = Kept' \cup VecBlocks(record')
                  \cup (IF record' # <<>> THEN {<<"dir_array">>} ELSE {})
                  \cup (IF pc' \in {"start", "create", "report", "done", "crashed"} THEN {}
                        ELSE StateBlocks) \cup Taken'
    BY Zenon DEF Owned, Kept, Taken, StateBlocks
  <1> QED  BY <1>1, <1>2, <1>3 DEF Handed

\* A block of the state is none of a directory.
LEMMA Tags ==
  ASSUME NEW x
  PROVE  /\ <<"path", x>> \notin StateBlocks /\ <<"files", x>> \notin StateBlocks
         /\ <<"stream", x>> \notin StateBlocks /\ <<"name", x>> \notin StateBlocks
  BY DEF StateBlocks

\* The blocks of a directory, by what they hold.
LEMMA DirBlock ==
  ASSUME NEW d, NEW files, NEW b \in DirBlocks(d, files)
  PROVE  b = <<"path", d>> \/ b = <<"files", d>> \/ \E n \in Elems(files) : b = <<"name", n>>
  BY Zenon DEF DirBlocks

\* The blocks of the running step are none of the vectors' and none of the
\* state's: its directory is in neither vector, and the names it has read are
\* entries of that directory.
LEMMA StepApart ==
  ASSUME IInv
  PROVE  StepBlocks \cap (Kept \cup StateBlocks) = {}
  <1> SUFFICES ASSUME NEW b \in StepBlocks, b \in Kept PROVE FALSE
    BY Tags, Zenon DEF StepBlocks
  <1>1. cur \notin Elems(pathVec) /\ cur \notin Recorded(dirVec)
    BY DEF IInv, SingleOwner
  <1>2. \/ b = <<"path", cur>> \/ b = <<"files", cur>> \/ b = <<"stream", cur>>
        \/ \E n \in Elems(fileVec) : b = <<"name", n>>
    BY Zenon DEF StepBlocks
  <1>3. CASE b \in {<<"path", d>> : d \in Elems(pathVec)}
    BY <1>1, <1>2, <1>3
  <1>4. ASSUME NEW i \in 1..Len(dirVec), b \in DirBlocks(dirVec[i].path, dirVec[i].files)
        PROVE  FALSE
    <2>1. dirVec[i].path # cur
      BY <1>1 DEF Recorded
    <2>2. \A n \in Elems(fileVec) : n \notin Elems(dirVec[i].files)
      BY <2>1 DEF IInv, Listings, Children
    <2> QED  BY <1>2, <1>4, <2>1, <2>2, DirBlock
  <1> QED  BY <1>3, <1>4, Zenon DEF Kept, VecBlocks

\* A step that owns nothing new and frees nothing.
LEMMA QuietHInv ==
  ASSUME HInv, UNCHANGED <<pathVec, dirVec, cur, fileVec, heap, record>>,
         pc' = "report" <=> pc = "report", pc' = "opendir" <=> pc = "opendir",
         pc' \in {"start", "create", "report", "done", "crashed"}
           <=> pc \in {"start", "create", "report", "done", "crashed"}
  PROVE  HInv'
  <1>1. Handed'
    BY DEF HInv, Handed
  <1>2. Kept' = Kept /\ Taken' = Taken
    BY Zenon DEF Kept, Taken, StepBlocks
  <1>3. Owned' = Owned
    BY <1>1, <1>2, OwnedIs, OwnedIsNext DEF HInv
  <1> QED  BY <1>1, <1>3 DEF HInv, HeapOwned

\* The cleanup of a failed step frees what the step had, and nothing else.
LEMMA StepCleanupHInv ==
  ASSUME IInv, HInv, pc = "step" \/ Mid, NEW e, StepCleanup(e)
  PROVE  HInv'
  <1>1. /\ UNCHANGED <<pathVec, dirVec, record>> /\ cur' = None /\ pc' = "ret"
        /\ heap' = heap \ StepBlocks
    BY DEF StepCleanup, vecVars, FreedByCleanup
  <1>2. pc \in {"step", "opendir", "scan", "push"}
    BY DEF Mid
  <1>3. Handed'
    BY <1>1, <1>2 DEF HInv, Handed
  <1>4. Kept' = Kept /\ Taken' = {} /\ Taken \subseteq StepBlocks
    BY <1>1, Zenon DEF Kept, Taken
  <1>5. heap = Kept \cup StateBlocks \cup Taken
    BY <1>2, OwnedIs DEF HInv, HeapOwned
  <1>6. heap' = Kept \cup StateBlocks
    BY <1>1, <1>4, <1>5, StepApart
  <1> QED  BY <1>1, <1>3, <1>4, <1>6, OwnedIsNext DEF HInv, HeapOwned

LEMMA FailedStepHInv ==
  ASSUME IInv, HInv, \/ StepNoMemory \/ OpenDirError \/ ScanEntryError
                     \/ ScanEndError \/ PushDirPathError \/ CommitDirError
  PROVE  HInv'
  <1>1. \E e \in {"SYS", "INVAL_PATH", "ACCESS", "FW_UNKNOWN"} : StepCleanup(e)
    BY DEF StepNoMemory, OpenDirError, ScanEntryError, ScanEndError,
           PushDirPathError, CommitDirError
  <1>2. pc = "step" \/ Mid
    BY DEF StepNoMemory, OpenDirError, ScanEntryError, ScanEndError,
           PushDirPathError, CommitDirError, Mid
  <1> QED  BY <1>1, <1>2, StepCleanupHInv

\* Allocations of a step that goes on: each block has its owner at once.
LEMMA StepPopHInv == ASSUME IInv, HInv, StepPop PROVE HInv'
  <1> DEFINE rest == SubSeq(pathVec, 1, Len(pathVec) - 1)
             d == pathVec[Len(pathVec)]
  <1>1. /\ UNCHANGED <<dirVec, fileVec, record>> /\ pc = "step" /\ pc' = "opendir"
        /\ cur' = d /\ pathVec' = rest /\ heap' = heap \cup {<<"files", d>>}
        /\ pathVec # <<>>
    BY DEF StepPop, Popped
  <1>2. pathVec \in Seq(Node)
    BY DEF IInv, TypeOK
  <1>3. d \in Node /\ Elems(pathVec) = Elems(rest) \cup {d}
    BY <1>1, <1>2, ElemsPop
  <1>4. cur = None /\ fileVec = <<>> /\ d # None
    BY <1>1, <1>3, NodeAssumption DEF IInv, Control, Mid
  <1> HIDE DEF rest, d
  <1>5. Kept = Kept' \cup {<<"path", d>>}
    <2>1. Elems(pathVec) = Elems(pathVec') \cup {d} /\ dirVec' = dirVec
      BY <1>1, <1>3, Zenon
    <2> QED
      BY <2>1 DEF Kept
  <1>6. Taken = {} /\ Taken' = {<<"path", d>>, <<"files", d>>}
    <2>1. StepBlocks' = {<<"path", d>>, <<"files", d>>, <<"stream", d>>}
      BY <1>1, <1>4, ElemsEmpty DEF StepBlocks
    <2>2. <<"path", d>> # <<"stream", d>> /\ <<"files", d>> # <<"stream", d>>
      OBVIOUS
    <2>3. Taken = {} /\ Taken' = StepBlocks' \ {<<"stream", d>>}
      BY <1>1, <1>4 DEF Taken
    <2> QED  BY <2>1, <2>2, <2>3
  <1>7. Handed'
    BY <1>1 DEF HInv, Handed
  <1>8. heap = Kept \cup StateBlocks \cup Taken
    BY <1>1, OwnedIs DEF HInv, HeapOwned
  <1>9. Owned' = Kept' \cup StateBlocks \cup Taken'
    BY <1>1, <1>7, OwnedIsNext
  <1> QED  BY <1>1, <1>5, <1>6, <1>7, <1>8, <1>9 DEF HInv, HeapOwned

LEMMA TakeHInv == ASSUME IInv, HInv, OpenDir \/ ScanEntry \/ PushDirPath PROVE HInv'
  <1>1. /\ UNCHANGED <<dirVec, cur, record>> /\ Mid /\ cur # None
        /\ pc' \in {"scan", "push"} /\ pc \in {"opendir", "scan", "push"}
    <2>1. /\ UNCHANGED <<dirVec, cur, record>>
          /\ pc' \in {"scan", "push"} /\ pc \in {"opendir", "scan", "push"}
      BY Zenon DEF OpenDir, ScanEntry, PushDirPath, vecVars
    <2>2. Control
      BY Zenon DEF IInv
    <2> QED
      BY <2>1, <2>2, NodeAssumption DEF Mid, Control
  <1>2. Handed'
    BY <1>1 DEF HInv, Handed
  <1>3. heap = Kept \cup StateBlocks \cup Taken
    BY <1>1, OwnedIs DEF HInv, HeapOwned
  <1>4. Owned' = Kept' \cup StateBlocks \cup StepBlocks'
    BY <1>1, <1>2, OwnedIsNext DEF Taken
  <1>5. CASE OpenDir
    <2>1. Kept' = Kept /\ StepBlocks' = StepBlocks
      BY <1>5, Zenon DEF OpenDir, vecVars, Kept, StepBlocks
    <2>2. Taken = StepBlocks \ {<<"stream", cur>>} /\ heap' = heap \cup {<<"stream", cur>>}
      <3>1. pc = "opendir" /\ heap' = heap \cup {<<"stream", cur>>}
        BY <1>5, Zenon DEF OpenDir
      <3> QED  BY <1>1, <3>1 DEF Taken
    <2>3. <<"stream", cur>> \in StepBlocks
      BY DEF StepBlocks
    <2> QED  BY <1>2, <1>3, <1>4, <2>1, <2>2, <2>3 DEF HInv, HeapOwned
  <1>6. CASE ScanEntry
    <2>1. PICK n : fileVec' = Append(fileVec, n) /\ heap' = heap \cup {<<"name", n>>}
      BY <1>6, Zenon DEF ScanEntry
    <2>2. Elems(fileVec') = Elems(fileVec) \cup {n}
      BY <2>1, ElemsAppend DEF IInv, TypeOK
    <2>3. StepBlocks' = StepBlocks \cup {<<"name", n>>}
      <3>1. cur' = cur
        BY <1>1
      <3> QED  BY <2>2, <3>1 DEF StepBlocks
    <2>4. Kept' = Kept /\ Taken = StepBlocks
      <3>1. pc = "scan" /\ UNCHANGED <<pathVec, dirVec>>
        BY <1>6, Zenon DEF ScanEntry, vecVars
      <3> QED  BY <1>1, <3>1, Zenon DEF Kept, Taken
    <2> QED  BY <1>2, <1>3, <1>4, <2>1, <2>3, <2>4 DEF HInv, HeapOwned
  <1>7. CASE PushDirPath
    <2>1. PICK c : pathVec' = Append(pathVec, c) /\ heap' = heap \cup {<<"path", c>>}
      BY <1>7, Zenon DEF PushDirPath
    <2>2. Elems(pathVec') = Elems(pathVec) \cup {c}
      BY <2>1, ElemsAppend DEF IInv, TypeOK
    <2>3. Kept' = Kept \cup {<<"path", c>>}
      BY <1>1, <2>2 DEF Kept
    <2>4. StepBlocks' = StepBlocks /\ Taken = StepBlocks
      BY <1>1, <1>7, Zenon DEF PushDirPath, StepBlocks, Taken
    <2> QED  BY <1>2, <1>3, <1>4, <2>1, <2>3, <2>4 DEF HInv, HeapOwned
  <1> QED  BY <1>5, <1>6, <1>7

\* The directory goes to dir_vec with its path, its names and its array; the
\* stream is closed, and the array of an empty listing is freed.
LEMMA CommitDirHInv == ASSUME IInv, HInv, CommitDir PROVE HInv'
  <1> DEFINE r == [path |-> cur, files |-> fileVec]
  <1>1. /\ UNCHANGED <<pathVec, record>> /\ pc = "push" /\ pc' = "ret" /\ cur' = None
        /\ dirVec' = Append(dirVec, r)
        /\ heap' = (heap \ StepBlocks) \cup DirBlocks(cur, fileVec)
    BY Zenon DEF CommitDir
  <1>2. r.path = cur /\ r.files = fileVec /\ dirVec \in Seq(DirRecord)
    BY DEF IInv, TypeOK
  <1> HIDE DEF r
  <1>3. VecBlocks(dirVec') = VecBlocks(dirVec) \cup DirBlocks(cur, fileVec)
    <2>1. /\ Len(dirVec') = Len(dirVec) + 1 /\ dirVec'[Len(dirVec) + 1] = r
          /\ Len(dirVec) \in Nat /\ \A i \in 1..Len(dirVec) : dirVec'[i] = dirVec[i]
      BY <1>1, <1>2
    <2>2. 1..Len(dirVec') = (1..Len(dirVec)) \cup {Len(dirVec) + 1}
      BY <2>1
    <2> QED  BY <1>2, <2>1, <2>2 DEF VecBlocks
  <1>4. Kept' = Kept \cup DirBlocks(cur, fileVec)
    BY <1>1, <1>3 DEF Kept
  <1>5. Handed'
    BY <1>1 DEF HInv, Handed
  <1>6. heap = Kept \cup StateBlocks \cup Taken /\ Taken \subseteq StepBlocks
    BY <1>1, OwnedIs DEF HInv, HeapOwned, Taken
  <1>7. Owned' = Kept' \cup StateBlocks
    BY <1>1, <1>5, OwnedIsNext DEF Taken
  <1>8. heap \ StepBlocks = Kept \cup StateBlocks
    BY <1>6, StepApart
  <1> QED  BY <1>1, <1>4, <1>5, <1>7, <1>8 DEF HInv, HeapOwned

\* The calls of the caller.
LEMMA PathInitHInv == ASSUME HInv, PathInit PROVE HInv'
  <1>1. /\ UNCHANGED <<pathVec, dirVec, cur, fileVec, heap, record>>
        /\ pc = "start" /\ pc' \in {"create", "done"}
    BY Zenon DEF PathInit, vecVars, stepVars
  <1> QED  BY <1>1, QuietHInv

LEMMA StateCreateHInv == ASSUME IInv, HInv, StateCreate PROVE HInv'
  <1>1. /\ UNCHANGED <<dirVec, cur, record>> /\ pc = "create" /\ cur = None
        /\ pathVec = <<>> /\ dirVec = <<>> /\ record = <<>>
    BY DEF StateCreate, stepVars, IInv, Control, Mid, HInv, Handed
  <1>2. heap = {} /\ Taken' = {}
    BY <1>1, OwnedIs DEF HInv, HeapOwned, Taken
  <1>3. CASE pathVec' = <<Root>> /\ pc' = "step" /\ heap' = StateBlocks \cup {<<"path", Root>>}
    <2>1. Handed'
      BY <1>1, <1>3 DEF Handed
    <2>2. Elems(pathVec') = {Root}
      BY <1>3 DEF Elems
    <2>3. Kept' = {<<"path", Root>>}
      BY <1>1, <2>2, NoBlocks DEF Kept
    <2> QED  BY <1>2, <1>3, <2>1, <2>3, OwnedIsNext DEF HInv, HeapOwned
  <1>4. CASE pathVec' = pathVec /\ pc' \in {"done", "crashed"} /\ heap' = heap
    <2>1. Handed'
      BY <1>1, <1>4 DEF Handed
    <2> QED  BY <1>2, <1>4, <2>1, OwnedIsNext DEF HInv, HeapOwned
  <1> QED  BY <1>3, <1>4 DEF StateCreate

\* jfs_fw_record_init keeps the array of directories, which is the record's
\* from then on.
LEMMA RecordInitHInv == ASSUME IInv, HInv, RecordInit PROVE HInv'
  <1>1. /\ UNCHANGED <<pathVec, cur>> /\ pc = "record" /\ cur = None /\ pc' = "report"
        /\ pathVec = <<>> /\ dirVec # <<>> /\ record' = dirVec /\ dirVec' = <<>>
        /\ heap' = heap \ {<<"state">>, <<"path_array">>}
    BY DEF RecordInit, stepVars, IInv, Control, Mid
  <1>2. Handed'
    BY <1>1 DEF Handed
  <1>3. heap = VecBlocks(dirVec) \cup StateBlocks
    BY <1>1, OwnedIs, NoBlocks DEF HInv, HeapOwned, Taken, Kept
  <1>4. Owned' = VecBlocks(dirVec) \cup {<<"dir_array">>}
    BY <1>1, <1>2, OwnedIsNext DEF Taken
  <1>5. ASSUME NEW b \in VecBlocks(dirVec) PROVE b \notin StateBlocks
    <2>1. PICK i \in 1..Len(dirVec) : b \in DirBlocks(dirVec[i].path, dirVec[i].files)
      BY <1>5 DEF VecBlocks
    <2>2. \/ b = <<"path", dirVec[i].path>> \/ b = <<"files", dirVec[i].path>>
          \/ \E n \in Elems(dirVec[i].files) : b = <<"name", n>>
      BY <2>1, DirBlock
    <2> QED  BY <2>2, Tags, Zenon
  <1>6. StateBlocks \ {<<"state">>, <<"path_array">>} = {<<"dir_array">>}
    BY DEF StateBlocks
  <1>7. {<<"state">>, <<"path_array">>} \subseteq StateBlocks
    BY DEF StateBlocks
  <1> QED  BY <1>1, <1>2, <1>3, <1>4, <1>5, <1>6, <1>7 DEF HInv, HeapOwned

\* Nothing is left in the end.
LEMMA FreeHInv == ASSUME IInv, HInv, StateDestroy \/ RecordFree PROVE HInv'
  <1>1. /\ pc' = "done" /\ cur' = None /\ cur = None /\ pc \in {"cleanup", "report"}
    <2>1. pc' = "done" /\ cur' = cur /\ pc \in {"cleanup", "report"}
      BY Zenon DEF StateDestroy, RecordFree, stepVars
    <2>2. cur = None
      BY <2>1 DEF IInv, Control, Mid
    <2> QED  BY <2>1, <2>2
  <1>2. Taken = {} /\ Taken' = {}
    BY <1>1 DEF Taken
  <1>3. CASE StateDestroy
    <2>1. Handed'
      <3>1. /\ pc = "cleanup" /\ pathVec' = <<>> /\ dirVec' = <<>>
            /\ record' = record
        BY <1>3, Zenon DEF StateDestroy
      <3> QED  BY <1>1, <3>1 DEF HInv, Handed
    <2>2. heap = Kept \cup StateBlocks
      <3>1. pc = "cleanup"
        BY <1>3, Zenon DEF StateDestroy
      <3> QED  BY <1>2, <3>1, OwnedIs DEF HInv, HeapOwned
    <2>3. heap' = {}
      <3>1. heap' = heap \ (Kept \cup StateBlocks)
        BY <1>3, Zenon DEF StateDestroy, Kept
      <3> QED  BY <2>2, <3>1
    <2> QED  BY <1>1, <1>2, <2>1, <2>3, OwnedIsNext DEF HInv, HeapOwned
  <1>4. CASE RecordFree
    <2>1. Handed'
      <3>1. /\ pc = "report" /\ UNCHANGED <<pathVec, dirVec>> /\ record' = <<>>
        BY <1>4, Zenon DEF RecordFree, vecVars
      <3> QED  BY <1>1, <3>1 DEF HInv, Handed
    <2>2. heap = VecBlocks(record) \cup {<<"dir_array">>}
      <3>1. pc = "report"
        BY <1>4, Zenon DEF RecordFree
      <3> QED  BY <1>2, <3>1, OwnedIs DEF HInv, HeapOwned
    <2>3. heap' = {}
      BY <1>4, <2>2 DEF RecordFree
    <2> QED  BY <1>1, <1>2, <2>1, <2>3, OwnedIsNext DEF HInv, HeapOwned
  <1> QED  BY <1>3, <1>4

\* Every step keeps each block with its owner.
LEMMA NextHInv == ASSUME IInv, HInv, [Next]_vars PROVE HInv'
  <1>1. ASSUME Others \/ UNCHANGED vars PROVE HInv'
    <2>1. UNCHANGED <<pc, pathVec, dirVec, cur, fileVec, heap, record>>
      BY <1>1, Zenon DEF Others, Create, Remove, Chmod, vars, vecVars, stepVars
    <2> QED  BY <2>1, QuietHInv
  <1>2. ASSUME \/ StepEmpty \/ ScanUnsupported \/ ScanEnd \/ PushNothing
               \/ CallerLoop \/ RecordInitError
        PROVE  HInv'
    <2>1. UNCHANGED <<pathVec, dirVec, cur, fileVec, heap, record>>
      BY <1>2, Zenon DEF StepEmpty, ScanUnsupported, ScanEnd, PushNothing,
                         CallerLoop, RecordInitError, vecVars, stepVars
    <2>2. /\ pc \in {"step", "scan", "push", "ret", "record"}
          /\ pc' \in {"step", "scan", "push", "ret", "record", "cleanup"}
      BY <1>2, Zenon DEF StepEmpty, ScanUnsupported, ScanEnd, PushNothing,
                         CallerLoop, RecordInitError
    <2> QED  BY <2>1, <2>2, QuietHInv
  <1>3. CASE Step
    BY <1>2, <1>3, FailedStepHInv, StepPopHInv, TakeHInv, CommitDirHInv DEF Step
  <1>4. CASE Caller
    BY <1>2, <1>4, PathInitHInv, StateCreateHInv, RecordInitHInv, FreeHInv
       DEF Caller
  <1> QED  BY <1>1, <1>3, <1>4 DEF Next, Finished

\* Nothing is allocated when the caller starts.
LEMMA InitHInv == Init => HInv
  <1> SUFFICES ASSUME Init PROVE HInv
    OBVIOUS
  <1>1. Handed
    BY DEF Init, Handed
  <1>2. Owned = {} /\ heap = {}
    BY <1>1, OwnedIs DEF Init, Taken
  <1> QED  BY <1>1, <1>2 DEF HInv, HeapOwned

\* The caller has no path before it makes one.
LEMMA InitLent == Init => Lent
  BY Zenon DEF Init, Lent

\* Only the caller's own actions touch its path, and a record means that no
\* error is pending.
LEMMA NextLent == ASSUME IInv, Lent, [Next]_vars PROVE Lent'
  <1>1. CASE Others \/ UNCHANGED vars
    <2>1. UNCHANGED <<pc, err, startPath>>
      BY <1>1, Zenon DEF Others, Create, Remove, Chmod, vars
    <2> QED  BY <2>1, Zenon DEF Lent
  <1>2. CASE Step \/ CallerLoop \/ RecordInit \/ RecordInitError
    <2>1. startPath' = startPath
      BY <1>2, Zenon DEF Step, StepEmpty, StepPop, StepNoMemory, OpenDir,
         OpenDirError, ScanEntry, ScanUnsupported, ScanEntryError, ScanEnd,
         ScanEndError, PushNothing, PushDirPath, PushDirPathError, CommitDir,
         CommitDirError, StepCleanup, CallerLoop, RecordInit, RecordInitError
    <2>2. pc \in {"step", "opendir", "scan", "push", "ret", "record"}
      BY <1>2, Zenon DEF Step, StepEmpty, StepPop, StepNoMemory, OpenDir,
         OpenDirError, ScanEntry, ScanUnsupported, ScanEntryError, ScanEnd,
         ScanEndError, PushNothing, PushDirPath, PushDirPathError, CommitDir,
         CommitDirError, CallerLoop, RecordInit, RecordInitError
    <2>3. pc' \in {"step", "opendir", "scan", "push", "ret", "record",
                   "cleanup", "report"}
      BY <1>2, Zenon DEF Step, StepEmpty, StepPop, StepNoMemory, OpenDir,
         OpenDirError, ScanEntry, ScanUnsupported, ScanEntryError, ScanEnd,
         ScanEndError, PushNothing, PushDirPath, PushDirPathError, CommitDir,
         CommitDirError, StepCleanup, CallerLoop, RecordInit, RecordInitError
    <2>4. startPath /\ pc' \notin {"start", "done"}
      BY <2>2, <2>3 DEF Lent
    <2> QED  BY <2>1, <2>4, Zenon DEF Lent
  <1>3. CASE PathInit
    <2>1. pc = "start" /\ ~startPath
      BY <1>3, Zenon DEF PathInit, Lent
    <2>2. \/ startPath' = TRUE /\ pc' = "create"
          \/ startPath' = startPath /\ pc' = "done"
      BY <1>3, Zenon DEF PathInit
    <2> QED  BY <2>1, <2>2 DEF Lent
  <1>4. CASE StateCreate
    BY <1>4, Zenon DEF StateCreate, Lent
  <1>5. CASE StateDestroy
    BY <1>5, Zenon DEF StateDestroy, Lent
  <1>6. CASE RecordFree
    <2>1. /\ pc = "report" /\ pc' = "done" /\ UNCHANGED <<err, startPath>>
          /\ Control
      BY <1>6, Zenon DEF RecordFree, IInv
    <2>2. err = "OK"
      BY <2>1 DEF Control
    <2> QED  BY <2>1, <2>2, Zenon DEF Lent
  <1> QED
    BY <1>1, <1>2, <1>3, <1>4, <1>5, <1>6, Zenon DEF Next, Caller, Finished

-----------------------------------------------------------------------------
(* The theorems. *)

\* The inductive invariant holds in every state of every walk.
THEOREM Invariance == Spec => []IInv
  <1>1. Init => IInv
    BY InitIInv
  <1>2. IInv /\ [Next]_vars => IInv'
    <2> SUFFICES ASSUME IInv, [Next]_vars PROVE IInv'
      OBVIOUS
    <2>1. CASE Step
      BY <2>1, ControlStepsIInv, FailedStepIInv, StepPopIInv, ScanEntryIInv,
         PushNothingIInv, PushDirPathIInv, CommitDirIInv DEF Step
    <2>2. CASE Caller
      BY <2>2, ControlStepsIInv, PathInitIInv, StateCreateIInv, RecordInitIInv,
         FreeIInv
         DEF Caller
    <2>3. CASE Others \/ Finished \/ UNCHANGED vars
      BY <2>3, OthersIInv DEF Finished
    <2> QED  BY <2>1, <2>2, <2>3 DEF Next
  <1> QED  BY <1>1, <1>2, PTL DEF Spec

\* The state of jfs_fw_state_t, of a step's locals and of the record keep
\* their types.
THEOREM TypeCorrect == Spec => []TypeOK
  <1>1. IInv => TypeOK
    BY DEF IInv
  <1> QED  BY <1>1, Invariance, PTL

\* Every record jfs_fw_record_init hands out lists no subdirectory that the
\* walk lost without telling the caller.
THEOREM RecordIsClosed == Spec => []RecordClosed
  <1>1. IInv => RecordClosed
    BY DEF IInv
  <1> QED  BY <1>1, Invariance, PTL

\* Every record is a tree rooted at the start path, without duplicates.
THEOREM RecordTree == Spec => []RecordIsTree
  <1>1. IInv => RecordIsTree
    BY DEF IInv
  <1> QED  BY <1>1, Invariance, PTL

\* No path is owned twice by the walk, so none is freed twice, and no
\* directory is walked twice.
THEOREM PathsSingleOwner == Spec => []SingleOwner
  <1>1. IInv => SingleOwner
    BY DEF IInv
  <1> QED  BY <1>1, Invariance, PTL

\* The vectors never hold more elements than their arrays have room for.
THEOREM NoVectorOverrun == Spec => []VectorsInBounds
  <1>1. IInv => VectorsInBounds
    BY DEF IInv
  <1> QED  BY <1>1, Invariance, PTL

\* On every path through the walk, whatever fails and whatever other processes
\* do to the file system, each block and each stream of the walk that is live
\* has one owner that will free it, and a caller that returns an error has
\* freed its own path too.
THEOREM NothingLeaks == Spec => []HeapExact
  <1>1. Init => HInv /\ Lent
    BY InitHInv, InitLent
  <1>2. IInv /\ HInv /\ Lent /\ [Next]_vars => HInv' /\ Lent'
    BY NextHInv, NextLent
  <1>3. HInv /\ Lent => HeapExact
    BY DEF HInv, HeapOwned, Lent, HeapExact
  <1> QED  BY <1>1, <1>2, <1>3, Invariance, PTL DEF Spec
=============================================================================
