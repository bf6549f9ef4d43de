------------------------------ MODULE FileWalk ------------------------------
(***************************************************************************)
(* The directory walk of src/modules/file_walk.c, driven by the loop of    *)
(* file_walk_test (src/test/test.c), over a file system that other         *)
(* processes change while the walk runs.                                   *)
(*                                                                         *)
(* jfs_fw_state_step is one call to its caller but many calls to the       *)
(* kernel and to malloc.  It is split at each of them: pop and open one    *)
(* directory, read one entry, push the path of one entry, commit the       *)
(* directory.  A path is the node of the file system it names; a file      *)
(* record is the node it lists.                                            *)
(***************************************************************************)
EXTENDS Integers, Sequences, FiniteSets

CONSTANTS
  Node,             \* every path the file system may hold during the walk
  None,             \* "no path": not a node
  Root,             \* start_path of jfs_fw_state_create
  Parent,           \* Parent[n]: the directory whose entry n is
  DType,            \* DType[n]: the d_type readdir reports for n
  PathLen,          \* PathLen[n]: strlen of the composed path of n
  PathMax,          \* PATH_MAX
  Present0,         \* the nodes that exist when the walk starts
  Deniable,         \* the directories other users may chmod
  MayFail,          \* the library calls that may fail for lack of resources
  DefaultCapacity,  \* FW_{PATH,FILE,DIR}_VECTOR_DEFAULT_CAPACITY
  MaxChurn          \* bound: changes of the file system during one walk

Types == {"DT_REG", "DT_DIR", "DT_UNKNOWN", "DT_OTHER"}

Calls == {"alloc", "opendir", "readdir", "printf"}

ASSUME NodeAssumption ==
  /\ Root \in Node /\ None \notin Node
  /\ Parent \in [Node \ {Root} -> Node]
  /\ DType \in [Node -> Types] /\ DType[Root] = "DT_DIR"
  /\ PathLen \in [Node -> Nat]
  /\ Present0 \subseteq Node /\ Deniable \subseteq Node

ASSUME BoundAssumption ==
  /\ PathMax \in Nat /\ PathLen[Root] <= PathMax
  /\ MaxChurn \in Nat
  /\ DefaultCapacity \in Nat \ {0}
  /\ MayFail \subseteq Calls

VARIABLES
  fs,        \* fs[n]: node n is not yet created, exists, or was removed
  denied,    \* directories the process has no permission to read
  churn,     \* changes of the file system so far
  pc,        \* where the walk is
  err,       \* *err of the caller
  ret,       \* the value jfs_fw_state_step returned
  pathVec,   \* state->path_vec, a stack: directories found and not opened
  pathCap,   \* its capacity
  dirVec,    \* state->dir_vec: directories read, with their listings
  dirCap,    \* its capacity
  cur,       \* dir_path of the running step
  unread,    \* entries the open DIR stream has yet to return
  errno,     \* TRUE: errno is not 0
  fileVec,   \* file_vec of the running step
  fileCap,   \* its capacity
  idx,       \* i of fw_push_dir_paths
  heap,      \* live blocks and streams of the walk, by what they hold
  record,    \* the jfs_fw_record_t the caller got
  startPath, \* TRUE: the path of the caller has its block
  skipped    \* history: directories reported as JFS_ERR_FW_SKIP

fsVars   == <<fs, denied, churn>>
vecVars  == <<pathVec, pathCap, dirVec, dirCap>>
stepVars == <<cur, unread, errno, fileVec, fileCap, idx>>
vars == <<fsVars, pc, err, ret, vecVars, stepVars, heap, record, startPath,
          skipped>>

-----------------------------------------------------------------------------
(* Data. *)

Errors == {"OK", "SYS", "EMPTY", "FW_STATE", "FW_SKIP", "FW_FAIL",
           "FW_UNKNOWN"}

\* Mutant: the step returns the error of the failed call as it is.
RemapNothing(e) == e

\* What the JFS_ERR_* of a failed call becomes when the step returns it.
Remap(e) ==
  CASE e = "ACCESS"     -> "FW_SKIP"
    [] e = "INVAL_PATH" -> "FW_FAIL"
    [] OTHER            -> e

\* jfs_fio_path_buf_compose refuses the path of n.
PathOverflow(n) == PathLen[n] > PathMax

\* Directory n gets a path of its own in path_vec.
Walked(n) == DType[n] = "DT_DIR" /\ ~PathOverflow(n)

Elems(s) == {s[i] : i \in 1..Len(s)}

Recorded(dv) == {dv[i].path : i \in 1..Len(dv)}

\* Mutant: the array grows one push too late.
GrownLate(vec, cap) == IF Len(vec) > cap THEN 2 * cap ELSE cap

\* *_vector_push: the capacity after one more element went in.
Grown(vec, cap) == IF Len(vec) >= cap THEN 2 * cap ELSE cap

\* Mutant: the pop transfers the path and does not lower the count.
PoppedKeepsCount(vec) == vec

\* fw_path_vector_pop: what it leaves.
Popped(vec) == SubSeq(vec, 1, Len(vec) - 1)

\* Mutant: a step says nothing is left while one path is left.
PathsLeftOffByOne(vec) == Len(vec) > 1

\* The value of a step that succeeds.
PathsLeft(vec) == vec # <<>>

\* The blocks a jfs_fw_dir_t owns; an empty listing has no array.
DirBlocks(d, files) ==
  {<<"path", d>>} \cup {<<"name", n>> : n \in Elems(files)}
                  \cup (IF files = <<>> THEN {} ELSE {<<"files", d>>})

VecBlocks(dv) == UNION {DirBlocks(dv[i].path, dv[i].files) : i \in 1..Len(dv)}

\* The blocks the running step owns until it returns.
StepBlocks ==
  {<<"path", cur>>, <<"files", cur>>, <<"stream", cur>>}
    \cup {<<"name", n>> : n \in Elems(fileVec)}

\* Mutant: the cleanup forgets closedir.
FreedByCleanupNoClose == StepBlocks \ {<<"stream", cur>>}

\* What the cleanup of a step frees and closes.
FreedByCleanup == StepBlocks

StateBlocks == {<<"state">>, <<"path_array">>, <<"dir_array">>}

Children(n) == {m \in Node \ {Root} : Parent[m] = n}

-----------------------------------------------------------------------------
(* The walk. *)

Init ==
  /\ fs = [n \in Node |-> IF n \in Present0 THEN "present" ELSE "absent"]
  /\ denied \in SUBSET Deniable
  /\ churn = 0
  /\ pc = "start" /\ err = "OK" /\ ret = FALSE
  /\ pathVec = <<>> /\ pathCap = 0 /\ dirVec = <<>> /\ dirCap = 0
  /\ cur = None /\ unread = {} /\ errno = FALSE
  /\ fileVec = <<>> /\ fileCap = 0 /\ idx = 1
  /\ heap = {} /\ record = <<>> /\ startPath = FALSE /\ skipped = {}

\* jfs_fio_path_init of the caller's path.
PathInit ==
  /\ pc = "start"
  /\ \/ startPath' = TRUE /\ pc' = "create" /\ UNCHANGED err
     \/ /\ "alloc" \in MayFail
        /\ err' = "SYS" /\ pc' = "done"
        /\ UNCHANGED startPath
  /\ UNCHANGED <<fsVars, ret, vecVars, stepVars, heap, record, skipped>>

\* jfs_fw_state_create.  The cleanup of a failed vector allocation hands
\* vectors that were never initialised to *_vector_free: what the garbage
\* makes free() do is open, a crash included.  After an error the caller frees
\* its path; it has no state to destroy.
StateCreate ==
  /\ pc = "create"
  /\ \/ /\ pathVec' = <<Root>>
        /\ pathCap' = DefaultCapacity /\ dirCap' = DefaultCapacity
        /\ heap' = StateBlocks \cup {<<"path", Root>>}
        /\ pc' = "step"
        /\ UNCHANGED <<err, startPath>>
     \/ /\ "alloc" \in MayFail
        /\ err' = "SYS" /\ pc' = "done" /\ startPath' = FALSE
        /\ UNCHANGED <<pathVec, pathCap, dirCap, heap>>
     \/ /\ "alloc" \in MayFail      \* one of the vectors
        /\ err' = "SYS" /\ pc' = "crashed"
        /\ UNCHANGED <<pathVec, pathCap, dirCap, heap, startPath>>
  /\ UNCHANGED <<fsVars, ret, dirVec, stepVars, record, skipped>>

\* The cleanup label of jfs_fw_state_step, entered with error e.
StepCleanup(e) ==
  /\ err' = Remap(e)
  /\ ret' = (pathVec = <<>>)
  /\ heap' = heap \ FreedByCleanup
  /\ skipped' = IF e = "ACCESS" THEN skipped \cup {cur} ELSE skipped
  /\ cur' = None /\ unread' = {} /\ errno' = FALSE
  /\ fileVec' = <<>> /\ fileCap' = 0 /\ idx' = 1
  /\ pc' = "ret"
  /\ UNCHANGED <<fsVars, vecVars, record, startPath>>

\* The early return of a step that finds path_vec empty.
StepEmpty ==
  /\ pc = "step" /\ pathVec = <<>>
  /\ ret' = TRUE /\ pc' = "ret"
  /\ UNCHANGED <<fsVars, err, vecVars, stepVars, heap, record,
                 skipped, startPath>>

\* file_vec is allocated, then the last path is popped.
StepPop ==
  /\ pc = "step" /\ pathVec # <<>>
  /\ LET d == pathVec[Len(pathVec)] IN
     /\ cur' = d
     /\ pathVec' = Popped(pathVec)
     /\ fileCap' = DefaultCapacity
     /\ heap' = heap \cup {<<"files", d>>}
  /\ pc' = "opendir"
  /\ UNCHANGED <<fsVars, err, ret, pathCap, dirVec, dirCap, unread, errno,
                 fileVec, idx, record, skipped, startPath>>

StepNoMemory ==
  /\ pc = "step" /\ pathVec # <<>>
  /\ "alloc" \in MayFail
  /\ StepCleanup("SYS")

\* jfs_opendir; the stream returns the entries there are now.  errno = 0
\* opens fw_scan_dir.
OpenDir ==
  /\ pc = "opendir"
  /\ fs[cur] = "present" /\ cur \notin denied /\ PathLen[cur] < PathMax
  /\ heap' = heap \cup {<<"stream", cur>>}
  /\ unread' = {n \in Children(cur) : fs[n] = "present"}
  /\ errno' = FALSE
  /\ pc' = "scan"
  /\ UNCHANGED <<fsVars, err, ret, vecVars, cur, fileVec, fileCap, idx, record,
                 skipped, startPath>>

\* The errors of opendir.  The kernel's limit counts the terminating NUL: a
\* path of PATH_MAX characters passes the check of compose and fails here.
OpenDirError ==
  /\ pc = "opendir"
  /\ \/ /\ PathLen[cur] >= PathMax \/ "opendir" \in MayFail
        /\ StepCleanup("SYS")
     \/ /\ PathLen[cur] < PathMax /\ fs[cur] # "present"
        /\ StepCleanup("INVAL_PATH")
     \/ /\ PathLen[cur] < PathMax /\ fs[cur] = "present" /\ cur \in denied
        /\ StepCleanup("ACCESS")

\* One turn of fw_scan_dir for a regular file or a directory.
ScanEntry ==
  /\ pc = "scan"
  /\ \E n \in unread :
       /\ DType[n] \in {"DT_REG", "DT_DIR"}
       /\ unread' = unread \ {n}
       /\ fileCap' = Grown(fileVec, fileCap)
       /\ fileVec' = Append(fileVec, n)
       /\ heap' = heap \cup {<<"name", n>>}
  /\ UNCHANGED <<fsVars, pc, err, ret, vecVars, cur, errno, idx, record,
                 skipped, startPath>>

\* An entry of another type is logged and passed over; the log's printf may
\* leave errno set, and nothing clears it before the test after the loop.
ScanUnsupported ==
  /\ pc = "scan"
  /\ \E n \in unread : DType[n] = "DT_OTHER" /\ unread' = unread \ {n}
  /\ errno' \in {errno, errno \/ "printf" \in MayFail}
  /\ UNCHANGED <<fsVars, pc, err, ret, vecVars, cur, fileVec, fileCap, idx,
                 heap, record, skipped, startPath>>

\* DT_UNKNOWN, or no memory for the name or for a larger array.
ScanEntryError ==
  /\ pc = "scan"
  /\ \E n \in unread :
       \/ DType[n] = "DT_UNKNOWN" /\ StepCleanup("FW_UNKNOWN")
       \/ /\ DType[n] \in {"DT_REG", "DT_DIR"} /\ "alloc" \in MayFail
          /\ StepCleanup("SYS")

\* readdir returns NULL: every entry that still exists has been returned.
ScanEnd ==
  /\ pc = "scan" /\ \A n \in unread : fs[n] # "present"
  /\ ~errno
  /\ pc' = "push"
  /\ UNCHANGED <<fsVars, err, ret, vecVars, stepVars, heap, record,
                 skipped, startPath>>

ScanEndError ==
  /\ pc = "scan"
  /\ \/ errno /\ \A n \in unread : fs[n] # "present"
     \/ "readdir" \in MayFail
  /\ StepCleanup("SYS")

\* One turn of fw_push_dir_paths that pushes nothing: a regular file, or a
\* directory whose path would overflow, which is dropped without an error.
PushNothing ==
  /\ pc = "push" /\ idx <= Len(fileVec)
  /\ ~Walked(fileVec[idx])
  /\ idx' = idx + 1
  /\ UNCHANGED <<fsVars, pc, err, ret, vecVars, cur, unread, errno, fileVec,
                 fileCap, heap, record, skipped, startPath>>

\* One turn that pushes the path of a subdirectory.
PushDirPath ==
  /\ pc = "push" /\ idx <= Len(fileVec)
  /\ Walked(fileVec[idx])
  /\ pathCap' = Grown(pathVec, pathCap)
  /\ pathVec' = Append(pathVec, fileVec[idx])
  /\ heap' = heap \cup {<<"path", fileVec[idx]>>}
  /\ idx' = idx + 1
  /\ UNCHANGED <<fsVars, pc, err, ret, dirVec, dirCap, cur, unread, errno,
                 fileVec, fileCap, record, skipped, startPath>>

\* Mutants: a failed push is passed over like an overflow, or starts the loop
\* again.
PushDirPathErrorIgnored ==
  /\ pc = "push" /\ idx <= Len(fileVec)
  /\ Walked(fileVec[idx]) /\ "alloc" \in MayFail
  /\ idx' = idx + 1
  /\ UNCHANGED <<fsVars, pc, err, ret, vecVars, cur, unread, errno, fileVec,
                 fileCap, heap, record, skipped, startPath>>

PushDirPathErrorRetried ==
  /\ pc = "push" /\ idx <= Len(fileVec)
  /\ Walked(fileVec[idx]) /\ "alloc" \in MayFail
  /\ idx' = 1
  /\ UNCHANGED <<fsVars, pc, err, ret, vecVars, cur, unread, errno, fileVec,
                 fileCap, heap, record, skipped, startPath>>

\* No memory for the path or for a larger path_vec; the paths of the earlier
\* turns stay in path_vec.
PushDirPathError ==
  /\ pc = "push" /\ idx <= Len(fileVec)
  /\ Walked(fileVec[idx]) /\ "alloc" \in MayFail
  /\ StepCleanup("SYS")

\* fw_dir_init, fw_dir_vector_push, closedir and the return of the step.
CommitDir ==
  /\ pc = "push" /\ idx > Len(fileVec)
  /\ dirCap' = Grown(dirVec, dirCap)
  /\ dirVec' = Append(dirVec, [path |-> cur, files |-> fileVec])
  /\ heap' = (heap \ StepBlocks) \cup DirBlocks(cur, fileVec)
  /\ ret' = PathsLeft(pathVec)
  /\ cur' = None /\ unread' = {} /\ errno' = FALSE
  /\ fileVec' = <<>> /\ fileCap' = 0 /\ idx' = 1
  /\ pc' = "ret"
  /\ UNCHANGED <<fsVars, err, pathVec, pathCap, record, skipped, startPath>>

\* No memory to trim the listing or to grow dir_vec.
CommitDirError ==
  /\ pc = "push" /\ idx > Len(fileVec)
  /\ fileVec # <<>> \/ Len(dirVec) >= dirCap
  /\ "alloc" \in MayFail
  /\ StepCleanup("SYS")

-----------------------------------------------------------------------------
(* The caller: the loop of file_walk_test and what follows it. *)

\* Mutant: the loop does not look at errors other than JFS_ERR_FW_SKIP.
CallerLoopNoCheck ==
  /\ pc = "ret"
  /\ pc' = IF ret THEN "step" ELSE "record"
  /\ err' = IF ret /\ err = "FW_SKIP" THEN "OK" ELSE err
  /\ UNCHANGED <<fsVars, ret, vecVars, stepVars, heap, record,
                 skipped, startPath>>

\* The while of the caller looks at the value and at the error of the step.
CallerLoop ==
  /\ pc = "ret"
  /\ \/ ret /\ err = "OK" /\ pc' = "step" /\ UNCHANGED err
     \/ ret /\ err = "FW_SKIP" /\ pc' = "step" /\ err' = "OK"
     \/ ret /\ err \notin {"OK", "FW_SKIP"} /\ pc' = "cleanup" /\ UNCHANGED err
     \/ ~ret /\ pc' = "record" /\ UNCHANGED err
  /\ UNCHANGED <<fsVars, ret, vecVars, stepVars, heap, record,
                 skipped, startPath>>

\* jfs_fw_record_init takes the directories over and destroys the state.
RecordInit ==
  /\ pc = "record"
  /\ pathVec = <<>> /\ dirVec # <<>>
  /\ record' = dirVec
  /\ dirVec' = <<>> /\ pathCap' = 0 /\ dirCap' = 0
  /\ heap' = heap \ {<<"state">>, <<"path_array">>}
  /\ pc' = "report"
  /\ UNCHANGED <<fsVars, err, ret, pathVec, stepVars, skipped, startPath>>

RecordInitError ==
  /\ pc = "record"
  /\ pathVec # <<>> \/ dirVec = <<>> \/ "alloc" \in MayFail
  /\ err' = IF pathVec # <<>> THEN "FW_STATE"
            ELSE IF dirVec = <<>> THEN "EMPTY" ELSE "SYS"
  /\ pc' = "cleanup"
  /\ UNCHANGED <<fsVars, ret, vecVars, stepVars, heap, record,
                 skipped, startPath>>

\* The caller's cleanup label: jfs_fio_path_free and jfs_fw_state_destroy.
StateDestroy ==
  /\ pc = "cleanup"
  /\ startPath' = FALSE
  /\ heap' = heap \ ({<<"path", d>> : d \in Elems(pathVec)}
                       \cup VecBlocks(dirVec) \cup StateBlocks)
  /\ pathVec' = <<>> /\ pathCap' = 0 /\ dirVec' = <<>> /\ dirCap' = 0
  /\ pc' = "done"
  /\ UNCHANGED <<fsVars, err, ret, stepVars, record, skipped>>

\* jfs_fw_record_free after the caller has used the record.  This return of
\* the caller does not free its path.
RecordFree ==
  /\ pc = "report"
  /\ heap' = heap \ (VecBlocks(record) \cup {<<"dir_array">>})
  /\ record' = <<>>
  /\ pc' = "done"
  /\ UNCHANGED <<fsVars, err, ret, vecVars, stepVars, skipped, startPath>>

-----------------------------------------------------------------------------
(* Other processes.  A name that was removed is not used again: whether a  *)
(* stream returns a name that is removed and created again once, twice or  *)
(* not at all is unspecified.                                              *)

Create(n) ==
  /\ churn < MaxChurn /\ n # Root
  /\ fs[n] = "absent" /\ fs[Parent[n]] = "present"
  /\ fs' = [fs EXCEPT ![n] = "present"]
  /\ churn' = churn + 1
  /\ UNCHANGED <<denied, pc, err, ret, vecVars, stepVars, heap, record,
                 skipped, startPath>>

Remove(n) ==
  /\ churn < MaxChurn
  /\ fs[n] = "present" /\ \A m \in Children(n) : fs[m] # "present"
  /\ fs' = [fs EXCEPT ![n] = "removed"]
  /\ churn' = churn + 1
  /\ UNCHANGED <<denied, pc, err, ret, vecVars, stepVars, heap, record,
                 skipped, startPath>>

Chmod(d) ==
  /\ churn < MaxChurn
  /\ denied' = IF d \in denied THEN denied \ {d} ELSE denied \cup {d}
  /\ churn' = churn + 1
  /\ UNCHANGED <<fs, pc, err, ret, vecVars, stepVars, heap, record,
                 skipped, startPath>>

-----------------------------------------------------------------------------

Step ==
  \/ StepEmpty \/ StepPop \/ StepNoMemory \/ OpenDir \/ OpenDirError
  \/ ScanEntry \/ ScanUnsupported \/ ScanEntryError \/ ScanEnd \/ ScanEndError
  \/ PushNothing \/ PushDirPath \/ PushDirPathError
  \/ CommitDir \/ CommitDirError

Caller ==
  \/ PathInit \/ StateCreate \/ CallerLoop \/ RecordInit \/ RecordInitError
  \/ StateDestroy \/ RecordFree

Others ==
  \/ \E n \in Node : Create(n) \/ Remove(n)
  \/ \E d \in Deniable : Chmod(d)

Finished == pc \in {"done", "crashed"} /\ UNCHANGED vars

Next == Step \/ Caller \/ Others \/ Finished

Spec == Init /\ [][Next]_vars

\* The walk is one thread that the scheduler keeps running and whose system
\* calls return; nothing is assumed of the other processes.
FairSpec == Spec /\ WF_vars(Step \/ Caller)

-----------------------------------------------------------------------------
(* Properties. *)

DirRecord == [path : Node, files : Seq(Node)]

\* Type invariant of the walk's state, the file system and the caller.
TypeOK ==
  /\ fs \in [Node -> {"absent", "present", "removed"}]
  /\ denied \subseteq Deniable
  /\ churn \in 0..MaxChurn
  /\ pc \in {"start", "create", "step", "opendir", "scan", "push", "ret",
             "record", "cleanup", "report", "done", "crashed"}
  /\ err \in Errors
  /\ ret \in BOOLEAN
  /\ pathVec \in Seq(Node) /\ pathCap \in Nat
  /\ dirVec \in Seq(DirRecord) /\ dirCap \in Nat
  /\ cur \in Node \cup {None}
  /\ unread \subseteq Node \ {Root}
  /\ errno \in BOOLEAN
  /\ fileVec \in Seq(Node \ {Root}) /\ fileCap \in Nat
  /\ idx \in Nat \ {0}
  /\ record \in Seq(DirRecord)
  /\ startPath \in BOOLEAN
  /\ skipped \subseteq Node

\* The record jfs_fw_record_init hands out is complete: every subdirectory a
\* recorded directory lists is recorded too, unless its path overflowed or the
\* walk told the caller it skipped it.  No failed allocation, half-finished
\* push or change of the file system loses a directory without an error.
RecordClosed ==
  \A i \in 1..Len(record) : \A c \in Elems(record[i].files) :
    Walked(c) => c \in Recorded(record) \cup skipped

\* The record is a tree: no directory twice, the start path first, and every
\* other directory after a directory that lists it.
RecordIsTree ==
  /\ \A i, j \in 1..Len(record) : record[i].path = record[j].path => i = j
  /\ record # <<>> => record[1].path = Root
  /\ \A i \in 2..Len(record) :
       \E j \in 1..(i-1) : record[i].path \in Elems(record[j].files)

\* The blocks and streams of the walk that someone will free: path_vec,
\* dir_vec, the state, the running step or the record.
Owned ==
  {<<"path", d>> : d \in Elems(pathVec)} \cup VecBlocks(dirVec)
    \cup VecBlocks(record)
    \cup (IF record # <<>> THEN {<<"dir_array">>} ELSE {})
    \cup (IF pc \in {"start", "create", "report", "done", "crashed"} THEN {}
          ELSE StateBlocks)
    \cup (IF cur = None THEN {}
          ELSE IF pc = "opendir" THEN StepBlocks \ {<<"stream", cur>>}
          ELSE StepBlocks)

\* Between two calls, each block and each open stream of the walk has exactly
\* one owner that will free it, and nothing owned has been freed.  The caller's
\* own path is live for as long as the walk may read it, and a caller that
\* returns an error has freed it: no error path of jfs_fw_state_create,
\* jfs_fw_state_step, jfs_fw_record_init and file_walk_test leaks.  Nothing is
\* said of the path when file_walk_test succeeds: it does not free it then.
HeapExact ==
  /\ heap = Owned
  /\ pc \notin {"start", "done"} => startPath
  /\ pc = "done" /\ err # "OK" => ~startPath

\* The ownership of a path is never held twice, so no block is freed twice.
SingleOwner ==
  /\ \A i, j \in 1..Len(pathVec) : pathVec[i] = pathVec[j] => i = j
  /\ Elems(pathVec) \cap (Recorded(dirVec) \cup {cur}) = {}
  /\ cur \notin Recorded(dirVec)

\* *_vector_push never writes past the array it has allocated.
VectorsInBounds ==
  /\ Len(pathVec) <= pathCap /\ Len(dirVec) <= dirCap
  /\ Len(fileVec) <= fileCap

\* A directory JFS_ERR_FW_SKIP is reported for does not keep the caller from
\* its record when nothing else fails: file_walk_test clears the error and goes
\* on with the next directory.
SkipContinues == skipped # {} ~> pc = "report"

\* A walk ends: the caller's loop is left, whatever fails and whatever the
\* other processes do, unless a directory was skipped.
WalkReturns == <>(pc \in {"done", "crashed"}) \/ <>(skipped # {})

\* The directories a walk of an unchanging file system reaches.
Reachable ==
  {d \in Node : \A S \in SUBSET Node :
     /\ Root \in S
     /\ \A m \in S : {c \in Children(m) : fs[c] = "present" /\ Walked(c)} \subseteq S
     => d \in S}

\* The record holds exactly the tree below the start path.
RecordExact ==
  /\ Recorded(record) = Reachable
  /\ \A i \in 1..Len(record) :
       Elems(record[i].files) =
         {c \in Children(record[i].path) :
            fs[c] = "present" /\ DType[c] \in {"DT_REG", "DT_DIR"}}

\* Nothing has gone wrong around the walk so far: the file system is readable
\* and has not changed, no call has failed for lack of resources, and no type
\* was unknown.
Undisturbed ==
  churn = 0 /\ denied = {} /\ err \notin {"SYS", "FW_UNKNOWN"}

\* An undisturbed walk ends in a record of the whole tree: no error of its own
\* making keeps the caller from it, and no directory or file is missing from
\* it (jfs_fw_state_step, fw_push_dir_paths, jfs_fw_record_init).
QuietWalkRecordsAll == []Undisturbed => <>(pc = "report" /\ RecordExact)

=============================================================================
