# A TLA+ verification of filesync

Models of the parts of filesync that are written out, the TLC runs that check
them on small instances, and machine-checked proofs about the directory walk,
the slab allocator, the two programs over their connection, the reads and writes
of whole buffers, and the cache with the memory it is laid out in.

## The system

| part | source | what it does | here |
|---|---|---|---|
| file_walk | `src/modules/file_walk.c` | walks a directory tree, one directory per step, into a record | `FileWalk`, `FileWalkProofs` |
| old_thread_safe_slab | `src/modules/old_thread_safe_slab.c` | slab allocator: a cache per thread, shared slabs behind a mutex | `ThreadSafeSlab`, `ThreadSafeSlabProofs`, `SlabPages` |
| net_socket | `src/modules/net_socket.c` | sockets with full-message send and receive | `Session`, `SessionProofs` |
| server, daemon | `src/server/server.c`, `src/daemon/daemon.c` | exchange one message each way over one connection | `Session`, `SessionProofs` |
| file_io | `src/modules/file_io.c` | whole reads and writes; paths and names | `FileIO`, `FileIOProofs`; paths in `FileWalk` |
| memory_layout_generator | `src/modules/memory_layout_generator.c` | one allocation for a header and several components | `MemoryLayout`, `LruCacheProofs` |
| lru_cache, memory_block | `src/modules/lru_cache.c`, `memory_block.c` | a cache in an array of slots | `LruCache`, `RecencyCache`, `LruCacheProofs` |
| binary_search_tree, free_list | `src/modules/binary_search_tree.c`, `free_list.c` | a red-black tree of values, its nodes from a free list | `BinarySearchTree`, `SortedBag` |
| error | `src/modules/error.c` | system calls that report a `jfs_err_t` | the error alternatives of the actions |
| slab_allocator | `src/modules/slab_allocator.c` | unfinished successor of old_thread_safe_slab | not modelled |
| thread_safe_queue, thread_message | `src/modules/` | queue and message router | not modelled |
| test | `src/test/test.c` | drives the walk and the slab allocator | `file_walk_test` is the caller in `FileWalk` |

The walk uses file_io and error, the two programs use net_socket and error, the
cache and the tree ask memory_layout_generator for the memory they live in. Two
compositions matter: the two programs over a connection (`Session`), and a cache
in a component of a laid-out allocation (`LruCache`, which extends
`MemoryLayout`).

## The modules

Asserts are active in the builds, so a failed assert stops the process: it is a
value of the variable `fault` (or of `pc`) after which nothing happens.

**FileWalk.** `jfs_fw_state_step` is one call for its caller and many for the
kernel, so it is split at each system call and allocation: `StepPop`, `OpenDir`,
`ScanEntry`, `PushDirPath`, `CommitDir` and their `...Error` alternatives, which
all go through the label `cleanup` (`StepCleanup`). `PathInit`, `StateCreate`,
`CallerLoop`, `RecordInit`, `StateDestroy` and `RecordFree` are the caller,
`file_walk_test`. `Create`, `Remove` and `Chmod` are other processes that act
between any two steps. A path is the node it names; `heap` holds the live blocks
of the walk, and `startPath` tells whether the path of the caller has its block,
so leaks show.

**ThreadSafeSlab.** `CMakeLists.txt` builds the unfinished slab_allocator in
place of this module, but its code is complete and `test.c` is written for it. A
free list is the set of its objects, and its count is a variable of its own, so
that the two can disagree. A call is one step up to the mutex, since it only
touches the cache of its thread. Under the mutex every turn of a loop is a step.
`size_t` counts modulo `SizeMod`. `mmap` may fail in any turn. The configuration
asserts are the assumption `ConfigAssumption`. The history variable `past`
remembers whether a slab was retired and a cache refreshed: some asserts hold
only until then.

**SlabPages.** What `ThreadSafeSlab` takes for granted: the sizes that
`tss_slab_config_init` computes, with their masks and the asserts on them
(`ConfigFault`), and the mapping of twice the size that `tss_aligned_mmap` trims
to an aligned slab in two `munmap`s. Several allocators of one process share the
address space; the kernel may put a mapping anywhere, also into pages that
another allocator has just trimmed. `FindSlab` is the mask from an object to its
slab. slab_allocator has the same two functions, word for word.

**Session.** Each party runs its `Script` of calls once. TCP delivers bytes in
order in pieces of any size; closing with unread bytes resets the connection.
System calls may fail or be interrupted, and either process may be killed at any
time. `err` of `main` is uninitialised and may start as an error. The history
variable `injured` remembers that something other than an interruption went
wrong.

**FileIO.** `jfs_fio_write` and `jfs_fio_read` at the ends of a pipe. A transfer
may be partial, fail, be interrupted, or meet a closed end. The code does not
reset `*err` after an interruption; `Counted` has what follows from that, and
the history variable `interrupted` tells such calls apart.

**MemoryLayout.** The `make_desc` functions of the cache and the tree, and
`jfs_mlg_memory_init`, which appends descriptions one after the other to an
allocation: `AppendBlock` is `jfs_mlg_append`, `Laid` the blocks after each turn
of the loop. Sizes wrap around modulo `SizeMod`; the asserts on the way are a
status after which nothing happens. A power of two is a number without an odd
divisor but 1, and its mask a remainder. The history field `fits` of the memory
remembers that no size wrapped around on the way: the code does not look, and
`BlocksApart` can only hold then. `OffsetReversed` has the same condition for the
size of one node (`DescFits`).

**LruCache** and **RecencyCache.** The slots of the memory block, in a component
of a `MemoryLayout`, with the `memmove` of `lru_promote`; and what a
least-recently-used cache promises. `LruInit` asks for a memory without overflow
(`fits`): in any other one the slots lie outside the allocation, which the code
does not look for and the model leaves out. The first is shown to implement the
second: the filled slots, read in order, are the keys by their last access. The
callbacks `cmp`, `hit`, `miss` and `evict` belong to the program that uses the
cache and are modelled from how they are called.

**BinarySearchTree** and **SortedBag.** The tree is a record, and rotations,
fixups, insertion and deletion are operators on it; left and right are one
definition with the side as a parameter. The actions are the outcomes of `puts`,
`takes`, `get_smallest` and `get_largest`, with the cache of the two ends and of
the last node, and with the free list. `SortedBag` is what the calls do to the
values; the header has prototypes only, so it is read off the code: a `takes` of
a key in the cache copies the value (`copied`), any other one removes it. The
history variable `astray` has the nodes that a `puts` hung on a node that was not
in use. The code calls `tree->attach` and `tree->detach`, which
`jfs_bst_t` does not have; they are taken to do what the unused
`bst_attach_node` and `bst_detach_node` do, and a value that is put to come with
an empty link.

## The runs

| run | expected | shows |
|---|---|---|
| `walk_faults` | pass | With failing calls and a changing file system: a record is complete and a tree, nothing leaks or is owned twice, no vector overruns, and the loop ends unless a directory was skipped; a walk that meets no failure and no change records exactly the tree |
| `walk_skip` | violation | A directory without permission keeps the caller from its record |
| `slab_safe` | pass | Every call, two threads: each object in one place, no slab unmapped under an object, exact counts, no slab lost; until a retirement or a refresh no assert fails and the cache counts are exact |
| `slab_lock` | pass | The mutex is released on every path |
| `slab_retire` | violation | After a retirement `batch_acquire` can fail its own assert |
| `slab_refresh` | violation | A second refresh can fail its assert on the count |
| `slab_pages` | pass | Two allocators: each has exactly the pages of its slabs; objects lie in their slab, aligned and apart, and lead back to it |
| `session` | pass | Whole messages, delivery before a safe shutdown, no descriptor leak, nobody waits for ever; a session that nothing injured completes |
| `file_io` | pass | Bytes in order, success only for a whole transfer, and both calls return unless one is interrupted |
| `lru` | pass | Components do not overlap and are aligned; least-recently-used replacement; every object evicted exactly once |
| `tree` | pass | A balanced search tree with exact ends, every node in one place; no assert fails but after the deletion of the last node; the calls act as on a sorted bag unless they meet a freed `cache.previous` |
| `tree_assert` | violation | Deleting the last node of a tree fails an assert |

### Where the code disagrees with itself

* `walk_skip`: `file_walk.c:170` returns `count == 0`, the reverse of line 161.
  With paths left the loop of `file_walk_test` ends before it sees
  `JFS_ERR_FW_SKIP`; with none left it never ends.
* `slab_retire`: an empty slab that is destroyed stays in `active_list_count`,
  and objects of retired slabs stay in `used_obj_count`. `obj_remaining` is
  wrong, and too few slabs are added.
* `slab_refresh`: `free_list_count` is not lowered when the list is emptied.
* `tree_assert`: `binary_search_tree.c:302` asserts that the last node is the
  root, but `bst_delete` has made the root nil by then. `OtherAssertsHold` says
  that no other assert fails.

Seen while reading, and not the subject of a run:

* `file_walk.c:113` frees vectors that may not be initialised (in the model:
  `StateCreate` may end in `crashed`).
* `file_walk_test` frees its path at the label `cleanup` only: the return at
  `test.c:189` leaves the block allocated. `HeapExact` says that it is freed
  after an error.
* `tss_allocator_retire_slabs` destroys empty slabs also when
  `retire_threshold` is 0, which `old_thread_safe_slab.h:19` says means no
  retirement.
* `jfs_lru_make_desc` adds a slot "for promote algorithm" that becomes part of
  the capacity, so a cache holds one object more than was asked for.
* `server.c:89` destroys `client` also when `accept` was never reached and
  `client` never set (in the model: `CleanupWild`).
* `jfs_fio_read` and `jfs_fio_write` do not reset `*err` after an interruption.
  The loop goes on without counting: it sends or stores at the same place again
  and never ends with success (`OkIsWhole` says so).
* `cache.previous` stays on a node that was freed. A `puts` may then hang its
  value on a node that is not in the tree, and a `takes` may return a value that
  is gone: the second alternative of `ActsAsBag`, `MetFreed`. `OnePlace` says
  that this is the only way a node is lost: such nodes, and no others, are in
  neither the tree nor the free list (`astray`).
* `jfs_bst_takes` of a key in the cache copies the value and leaves it in the
  tree, as `SortedBag` says.
* `bst_insert` and `bst_update_cache_insert` test `cmp` for -1 and 1, `bst_find`
  for its sign. `Less` and `Greater` are constants of the model; with -2 for
  `Less` the tree is no search tree any more.
* `jfs_bst_make_desc` describes one node with all the objects behind it
  (`count` 1), so that the free list of a tree has one node.
* No assert demands that `pages_per_slab` is a power of two. With three pages
  the assert on `aligned_addr` fails for some addresses; for others it holds and
  `find_slab` is wrong. `FindsSlab` is stated for powers of two.

### Bounds

* Walk: ten nodes with every entry type, depth three, one path over `PATH_MAX`
  and one of exactly that length; capacity 1, so that every vector grows; two
  changes by other processes, enough for a change before and after a directory
  is listed. `QuietWalkRecordsAll` speaks of the behaviours in which none of
  this happens, which the fair run has among its own.
* Slabs: two threads, the smallest number that interleaves. `slab_safe` has two
  slabs of three objects with threshold 2, so that a retired slab has several
  objects out at once. The violations have slabs of two objects, and three of
  them, since a third one must be added. Threads and slabs are symmetric;
  `slab_lock` checks liveness and does without symmetry.
* Pages: twelve pages of sixteen bytes, one allocator with any of 91
  configurations beside one with plain slabs, and at most `MaxSlabs` = 2 slabs
  that exist or are being mapped: enough for one to be mapped into pages that
  the other is trimming. The configurations have alignments above the header and
  above the slab, an alignment of three, and slabs of one to three pages. The
  asserts refuse the alignment of three; with a header of this size and with one
  of 32 bytes, as on a 64-bit machine, they refuse every alignment that is no
  power of two.
* Session: messages of five bytes, so that a transfer has a first, several
  middle and a last piece; three interruptions.
* FileIO: sizes up to four and a pipe of three bytes, so that a write must wait
  for a read.
* Layout and cache: `size_t` modulo `SizeMod` = 512, so that sums and products
  overflow, also to an offset of exactly 0; sizes that are no multiple of their
  alignment; every order of components. Four keys, and capacities of one and
  three.
* Tree: eight keys and eight nodes, so that a fixup rotates at the root, in the
  middle and at the bottom. Values with one key multiply the states without new
  shapes: up to `MaxMixed` = 5 nodes in use, any number of them may be behind
  others or astray; with more, all are in the tree (`RoomAside`). TLC compares
  states by `TreeView`, which leaves out which address a node has: no call
  depends on it.

### Fairness

* Walk: weak fairness of the walking thread alone; nothing is assumed of others.
* Slabs: weak fairness of a thread that holds the mutex. A pthread mutex
  promises no thread its turn, so no property says that a waiting thread gets it.
* Session: weak fairness of both processes and of the delivery of bytes. Failing
  calls, interruptions and kills are not fair: no property holds because a
  failure is bound to come.
* FileIO: weak fairness of each call's own steps; failures and interruptions are
  not fair.

## The proofs

`FileWalkProofs` proves, for every file system, path length, capacity, set of
failing calls and number of changes, that `TypeOK`, `RecordClosed`,
`RecordIsTree`, `SingleOwner`, `VectorsInBounds` and `HeapExact` are invariants
of `Spec`.
The assumptions are `NodeAssumption` and `BoundAssumption` of `FileWalk`.

The properties speak of the finished record and are not inductive. `IInv` says
where the record comes from: `dirVec` is a tree (`Tree`), every known path hangs
on it or on the listing that is being pushed (`Hanging`), and every listed
directory is still in `pathVec`, recorded, being read or skipped (`Closed`).
The last two hold only while no step has failed for good (`Clean`): a failed push
leaves paths behind whose parent is never recorded. `Control` shows that such a
state never becomes a record, because `RecordInit` needs an empty `pathVec`.
`Listings` says that a listing has each entry once, from which `SingleOwner`
follows. There is one lemma per action, and `Invariance` combines them.

`HeapExact` (what is allocated is what somebody owns) needs to know who owns what
at each place. `Handed` says that the state has its vectors until they are handed
over or freed, and the record only while the caller has it, so the owned blocks
are three disjoint parts: those of the vectors (`Kept`), of the state itself,
and of the running step (`Taken`). A step that frees or moves blocks is exact
because the parts are disjoint; for the directory being read this is
`SingleOwner` again (`StepApart`). `Lent` is the part of `HeapExact` about the
caller's path, and rests on `Control`: an error reaches the end of the caller
only through its cleanup.

`FileIOProofs` proves that `BytesInOrder` and `OkIsWhole` are invariants of
`Spec`, for calls of every size over a pipe of every capacity, from
`IOAssumption`. `BytesInOrder` says of uninterrupted calls where every byte is,
and a step of one end moves bytes that the other end has numbered, so it is
inductive with the bounds of `TypeOK` and with `InterSticks`: the error is
`JFS_ERR_INTER` only after an interruption, and `JFS_OK` never again after one.
Without the first half a transfer could go uncounted in a call that was never
interrupted; `OkIsWhole` rests on the second. `IInv` is the conjunction of the
four.

`ThreadSafeSlabProofs` proves that `TypeOK`, `ObjectsInOnePlace`,
`SlabsOutlastObjects`, `CountsExact`, `SlabsAccountedFor`, `CacheCountExact` and
`AssertsHold` are invariants of `Spec`, for any number of threads, any
configuration that `tss_slab_config_init` and `tss_cache_config_init` accept
(`ConfigAssumption`) and an address space whose objects a `size_t` can count
(`SizeAssumption`). The first five need each other. A release may unmap a slab,
which is safe because `used_count` is exact; the count is exact, and the
subtraction does not wrap, because the object was out only once and its slab is
mapped. `IInv`, in `ThreadSafeSlabInv`, has two halves. `Slabs` says what the
lists, free lists and counters of the slabs are, and sees the threads only
through `Out`, the set of objects that are out. `Apart` says that no object is
out twice. `Moved` then gives `Out'` for every step of a thread, and most calls
leave it as it is (`Rearranged`). `Control` adds that a thread outside a call has
an empty batch, and that none is inside after `jfs_tss_allocator_destroy`. The
mutex plays no part in this: every turn of a loop under it keeps `IInv` by
itself, and that a turn is one step is what the mutex provides.

`CacheCountExact` needs to know that `tss_batch_unload` has room. `Cached`, in
`ThreadSafeSlabCaches`, says what a cache and a batch hold at each place of a
call: the cache of a `jfs_tss_alloc` under way is empty and its batch is within
`cache_acquire`, and any other call unlocks with an empty batch. It holds until
the first refresh, whose call unloads whatever it took.

`AssertsHold` is about supply. The asserts of `batch_acquire` hold if the free
objects of the mapped slabs are enough for the target, also after other threads
have had their turns. `AInv`, in `ThreadSafeSlabAsserts`, says that only the
holder is under the mutex (`Mutex`), that while nothing is retired
`active_list_count` is the number of mapped slabs (`ActiveExact`), so that
`obj_remaining` is the number of free objects (`Free`), and for the holder
(`Supply`): the slabs it has still to add make up for the objects that are
missing, and those it has passed while loading are empty. The lemmas under it
count objects: a slab that is added brings `obj_per_slab` of them, a load takes
from `Free` what it adds to the batch, and the division of `batch_acquire` is
rounded up. Here the mutex matters, since no other thread may take what was
counted.

`SessionProofs` proves that `MessagesIntact`, `SafeShutdownDelivers` and
`SocketsExact` are invariants of `Spec`, for messages of every length, any number
of interruptions, and any choice of calls that may fail and of parties that may
be killed, from the assumptions of `Session`. None of the three is inductive.
`Stream` follows the bytes from one program to the other: until the message is
printed, those received and those under way continue one another, and reach as
far as the sender's count; afterwards nothing is left of them. `Sockets` adds to
`SocketsExact` what is in each pointer at each call, so that no open descriptor
is overwritten and only sockets that were set are destroyed. `Told` follows the
end of a stream: who has ended its stream has read the other's message or failed,
and who reports a safe shutdown has seen the other's stream end. `IInv` is the
three with the types, which `SessionProofs` states as well.

`LruCacheProofs` proves that `BlocksApart`, `BlocksAligned`, `OffsetReversed` and
`ObjectsEvictedOnce` are invariants of `Spec`, and that `Spec` implements
`RecencyCache` (`KeepsMostRecent`), for every size of a pointer that is a power
of two, every `SizeMod` above twelve pointers, any descriptions and any keys,
from `LayoutAssumption` and `LruAssumption`. `IInv` has a part for the layout, a
part for the cache, and `ObjectsEvictedOnce` itself.

* `LayoutInv` says that a memory is `Placed`: each block is aligned, lies behind
  the ones before it and ends inside the memory, the last two unless a size
  overflowed; and that the description of a tree is the one `BstDesc` made. That
  the loop of `jfs_mlg_memory_init` lays out such a memory (`AllLaid`) is an
  induction over its turns: the set of turns after which it does not has no least
  element (`Least`, `Induction`). An allocation aligned for its largest block is
  aligned for every other one because a power of two divides each larger one
  (`PowersDivide`, the same kind of induction, on halves). `OffsetReversed` needs
  it as well: `jfs_bst_init` aligns the node for the description of the whole,
  `jfs_bst_make_desc` for the values, and the two agree because the size of a
  node is a multiple of every alignment up to that of a pointer.
* `CacheInv` says that the filled slots come first and hold each key at most
  once, without which a promotion could double an object or leave one behind.
  Every outcome of `jfs_lru_access` is a `Shift`: one slot becomes the first and
  those before it move down (`PromoteIs` says so of the `memmove` and the write).
  `ShiftInv` shows once what that does to the keys in the cache; a hit, a miss
  with room and a miss without differ only in the slot.
* For the refinement, the sequence of the filled slots after a `Shift` is the key
  followed by the others in their old order (`RecentNext`, `CutOut`), which is
  what `Access` of `RecencyCache` asks for. All other steps stutter, start the
  abstract cache or free it.

Only model-checked, and why:

* All liveness properties (`WalkReturns`, `LockReleased`, `ConnectionEnds`,
  `SessionCompletes`, `CallsReturn`): the prover does not reach fairness.
* `SlabPages`, whose masks are bitwise operations, and `BinarySearchTree`, whose
  fixups are recursive operators on the tree: the prover reaches neither.
* `QuietWalkRecordsAll`, a temporal property.

## Not modelled

* thread_safe_queue: `jfs_tsq_chunk_enqueue` breaks off in the middle of a
  statement. thread_message calls functions of it that do not exist. Neither is
  in the build.
* slab_allocator: `sa_config_init` fails for every configuration
  (`slab_allocator.c:143` refuses a slab that is large enough),
  `sa_slab_link_batches` breaks off, and the calls that would change state are
  prototypes only.
* The wrappers of `pthread` and `eventfd` calls in error, which only
  thread_safe_queue calls.
* The characters of paths and names, addresses of sockets, wording of logs, and
  timing.

## Plan

1. Proofs: `SlabPages` with its masks as remainders, as `MemoryLayout` has them;
   `SearchTree` and `OnePlace` with the fixups of the tree as steps.
2. Abstract specifications: an allocator that hands each object to one owner,
   implemented by `ThreadSafeSlab`; a traversal, implemented by `FileWalk`.
3. slab_allocator and thread_safe_queue once their code is complete.
