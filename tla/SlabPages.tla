------------------------------ MODULE SlabPages ------------------------------
(***************************************************************************)
(* Where the slabs and objects of src/modules/old_thread_safe_slab.c lie:  *)
(* the sizes that tss_slab_config_init computes, the mapping that          *)
(* tss_aligned_mmap trims, and the way from an object to its slab.         *)
(* ThreadSafeSlab takes for granted what is checked here: that a slab has  *)
(* its objects to itself and that find_slab tells whose they are.          *)
(*                                                                         *)
(* Several allocators share the address space; each maps one slab at a     *)
(* time, under its lock.  munmap frees the pages it is told to, whosever   *)
(* they are.                                                               *)
(***************************************************************************)
EXTENDS Integers, FiniteSets, FiniteSetsExt, Bitwise

CONSTANTS
  Allocator,   \* the allocators of the process
  Nobody,      \* the owner of a page that is not mapped
  Programs,    \* programs: the configuration of each allocator
  MaxSlabs,    \* bound: the slabs that exist or are being mapped
  Pages,       \* the pages of the address space are 1..Pages
  PageSize,    \* TSS_PAGE_SIZE
  HeaderSize,  \* sizeof(tss_slab_t)
  MinObjSize,  \* sizeof(jfs_tss_obj_t)
  Bits         \* the bits of size_t

SizeMod == 2^Bits

ASSUME PagesAssumption ==
  /\ Nobody \notin Allocator /\ IsFiniteSet(Allocator)
  /\ {MaxSlabs, Pages, PageSize, HeaderSize, MinObjSize, Bits} \subseteq Nat \ {0}
  /\ 2 * Pages * PageSize < SizeMod
  /\ Programs \subseteq
       [Allocator -> [obj_size : Nat, obj_align : Nat, pages : Nat \ {0},
                      retire_threshold : Nat]]

VARIABLES
  conf,    \* conf[a]: the configuration a was created with
  pc,      \* pc[a]: "new", "idle", or where a is in tss_aligned_mmap
  raw,     \* raw[a]: raw_addr
  slabs,   \* slabs[a]: the addresses of the slabs of a
  owner,   \* owner[p]: the allocator that mapped page p
  fault    \* the assert that stopped the process

vars == <<conf, pc, raw, slabs, owner, fault>>

-----------------------------------------------------------------------------
(* tss_slab_config_init *)

\* x & ~(m - 1), which is a rounding down if m is a power of two.
Masked(x, m) == x - (x & (m - 1))

\* (x + m - 1) & ~(m - 1).
RoundUp(x, m) == Masked(x + m - 1, m)

PaddedObjSize(c) ==
  RoundUp(IF c.obj_size > MinObjSize THEN c.obj_size ELSE MinObjSize, c.obj_align)

SlabSize(c) == c.pages * PageSize

\* Mutant: the objects start right behind the header.
SlabOffsetBare(c) == HeaderSize

SlabOffset(c) == RoundUp(HeaderSize, c.obj_align)

\* slab_size - slab_offset, which may wrap around.
SlabRest(c) == (SlabSize(c) - SlabOffset(c)) % SizeMod

\* Mutant: the division rounds up.
ObjPerSlabUp(c) == (SlabRest(c) + PaddedObjSize(c) - 1) \div PaddedObjSize(c)

ObjPerSlab(c) == SlabRest(c) \div PaddedObjSize(c)

\* The first assert of tss_slab_config_init that fails.
ConfigFault(c) ==
  IF c.obj_align = 0 THEN "obj_align"
  ELSE IF SlabOffset(c) % c.obj_align # 0 THEN "slab_offset"
  ELSE IF SlabRest(c) % c.obj_align # 0 THEN "slab_rest"
  ELSE IF ObjPerSlab(c) = 0 THEN "obj_per_slab"
  ELSE IF ObjPerSlab(c) <= c.retire_threshold THEN "retire_threshold"
  ELSE "none"

-----------------------------------------------------------------------------
(* tss_aligned_mmap and find_slab *)

AlignedAddr(a) == RoundUp(raw[a], SlabSize(conf[a]))

\* Mutant: the mask is that of a page.
FindSlabPage(c, obj) == Masked(obj, PageSize)

FindSlab(c, obj) == Masked(obj, SlabSize(c))

\* The pages of the bytes from addr to addr + len.
PagesIn(addr, len) ==
  {p \in 1..Pages : addr <= p * PageSize /\ p * PageSize < addr + len}

\* The objects that tss_slab_link_block puts on the list of slab s.
Objects(c, s) ==
  {s + SlabOffset(c) + i * PaddedObjSize(c) : i \in 0..(ObjPerSlab(c) - 1)}

Munmap(addr, len) ==
  owner' = [p \in 1..Pages |-> IF p \in PagesIn(addr, len) THEN Nobody ELSE owner[p]]

\* How many slabs exist, and how many tss_aligned_mmap is at work on.
Mapped ==
  MapThenSumSet(LAMBDA a : Cardinality(slabs[a])
                             + IF pc[a] \in {"mapped", "trimmed"} THEN 1 ELSE 0,
                Allocator)

Running(a, p) == fault = "none" /\ pc[a] = p

Init ==
  /\ conf \in Programs
  /\ pc = [a \in Allocator |-> "new"] /\ raw = [a \in Allocator |-> 0]
  /\ slabs = [a \in Allocator |-> {}]
  /\ owner = [p \in 1..Pages |-> Nobody]
  /\ fault = "none"

\* tss_slab_config_init.
ConfigInit(a) ==
  /\ Running(a, "new")
  /\ fault' = ConfigFault(conf[a])
  /\ pc' = [pc EXCEPT ![a] = "idle"]
  /\ UNCHANGED <<conf, raw, slabs, owner>>

\* tss_aligned_mmap: the kernel finds room for two slabs, anywhere.
Mmap(a) ==
  /\ Running(a, "idle") /\ Mapped < MaxSlabs
  /\ \E p \in 1..Pages :
       LET room == p..(p + 2 * conf[a].pages - 1) IN
       /\ room \subseteq 1..Pages /\ \A q \in room : owner[q] = Nobody
       /\ owner' = [q \in 1..Pages |-> IF q \in room THEN a ELSE owner[q]]
       /\ raw' = [raw EXCEPT ![a] = p * PageSize]
  /\ pc' = [pc EXCEPT ![a] = "mapped"]
  /\ UNCHANGED <<conf, slabs, fault>>

\* There is no room: jfs_mmap fails and tss_slab_create with it.
MmapError(a) == Running(a, "idle") /\ UNCHANGED vars

\* The asserts on the addresses, and the first munmap.
TrimLeading(a) ==
  LET trim == (AlignedAddr(a) - raw[a]) % SizeMod IN
  /\ Running(a, "mapped")
  /\ IF AlignedAddr(a) % SlabSize(conf[a]) # 0 \/ trim % PageSize # 0
     THEN fault' = "aligned_addr" /\ UNCHANGED <<pc, owner>>
     ELSE /\ pc' = [pc EXCEPT ![a] = "trimmed"]
          /\ Munmap(raw[a], trim)
          /\ UNCHANGED fault
  /\ UNCHANGED <<conf, raw, slabs>>

\* Mutant: the second munmap gives back as much as the first.
TrailingTrimLeading(a) == AlignedAddr(a) - raw[a]

TrailingTrim(a) ==
  (raw[a] + 2 * SlabSize(conf[a])) - (AlignedAddr(a) + SlabSize(conf[a]))

\* The second munmap; then tss_slab_create links the objects and the slab
\* goes to the active list.
TrimTrailing(a) ==
  /\ Running(a, "trimmed")
  /\ Munmap(AlignedAddr(a) + SlabSize(conf[a]), TrailingTrim(a))
  /\ slabs' = [slabs EXCEPT ![a] = @ \cup {AlignedAddr(a)}]
  /\ pc' = [pc EXCEPT ![a] = "idle"] /\ raw' = [raw EXCEPT ![a] = 0]
  /\ UNCHANGED <<conf, fault>>

\* tss_slab_destroy.
SlabDestroy(a) ==
  /\ Running(a, "idle")
  /\ \E s \in slabs[a] :
       /\ Munmap(s, SlabSize(conf[a]))
       /\ slabs' = [slabs EXCEPT ![a] = @ \ {s}]
  /\ UNCHANGED <<conf, pc, raw, fault>>

Stopped == fault # "none" /\ UNCHANGED vars

Next ==
  \/ \E a \in Allocator :
       ConfigInit(a) \/ Mmap(a) \/ MmapError(a) \/ TrimLeading(a)
         \/ TrimTrailing(a) \/ SlabDestroy(a)
  \/ Stopped

Spec == Init /\ [][Next]_vars

-----------------------------------------------------------------------------
(* Properties. *)

PowerOfTwo(n) == \E i \in 0..(Bits - 1) : n = 2^i

\* The pages that a should have: its slabs, and what tss_aligned_mmap has
\* mapped and not given back yet.
PagesOf(a) ==
  UNION {PagesIn(s, SlabSize(conf[a])) : s \in slabs[a]}
    \cup CASE pc[a] = "mapped"  -> PagesIn(raw[a], 2 * SlabSize(conf[a]))
           [] pc[a] = "trimmed" -> PagesIn(AlignedAddr(a),
                raw[a] + 2 * SlabSize(conf[a]) - AlignedAddr(a))
           [] OTHER             -> {}

\* The two trims of tss_aligned_mmap and the munmap of tss_slab_destroy give
\* back every page but those of the slabs, and no page that another allocator
\* got in the meantime.
MappingsExact ==
  \A a \in Allocator : {p \in 1..Pages : owner[p] = a} = PagesOf(a)

\* Every configuration that gets past the asserts of tss_slab_config_init makes
\* objects that hold obj_size bytes and the link, are aligned, do not overlap
\* each other or the header, and end before the slab does
\* (tss_slab_link_block).
ObjectsFit ==
  \A a \in Allocator : \A s \in slabs[a] :
    LET c == conf[a] IN
    /\ \A o \in Objects(c, s) :
         /\ o % c.obj_align = 0
         /\ o >= s + HeaderSize /\ o + PaddedObjSize(c) <= s + SlabSize(c)
    /\ PaddedObjSize(c) >= c.obj_size /\ PaddedObjSize(c) >= MinObjSize

\* tss_allocator_find_slab leads from every object to the slab it was linked
\* into, if pages_per_slab is a power of two, which no assert demands.
FindsSlab ==
  \A a \in Allocator : \A s \in slabs[a] :
    PowerOfTwo(conf[a].pages) =>
      \A o \in Objects(conf[a], s) : FindSlab(conf[a], o) = s

\* With powers of two, the asserts on rounded sizes and addresses never fail:
\* what tss_slab_config_init refuses is an alignment above the slab's size, or
\* a slab too small for its objects.
RoundingAssertsHold ==
  (\A a \in Allocator : PowerOfTwo(conf[a].pages) /\ PowerOfTwo(conf[a].obj_align))
    => /\ fault \notin {"slab_offset", "aligned_addr"}
       /\ fault = "slab_rest" =>
            \E a \in Allocator : conf[a].obj_align > SlabSize(conf[a])

=============================================================================
