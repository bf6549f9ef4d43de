---------------------------- MODULE MemoryLayout ----------------------------
(***************************************************************************)
(* One allocation for a header and several components                      *)
(* (src/modules/memory_layout_generator.c), and the descriptions that a    *)
(* cache (jfs_lru_make_desc) and a tree (jfs_bst_make_desc) ask for.       *)
(*                                                                         *)
(* A block is a part of the allocation: its offset from the start, which   *)
(* the allocator aligns as asked, and its description.  Sizes count modulo *)
(* SizeMod: the code does not look for overflow.                           *)
(***************************************************************************)
EXTENDS Integers, Sequences

CONSTANTS
  Word,        \* the size and alignment of a pointer and of size_t
  SizeMod,     \* size_t counts modulo this
  DescArgs,    \* what a program passes to the make_desc functions
  HeaderDescs  \* the headers a program asks for

Part == {"lru", "tree"}

\* A power of two: a number that no odd number but 1 divides.
PowerOfTwo(n) == n > 0 /\ \A d \in 2..n : n % d = 0 => d % 2 = 0

Size == 0..(SizeMod - 1)

ASSUME LayoutAssumption ==
  /\ Word \in Nat /\ PowerOfTwo(Word)
  /\ SizeMod \in Nat /\ SizeMod > 12 * Word
  /\ DescArgs \cup HeaderDescs \subseteq [size : Size, align : Size, count : Size]

VARIABLES
  asked,   \* asked[c]: the arguments of the make_desc function of component c
  desc,    \* desc[c]: the description of component c, all zero if there is none
  memory,  \* the allocation: size, alignment, blocks, and whether its sizes
           \* were computed without overflow; no blocks for NULL
  status   \* what the last of these calls reported, or "assert"

layoutVars == <<asked, desc, memory, status>>

Desc(size, align, count) == [size |-> size, align |-> align, count |-> count]

ZeroDesc == Desc(0, 0, 0)

NullMemory == [size |-> 0, align |-> 0, blocks |-> <<>>, fits |-> TRUE]

ValidAlign(a) == PowerOfTwo(a)

ValidDesc(d) == ValidAlign(d.align) /\ d.size > 0 /\ d.count > 0

\* Mutant: the size is taken as it is.
AlignSizeNot(size, align) == size

AlignSize(size, align) ==
  LET s == (size + align - 1) % SizeMod IN s - (s % align)

\* Mutant: an array takes the room of one object.
ExtentOne(d) == d.size

Extent(d) == d.size * d.count

\* jfs_mlg_append of a block with description d to the blocks so far: result
\* records a failed assert, fits that no sum or product wrapped around.
AppendBlock(acc, name, d) ==
  LET offset == AlignSize(acc.size, d.align)
      end == offset + Extent(d)
  IN  [size   |-> end % SizeMod,
       align  |-> IF d.align > acc.align THEN d.align ELSE acc.align,
       blocks |-> Append(acc.blocks, [name |-> name, ptr |-> offset, desc |-> d]),
       fits   |-> acc.fits /\ acc.size + d.align <= SizeMod /\ end < SizeMod,
       result |-> IF acc.size > 0 /\ ValidDesc(d) THEN acc.result ELSE "assert"]

\* jfs_mlg_memory_t, which every allocation starts with.
MemoryBlock == [name |-> "memory", ptr |-> 0, desc |-> Desc(3 * Word, Word, 1)]

\* ... the list of the n components, and the header.
Fixed(header, n) ==
  LET struct == [size |-> 3 * Word, align |-> Word, blocks |-> <<MemoryBlock>>,
                 fits |-> TRUE, result |-> "OK"]
  IN  AppendBlock(AppendBlock(struct, "list", Desc(4 * Word, Word, n)),
                  "header", header)

\* A turn of the loop over the components: an invalid description ends it.
AppendPart(acc, c) ==
  IF acc.result # "OK" THEN acc
  ELSE IF ~ValidDesc(desc[c]) THEN [acc EXCEPT !.result = "BAD_CONF"]
  ELSE AppendBlock(acc, c, desc[c])

\* The blocks after each turn.
Laid(header, parts) ==
  LET laid[n \in 0..Len(parts)] ==
        IF n = 0 THEN Fixed(header, Len(parts))
        ELSE AppendPart(laid[n - 1], parts[n])
  IN  laid

\* The size of jfs_bst_node_t.
NodeSize == 4 * Word

\* Mutant: the room for the node is not aligned for the objects.
BstDescPacked(a) ==
  Desc((NodeSize + Extent(a)) % SizeMod,
       IF a.align > Word THEN a.align ELSE Word, 1)

\* jfs_bst_make_desc: a node and all its objects.
BstDesc(a) ==
  Desc((AlignSize(NodeSize, a.align) + Extent(a)) % SizeMod,
       IF a.align > Word THEN a.align ELSE Word, 1)

\* jfs_lru_make_desc: one slot more.
LruDesc(a) == Desc(a.size, a.align, (a.count + 1) % SizeMod)

LayoutInit ==
  /\ asked = [c \in Part |-> ZeroDesc] /\ desc = [c \in Part |-> ZeroDesc]
  /\ memory = NullMemory
  /\ status = "OK"

\* A make_desc function returns d, or an error and an empty description.
Describe(c, a, d, valid) ==
  /\ status = "OK" /\ memory = NullMemory /\ desc[c] = ZeroDesc
  /\ asked' = [asked EXCEPT ![c] = a]
  /\ desc' = [desc EXCEPT ![c] = IF valid THEN d ELSE ZeroDesc]
  /\ status' = IF valid THEN "OK" ELSE "ARG"
  /\ UNCHANGED memory

LruMakeDesc(a) == Describe("lru", a, LruDesc(a), ValidDesc(LruDesc(a)))

BstMakeDesc(a) == Describe("tree", a, BstDesc(a), ValidDesc(a))

\* jfs_mlg_memory_init.  An assert of jfs_mlg_append stops the process, and so
\* does the one of jfs_mlg_apply_offset at the end, for an offset that wrapped
\* around to 0.
MemoryInit(header, parts) ==
  LET laid == Laid(header, parts)[Len(parts)]
      wrapped == \E i \in 2..Len(laid.blocks) : laid.blocks[i].ptr = 0
  IN
  /\ status \in {"OK", "ARG"} /\ memory = NullMemory
  /\ \/ ~ValidDesc(header) /\ status' = "BAD_CONF" /\ UNCHANGED memory
     \/ /\ ValidDesc(header) /\ laid.result # "OK"
        /\ status' = laid.result /\ UNCHANGED memory
     \/ /\ ValidDesc(header) /\ laid.result = "OK" /\ wrapped
        /\ status' = "assert" /\ UNCHANGED memory
     \/ /\ ValidDesc(header) /\ laid.result = "OK" /\ ~wrapped
        /\ memory' = [size |-> laid.size, align |-> laid.align,
                      blocks |-> laid.blocks, fits |-> laid.fits]
        /\ status' = "OK"
  /\ UNCHANGED <<asked, desc>>

\* jfs_malloc or jfs_aligned_alloc fails.
MemoryInitError(header, parts) ==
  /\ parts # <<>>
  /\ status \in {"OK", "ARG"} /\ memory = NullMemory /\ ValidDesc(header)
  /\ status' = "SYS"
  /\ UNCHANGED <<asked, desc, memory>>

\* The orders in which a program can lay out the components.
PartOrders == {<<>>} \cup {<<c>> : c \in Part} \cup {<<"lru", "tree">>, <<"tree", "lru">>}

LayoutNext ==
  \/ \E a \in DescArgs : LruMakeDesc(a) \/ BstMakeDesc(a)
  \/ \E header \in HeaderDescs, parts \in PartOrders :
       MemoryInit(header, parts) \/ MemoryInitError(header, parts)

-----------------------------------------------------------------------------
(* Properties.                                                              *)

Blocks == {memory.blocks[i] : i \in 1..Len(memory.blocks)}

\* Where object i of block b starts: jfs_mb_index and fl_link_memory.
CellAt(b, i) == b.ptr + i * b.desc.size

\* The objects of block b: the block, the first byte and the one behind.
Cells(b) ==
  {<<b.name, CellAt(b, i), CellAt(b, i + 1)>> : i \in 0..(b.desc.count - 1)}

\* No two objects that the code places in an allocation share a byte, and all
\* lie inside it, whatever the descriptions and their order: the struct, the
\* component list, the header, the slots of a cache (jfs_mb_index) and the
\* nodes of a tree (fl_link_memory), as long as no size overflows
\* (jfs_mlg_append, jfs_mlg_memory_init).
BlocksApart ==
  LET cells == UNION {Cells(b) : b \in Blocks} IN
  memory.fits =>
    \A x \in cells : /\ x[3] <= memory.size
                    /\ \A y \in cells \ {x} : x[3] <= y[2] \/ y[3] <= x[2]

\* Every block is aligned as its description asks, and so are all its objects
\* if their size is a multiple of the alignment, which nothing in the code
\* looks at; the allocation is aligned for each of its blocks
\* (jfs_mlg_align_size, jfs_mlg_append).
BlocksAligned ==
  \A b \in Blocks :
    /\ b.ptr % b.desc.align = 0 /\ memory.align % b.desc.align = 0
    /\ b.desc.size % b.desc.align = 0 =>
         \A x \in Cells(b) : x[2] % b.desc.align = 0

\* A node with the values that a describes has a size.
DescFits(a) ==
  /\ NodeSize + a.align <= SizeMod
  /\ AlignSize(NodeSize, a.align) + a.size * a.count < SizeMod

\* "we can reverse out the offset so we don't save it" (jfs_bst_make_desc):
\* value_offset and value_size, which jfs_bst_init computes from the component,
\* are the room that jfs_bst_make_desc put behind the node, as long as the size
\* of the node with its values does not overflow.
OffsetReversed ==
  LET a == asked["tree"] IN
  \A b \in Blocks : b.name = "tree" /\ DescFits(a) =>
    LET valueOffset == AlignSize(NodeSize, b.desc.align) IN
      /\ b.desc.size - valueOffset = a.size * a.count
      /\ valueOffset % a.align = 0

=============================================================================
