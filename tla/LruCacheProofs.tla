--------------------------- MODULE LruCacheProofs ---------------------------
(***************************************************************************)
(* MemoryLayout and LruCache for every size_t, every description, any      *)
(* header, and keys of any number.                                         *)
(***************************************************************************)
EXTENDS LruCache, FiniteSetTheorems, TLAPS

\* The provers of a leaf that names none, in this order.
USE SMTT(20), Z3T(20), ZenonT(20)

-----------------------------------------------------------------------------
(* Numbers.                                                                 *)

\* A set of natural numbers has a least one.
LEMMA Least ==
  ASSUME NEW T \in SUBSET Nat, T # {}
  PROVE  \E n \in T : \A m \in T : n <= m
<1> DEFINE R == {ss \in Nat \X Nat : ss[1] < ss[2]}
<1>1. IsWellFoundedOn(R, Nat)
  BY NatLessThanWellFounded, Zenon DEF OpToRel
<1>2. \A m, n \in Nat : m < n => <<m, n>> \in R
  OBVIOUS
<1> HIDE DEF R
<1>3. PICK n \in T : \A m \in T : <<m, n>> \notin R
  BY <1>1, WFMin, Zenon
<1>4. ASSUME NEW m \in T PROVE n <= m
  <2>1. m \in Nat /\ n \in Nat /\ <<m, n>> \notin R
    BY <1>3
  <2>2. ~(m < n)
    BY <1>2, <2>1
  <2> QED
    BY <2>1, <2>2
<1> QED
  BY <1>4

\* Induction, with a set in place of a predicate.
LEMMA Induction ==
  ASSUME NEW T, 0 \in T, \A n \in Nat : n \in T => n + 1 \in T
  PROVE  Nat \subseteq T
<1> SUFFICES ASSUME Nat \ T # {} PROVE FALSE
  OBVIOUS
<1>1. PICK n \in Nat \ T : \A m \in Nat \ T : n <= m
  BY Least, Zenon
<1>2. n - 1 \in Nat \ T
  BY <1>1
<1> QED
  BY <1>1, <1>2

\* What it is to be a multiple.
LEMMA Multiple ==
  ASSUME NEW n \in Nat, NEW a \in Nat \ {0}
  PROVE  /\ n % a \in 0..(a - 1) /\ n % a <= n
         /\ (n - (n % a)) % a = 0
         /\ n % a = 0 <=> \E q \in Nat : n = q * a
<1>1. n % a \in 0..(a - 1) /\ n \div a \in Nat
  OBVIOUS
<1>2. n = (n \div a) * a + (n % a)
  OBVIOUS
<1>3. \A q \in Nat : (q * a) % a = 0
  OBVIOUS
<1>4. n - (n % a) = (n \div a) * a /\ (n \div a) * a \in Nat
  BY <1>1, <1>2
<1>5. ASSUME n % a = 0 PROVE \E q \in Nat : n = q * a
  BY <1>1, <1>2, <1>5
<1>6. n % a <= n
  BY <1>1, <1>4
<1>7. (n - (n % a)) % a = 0
  BY <1>1, <1>3, <1>4
<1> QED
  BY <1>1, <1>3, <1>5, <1>6, <1>7, Zenon

\* What is left of a number that is not one.
LEMMA Remainder ==
  ASSUME NEW q \in Nat, NEW a \in Nat \ {0}, NEW r \in 0..(a - 1)
  PROVE  (q * a + r) % a = r
  OBVIOUS

\* What multiples are closed under.
LEMMA MultipleSum ==
  ASSUME NEW a \in Nat \ {0}, NEW m \in Nat, NEW n \in Nat, NEW i \in Nat,
         m % a = 0, n % a = 0
  PROVE  (m + i * n) % a = 0
<1>1. PICK p \in Nat : m = p * a
  BY Multiple, Zenon
<1>2. PICK q \in Nat : n = q * a
  BY Multiple, Zenon
<1>3. p + i * q \in Nat /\ m + i * n \in Nat
  OBVIOUS
<1>4. m + i * n = (p + i * q) * a
  BY <1>1, <1>2
<1> QED
  BY <1>3, <1>4, Multiple

\* A multiple of a multiple.
LEMMA MultipleTrans ==
  ASSUME NEW a \in Nat \ {0}, NEW b \in Nat \ {0}, NEW n \in Nat,
         b % a = 0, n % b = 0
  PROVE  n % a = 0
<1>1. PICK p \in Nat : b = p * a
  BY Multiple, Zenon
<1>2. PICK q \in Nat : n = q * b
  BY Multiple, Zenon
<1>3. q * p \in Nat /\ n = (q * p) * a
  BY <1>1, <1>2
<1> QED
  BY <1>3, Multiple

\* Half a power of two is one.
LEMMA Half ==
  ASSUME NEW n \in Nat, PowerOfTwo(n), n # 1
  PROVE  \E h \in Nat : n = 2 * h /\ PowerOfTwo(h)
<1>1. n \in 2..n /\ n % n = 0
  BY DEF PowerOfTwo
<1>2. n % 2 = 0
  BY <1>1 DEF PowerOfTwo
<1>3. PICK h \in Nat : n = 2 * h
  BY <1>2
<1>4. ASSUME NEW d \in 2..h, h % d = 0 PROVE d % 2 = 0
  <2>1. n % d = 0
    <3>1. d \in Nat \ {0}
      OBVIOUS
    <3>2. PICK q \in Nat : h = q * d
      BY <1>4, <3>1, Multiple, Zenon
    <3>3. 2 * q \in Nat /\ n = (2 * q) * d
      BY <1>3, <3>1, <3>2
    <3> QED
      BY <3>1, <3>3, Multiple, Zenon
  <2>2. d \in 2..n
    BY <1>3
  <2> QED
    BY <2>1, <2>2 DEF PowerOfTwo
<1> QED
  BY <1>1, <1>3, <1>4 DEF PowerOfTwo

\* Of two powers of two, the smaller divides the other.
LEMMA PowersDivide ==
  ASSUME NEW a \in Nat, NEW b \in Nat, PowerOfTwo(a), PowerOfTwo(b), a <= b
  PROVE  b % a = 0
<1> DEFINE Divide(x, y) == PowerOfTwo(x) /\ PowerOfTwo(y) /\ x <= y => y % x = 0
           T == {n \in Nat : \A x, y \in 0..n : Divide(x, y)}
<1>1. 0 \in T
  BY DEF PowerOfTwo
<1>2. ASSUME NEW n \in Nat, n \in T PROVE n + 1 \in T
  <2> SUFFICES ASSUME NEW x \in 0..(n + 1), NEW y \in 0..(n + 1),
                      PowerOfTwo(x), PowerOfTwo(y), x <= y
               PROVE  y % x = 0
    OBVIOUS
  <2>1. CASE x = 1
    BY <2>1
  <2>2. CASE x # 1
    <3>1. PICK g \in Nat : x = 2 * g /\ PowerOfTwo(g)
      BY <2>2, Half
    <3>2. PICK h \in Nat : y = 2 * h /\ PowerOfTwo(h)
      <4>1. y # 1 /\ y \in Nat
        BY <2>2 DEF PowerOfTwo
      <4> QED
        BY <4>1, Half, Zenon
    <3>3. g \in 0..n /\ h \in 0..n /\ g <= h /\ g # 0
      BY <3>1, <3>2 DEF PowerOfTwo
    <3>4. h % g = 0
      BY <1>2, <3>1, <3>2, <3>3
    <3>5. PICK q \in Nat : h = q * g
      BY <3>3, <3>4, Multiple, Zenon
    <3>6. y = q * x
      BY <3>1, <3>2, <3>5
    <3>7. x \in Nat \ {0} /\ y \in Nat
      BY <3>1, <3>3
    <3> QED
      BY <3>6, <3>7, Multiple, Zenon
  <2> QED
    BY <2>1, <2>2
<1>3. b \in T
  <2> HIDE DEF T
  <2> QED
    BY <1>1, <1>2, Induction
<1> QED
  BY <1>3

-----------------------------------------------------------------------------
(* The layout of an allocation.                                             *)

DescType == [size : Nat, align : Nat, count : Nat]

Block == [name : {"memory", "list", "header"} \cup Part, ptr : Nat, desc : DescType]

Layout == [size : Nat, align : Nat, blocks : Seq(Block), fits : BOOLEAN,
           result : {"OK", "assert", "BAD_CONF"}]

\* Where the blocks of m, an allocation or one that is being laid out, lie: each
\* is aligned and behind the ones before it, and m ends behind the last.
Placed(m) ==
  /\ m.size \in Nat /\ m.align \in Nat /\ m.blocks \in Seq(Block)
  /\ PowerOfTwo(m.align)
  /\ \A i \in 1..Len(m.blocks) :
       /\ ValidDesc(m.blocks[i].desc)
       /\ m.blocks[i].ptr % m.blocks[i].desc.align = 0
       /\ m.blocks[i].desc.align <= m.align
       /\ m.blocks[i].name \in Part => m.blocks[i].desc = desc[m.blocks[i].name]
  /\ m.fits => \A i \in 1..Len(m.blocks) :
       /\ m.blocks[i].ptr + Extent(m.blocks[i].desc) <= m.size
       /\ \A j \in 1..Len(m.blocks) : i < j =>
            m.blocks[i].ptr + Extent(m.blocks[i].desc) <= m.blocks[j].ptr

LaidWell(acc) == acc \in Layout /\ (acc.result = "OK" => Placed(acc))

\* jfs_mlg_align_size gives a multiple, and none that is too small unless the
\* sum overflows.
LEMMA AlignSizeIs ==
  ASSUME NEW size \in Nat, NEW align \in Nat \ {0}
  PROVE  /\ AlignSize(size, align) \in Nat
         /\ AlignSize(size, align) % align = 0
         /\ size + align <= SizeMod => AlignSize(size, align) >= size
<1> DEFINE s == (size + align - 1) % SizeMod
<1>1. SizeMod \in Nat \ {0}
  BY LayoutAssumption DEF PowerOfTwo
<1>2. s \in Nat /\ (size + align <= SizeMod => s = size + align - 1)
  BY <1>1
<1>3. AlignSize(size, align) = s - (s % align)
  BY DEF AlignSize
<1> HIDE DEF s
<1>4. s % align \in 0..(align - 1) /\ s % align <= s /\ (s - (s % align)) % align = 0
  BY <1>2, Multiple, Zenon
<1> QED
  BY <1>2, <1>3, <1>4

\* The room of an array.
LEMMA ExtentType ==
  ASSUME NEW d \in DescType
  PROVE  Extent(d) \in Nat
BY DEF DescType, Extent

\* What jfs_mlg_append leaves of the layout, field by field.
LEMMA AppendBlockIs ==
  ASSUME NEW acc \in Layout, NEW name \in {"memory", "list", "header"} \cup Part,
         NEW d \in DescType, d.align # 0
  PROVE  LET offset == AlignSize(acc.size, d.align)
             b == [name |-> name, ptr |-> offset, desc |-> d]
             new == AppendBlock(acc, name, d)
         IN  /\ new \in Layout /\ b \in Block
             /\ new.blocks = Append(acc.blocks, b)
             /\ new.align = IF d.align > acc.align THEN d.align ELSE acc.align
             /\ new.result = "OK" => ValidDesc(d) /\ acc.result = "OK"
             /\ new.fits => /\ acc.fits /\ acc.size <= offset
                            /\ new.size = offset + Extent(d)
<1> DEFINE offset == AlignSize(acc.size, d.align)
           b == [name |-> name, ptr |-> offset, desc |-> d]
           new == AppendBlock(acc, name, d)
<1>1. acc.size \in Nat /\ acc.align \in Nat /\ acc.fits \in BOOLEAN
      /\ acc.blocks \in Seq(Block) /\ acc.result \in {"OK", "assert", "BAD_CONF"}
  BY DEF Layout
<1>2. d.align \in Nat \ {0} /\ Extent(d) \in Nat
  BY ExtentType DEF DescType
<1>3. offset \in Nat /\ (acc.size + d.align <= SizeMod => offset >= acc.size)
  BY <1>1, <1>2, AlignSizeIs, Zenon
<1>4. b \in Block
  BY <1>3 DEF Block
<1>5. SizeMod \in Nat \ {0}
  BY LayoutAssumption DEF PowerOfTwo
<1> HIDE DEF offset, b
<1>6. (offset + Extent(d)) % SizeMod \in Nat
      /\ (offset + Extent(d) < SizeMod =>
             (offset + Extent(d)) % SizeMod = offset + Extent(d))
  BY <1>2, <1>3, <1>5
<1>7. new = [size   |-> (offset + Extent(d)) % SizeMod,
             align  |-> IF d.align > acc.align THEN d.align ELSE acc.align,
             blocks |-> Append(acc.blocks, b),
             fits   |-> acc.fits /\ acc.size + d.align <= SizeMod
                          /\ offset + Extent(d) < SizeMod,
             result |-> IF acc.size > 0 /\ ValidDesc(d) THEN acc.result ELSE "assert"]
  BY DEF offset, b, AppendBlock
<1> HIDE DEF new
<1>8. new \in Layout
  <2>1. Append(acc.blocks, b) \in Seq(Block)
    BY <1>1, <1>4
  <2> QED
    BY <1>1, <1>2, <1>6, <1>7, <2>1 DEF Layout
<1>9. /\ new.blocks = Append(acc.blocks, b)
      /\ new.align = IF d.align > acc.align THEN d.align ELSE acc.align
  BY <1>7
<1>10. new.result = "OK" => ValidDesc(d) /\ acc.result = "OK"
  BY <1>7
<1>11. new.fits => /\ acc.fits /\ acc.size <= offset
                  /\ new.size = offset + Extent(d)
  BY <1>3, <1>6, <1>7, Zenon
<1> QED
  BY <1>4, <1>8, <1>9, <1>10, <1>11, Zenon DEF offset, b, new

\* ... and that it leaves a good layout.
LEMMA AppendBlockLaid ==
  ASSUME NEW acc, LaidWell(acc), NEW name \in {"memory", "list", "header"} \cup Part,
         NEW d \in DescType, d.align # 0, name \in Part => d = desc[name]
  PROVE  LaidWell(AppendBlock(acc, name, d))
<1> DEFINE offset == AlignSize(acc.size, d.align)
           b == [name |-> name, ptr |-> offset, desc |-> d]
           new == AppendBlock(acc, name, d)
<1>1. acc \in Layout /\ acc.size \in Nat /\ acc.align \in Nat
      /\ acc.blocks \in Seq(Block)
  BY DEF LaidWell, Layout
<1>2. /\ new \in Layout /\ b \in Block
      /\ new.blocks = Append(acc.blocks, b)
      /\ new.align = IF d.align > acc.align THEN d.align ELSE acc.align
      /\ new.result = "OK" => ValidDesc(d) /\ acc.result = "OK"
      /\ new.fits => /\ acc.fits /\ acc.size <= offset
                     /\ new.size = offset + Extent(d)
  BY <1>1, AppendBlockIs, Zenon
<1>3. offset \in Nat /\ offset % d.align = 0 /\ d.align \in Nat
  BY <1>1, AlignSizeIs, Zenon DEF DescType
<1>4. b.ptr = offset /\ b.desc = d /\ b.name = name
  OBVIOUS
<1>5. ASSUME new.result = "OK" PROVE Placed(new)
  <2> HIDE DEF offset, b, new
  <2> DEFINE n == Len(acc.blocks)
  <2>1. ValidDesc(d) /\ Placed(acc) /\ PowerOfTwo(d.align)
    BY <1>2, <1>5 DEF LaidWell, ValidDesc, ValidAlign
  <2>2. /\ n \in Nat /\ Len(new.blocks) = n + 1 /\ new.blocks[n + 1] = b
        /\ \A i \in 1..n : new.blocks[i] = acc.blocks[i]
    BY <1>1, <1>2
  <2>3. new.size \in Nat /\ new.align \in Nat /\ new.blocks \in Seq(Block)
    BY <1>2, Zenon DEF Layout
  <2>4. PowerOfTwo(new.align) /\ acc.align <= new.align /\ d.align <= new.align
    BY <1>1, <1>2, <1>3, <2>1 DEF Placed
  <2>5. \A i \in 1..n : acc.blocks[i] \in Block
    BY <1>1
  <2> HIDE DEF n
  <2>6. ASSUME NEW i \in 1..(n + 1)
        PROVE  /\ ValidDesc(new.blocks[i].desc)
               /\ new.blocks[i].ptr % new.blocks[i].desc.align = 0
               /\ new.blocks[i].desc.align <= new.align
               /\ new.blocks[i].name \in Part =>
                    new.blocks[i].desc = desc[new.blocks[i].name]
    <3>1. CASE i = n + 1
      BY <1>3, <1>4, <2>1, <2>2, <2>4, <3>1
    <3>2. CASE i \in 1..n
      <4>1. /\ ValidDesc(acc.blocks[i].desc)
            /\ acc.blocks[i].ptr % acc.blocks[i].desc.align = 0
            /\ acc.blocks[i].desc.align <= acc.align
            /\ acc.blocks[i].name \in Part =>
                 acc.blocks[i].desc = desc[acc.blocks[i].name]
        BY <2>1, <3>2, Zenon DEF Placed, n
      <4>2. acc.blocks[i].desc.align \in Nat
        BY <2>5, <3>2 DEF Block, DescType
      <4>3. acc.blocks[i].desc.align <= new.align
        BY <1>1, <2>3, <2>4, <4>1, <4>2
      <4> QED
        BY <2>2, <3>2, <4>1, <4>3
    <3> QED
      BY <2>2, <3>1, <3>2
  <2>7. ASSUME new.fits, NEW i \in 1..(n + 1)
        PROVE  /\ new.blocks[i].ptr + Extent(new.blocks[i].desc) <= new.size
               /\ \A j \in 1..(n + 1) : i < j =>
                    new.blocks[i].ptr + Extent(new.blocks[i].desc) <= new.blocks[j].ptr
    <3>1. acc.fits /\ acc.size <= offset /\ new.size = offset + Extent(d)
      BY <1>2, <2>7
    <3>2. Extent(d) \in Nat
      BY ExtentType
    <3>3. CASE i = n + 1
      BY <1>3, <1>4, <2>2, <3>1, <3>2, <3>3
    <3>4. CASE i \in 1..n
      <4> DEFINE e == acc.blocks[i].ptr + Extent(acc.blocks[i].desc)
      <4>1. e <= acc.size /\ \A j \in 1..n : i < j => e <= acc.blocks[j].ptr
        BY <2>1, <3>1, <3>4, Zenon DEF Placed, n
      <4>2. e \in Nat
        BY <2>5, <3>4, ExtentType DEF Block
      <4>3. new.blocks[i] = acc.blocks[i] /\ \A j \in 1..n : new.blocks[j] = acc.blocks[j]
        BY <2>2, <3>4
      <4> HIDE DEF e
      <4>4. e <= new.size
        BY <1>1, <1>3, <3>1, <3>2, <4>1, <4>2
      <4>5. ASSUME NEW j \in 1..(n + 1), i < j PROVE e <= new.blocks[j].ptr
        <5>1. CASE j = n + 1
          BY <1>1, <1>3, <1>4, <2>2, <3>1, <4>1, <4>2, <5>1
        <5>2. CASE j \in 1..n
          BY <4>1, <4>3, <4>5, <5>2
        <5> QED
          BY <2>2, <5>1, <5>2
      <4> QED
        BY <4>3, <4>4, <4>5 DEF e
    <3> QED
      BY <2>2, <3>3, <3>4
  <2> QED
    BY <2>2, <2>3, <2>4, <2>6, <2>7, Zenon DEF Placed
<1> QED
  BY <1>2, <1>5, Zenon DEF LaidWell

\* The parts that every allocation has.
LEMMA FixedLaid ==
  ASSUME NEW header \in DescType, ValidDesc(header), NEW n \in Nat
  PROVE  LaidWell(Fixed(header, n))
<1> DEFINE struct == [size |-> 3 * Word, align |-> Word, blocks |-> <<MemoryBlock>>,
                      fits |-> TRUE, result |-> "OK"]
<1>1. Word \in Nat /\ PowerOfTwo(Word) /\ Word > 0
  BY LayoutAssumption DEF PowerOfTwo
<1>2. MemoryBlock \in Block /\ ValidDesc(MemoryBlock.desc)
      /\ Extent(MemoryBlock.desc) = 3 * Word
      /\ MemoryBlock.ptr = 0 /\ MemoryBlock.desc.align = Word
      /\ MemoryBlock.name = "memory"
  BY <1>1 DEF MemoryBlock, Block, DescType, Desc, ValidDesc, ValidAlign, Extent
<1>3. LaidWell(struct)
  <2>1. struct \in Layout
    BY <1>1, <1>2 DEF Layout
  <2>2. Len(struct.blocks) = 1 /\ struct.blocks[1] = MemoryBlock
    OBVIOUS
  <2>3. 0 % Word = 0
    BY <1>1
  <2>4. Placed(struct)
    BY <1>1, <1>2, <2>1, <2>2, <2>3 DEF Placed, Part
  <2> QED
    BY <2>1, <2>4 DEF LaidWell
<1> HIDE DEF struct
<1>4. LaidWell(AppendBlock(struct, "list", Desc(4 * Word, Word, n)))
  <2>1. Desc(4 * Word, Word, n) \in DescType /\ Desc(4 * Word, Word, n).align # 0
    BY <1>1 DEF Desc, DescType
  <2> QED
    BY <1>3, <2>1, AppendBlockLaid DEF Part
<1>5. header.align # 0
  BY DEF ValidDesc, ValidAlign, PowerOfTwo
<1> QED
  BY <1>4, <1>5, AppendBlockLaid DEF Fixed, Part, struct

\* A turn of the loop of jfs_mlg_memory_init.
LEMMA AppendPartLaid ==
  ASSUME NEW acc, LaidWell(acc), NEW c \in Part, desc \in [Part -> DescType]
  PROVE  LaidWell(AppendPart(acc, c))
<1>1. CASE acc.result # "OK"
  BY <1>1 DEF AppendPart
<1>2. CASE acc.result = "OK" /\ ~ValidDesc(desc[c])
  <2>1. AppendPart(acc, c) = [acc EXCEPT !.result = "BAD_CONF"]
    BY <1>2 DEF AppendPart
  <2> QED
    BY <2>1 DEF LaidWell, Layout
<1>3. CASE acc.result = "OK" /\ ValidDesc(desc[c])
  <2>1. desc[c].align # 0 /\ desc[c] \in DescType
    BY <1>3 DEF ValidDesc, ValidAlign, PowerOfTwo
  <2>2. AppendPart(acc, c) = AppendBlock(acc, c, desc[c])
    BY <1>3 DEF AppendPart
  <2> QED
    BY <2>1, <2>2, AppendBlockLaid, Zenon
<1> QED
  BY <1>1, <1>2, <1>3

\* The loop: what Laid computes in each turn.
LEMMA LaidIs ==
  ASSUME NEW header, NEW parts \in Seq(Part)
  PROVE  Laid(header, parts) =
           [n \in 0..Len(parts) |->
              IF n = 0 THEN Fixed(header, Len(parts))
              ELSE AppendPart(Laid(header, parts)[n - 1], parts[n])]
<1> DEFINE base == Fixed(header, Len(parts))
           Turns(f, n) ==
             [i \in 0..n |-> IF i = 0 THEN base ELSE AppendPart(f[i - 1], parts[i])]
           T == {n \in Nat : \E f : f = Turns(f, n)}
<1>1. 0 \in T
  <2>1. [i \in 0..0 |-> base] = Turns([i \in 0..0 |-> base], 0)
    OBVIOUS
  <2> QED
    BY <2>1, Zenon
<1>2. ASSUME NEW n \in Nat, n \in T PROVE n + 1 \in T
  <2>1. PICK f : f = Turns(f, n)
    BY <1>2
  <2> DEFINE g == [i \in 0..(n + 1) |->
                     IF i <= n THEN f[i] ELSE AppendPart(f[n], parts[n + 1])]
  <2>2. g = Turns(g, n + 1)
    BY <2>1
  <2>3. \E h : h = Turns(h, n + 1)
    <3> HIDE DEF g, Turns
    <3> QED
      BY <2>2
  <2>4. n + 1 \in Nat
    OBVIOUS
  <2> HIDE DEF g, Turns
  <2> QED
    BY <2>3, <2>4
<1>3. Len(parts) \in T
  <2> HIDE DEF T
  <2> QED
    BY <1>1, <1>2, Induction
<1>4. \E f : f = Turns(f, Len(parts))
  BY <1>3
<1> QED
  BY <1>4 DEF Laid

\* So an allocation that jfs_mlg_memory_init returns is laid out well.
LEMMA AllLaid ==
  ASSUME NEW header \in DescType, ValidDesc(header), NEW parts \in Seq(Part),
         desc \in [Part -> DescType]
  PROVE  LaidWell(Laid(header, parts)[Len(parts)])
<1> DEFINE L == Laid(header, parts)
           T == {n \in Nat : n <= Len(parts) => LaidWell(L[n])}
<1>1. L = [n \in 0..Len(parts) |-> IF n = 0 THEN Fixed(header, Len(parts))
                                  ELSE AppendPart(L[n - 1], parts[n])]
  BY LaidIs
<1>2. Len(parts) \in Nat
  OBVIOUS
<1> HIDE DEF L
<1>3. 0 \in T
  BY <1>1, <1>2, FixedLaid
<1>4. ASSUME NEW n \in Nat, n \in T PROVE n + 1 \in T
  <2> SUFFICES ASSUME n + 1 <= Len(parts) PROVE LaidWell(L[n + 1])
    OBVIOUS
  <2>1. LaidWell(L[n]) /\ parts[n + 1] \in Part
    BY <1>2, <1>4
  <2>2. L[n + 1] = AppendPart(L[n], parts[n + 1])
    BY <1>1, <1>2
  <2> QED
    BY <2>1, <2>2, AppendPartLaid
<1>5. Len(parts) \in T
  <2> HIDE DEF T
  <2> QED
    BY <1>2, <1>3, <1>4, Induction
<1> QED
  BY <1>5 DEF L

-----------------------------------------------------------------------------
(* The invariant.                                                           *)

\* The descriptions are those that were asked for, and the memory is laid out
\* by them.
LayoutInv ==
  /\ asked \in [Part -> DescType] /\ desc \in [Part -> DescType]
  /\ desc["tree"] # ZeroDesc =>
       ValidDesc(asked["tree"]) /\ desc["tree"] = BstDesc(asked["tree"])
  /\ memory = NullMemory \/ Placed(memory)

\* The filled slots come first and hold a key each, no key twice.
CacheInv ==
  /\ capacity \in Nat /\ count \in 0..capacity
  /\ live \in [Key -> Nat] /\ state \in {"new", "alive", "freed"}
  /\ state = "new" => count = 0
  /\ state # "new" => slots \in [0..(capacity - 1) -> Key \cup {None}]
  /\ state = "alive" => capacity > 0
  /\ \A i \in Filled : slots[i] \in Key
  /\ \A i, j \in Filled : slots[i] = slots[j] => i = j

IInv == LayoutInv /\ CacheInv /\ ObjectsEvictedOnce

-----------------------------------------------------------------------------
(* The layout keeps it.                                                     *)

\* What a program passes are descriptions.
LEMMA ArgTypes ==
  ASSUME NEW a \in DescArgs \cup HeaderDescs
  PROVE  a \in DescType
BY LayoutAssumption DEF DescType, Size

\* What the make_desc functions return.
LEMMA DescTypes ==
  ASSUME NEW a \in DescType
  PROVE  /\ LruDesc(a) \in DescType
         /\ ValidDesc(a) => BstDesc(a) \in DescType
<1>1. SizeMod \in Nat \ {0} /\ Word \in Nat
  BY LayoutAssumption DEF PowerOfTwo
<1>2. LruDesc(a) \in DescType
  BY <1>1 DEF LruDesc, Desc, DescType
<1>3. ASSUME ValidDesc(a) PROVE BstDesc(a) \in DescType
  <2>1. a.align \in Nat \ {0}
    BY <1>3 DEF ValidDesc, ValidAlign, PowerOfTwo, DescType
  <2>2. NodeSize \in Nat /\ Extent(a) \in Nat
    BY <1>1, ExtentType DEF NodeSize
  <2>3. AlignSize(NodeSize, a.align) \in Nat
    BY <2>1, <2>2, AlignSizeIs
  <2>4. (AlignSize(NodeSize, a.align) + Extent(a)) % SizeMod \in Nat
    BY <1>1, <2>2, <2>3
  <2> QED
    BY <1>1, <2>1, <2>4 DEF BstDesc, Desc, DescType
<1> QED
  BY <1>2, <1>3

\* jfs_lru_make_desc and jfs_bst_make_desc.
LEMMA DescribeLayout ==
  ASSUME LayoutInv, NEW a \in DescArgs, LruMakeDesc(a) \/ BstMakeDesc(a)
  PROVE  LayoutInv'
<1>1. a \in DescType /\ ZeroDesc \in DescType
  BY ArgTypes DEF ZeroDesc, Desc, DescType
<1>2. memory' = NullMemory
  BY DEF LruMakeDesc, BstMakeDesc, Describe
<1>3. asked' \in [Part -> DescType] /\ desc' \in [Part -> DescType]
  BY <1>1, DescTypes DEF LayoutInv, LruMakeDesc, BstMakeDesc, Describe
<1>4. desc'["tree"] # ZeroDesc =>
        ValidDesc(asked'["tree"]) /\ desc'["tree"] = BstDesc(asked'["tree"])
  <2>1. CASE LruMakeDesc(a)
    BY <2>1 DEF LayoutInv, LruMakeDesc, Describe, Part
  <2>2. CASE BstMakeDesc(a)
    BY <2>2 DEF LayoutInv, BstMakeDesc, Describe, Part
  <2> QED
    BY <2>1, <2>2
<1> QED
  BY <1>2, <1>3, <1>4 DEF LayoutInv

\* jfs_mlg_memory_init.
LEMMA MemoryInitLayout ==
  ASSUME LayoutInv, NEW header \in HeaderDescs, NEW parts \in PartOrders,
         MemoryInit(header, parts) \/ MemoryInitError(header, parts)
  PROVE  LayoutInv'
<1> DEFINE laid == Laid(header, parts)[Len(parts)]
<1>1. asked' = asked /\ desc' = desc /\ memory = NullMemory
  BY DEF MemoryInit, MemoryInitError
<1>2. parts \in Seq(Part) /\ header \in DescType
  <2>1. "lru" \in Part /\ "tree" \in Part
    BY DEF Part
  <2>2. /\ <<>> \in Seq(Part) /\ \A c \in Part : <<c>> \in Seq(Part)
        /\ <<"lru", "tree">> \in Seq(Part) /\ <<"tree", "lru">> \in Seq(Part)
    BY <2>1
  <2> QED
    BY <2>2, ArgTypes, Zenon DEF PartOrders
<1>3. \/ memory' = memory
      \/ /\ ValidDesc(header) /\ laid.result = "OK"
         /\ memory' = [size |-> laid.size, align |-> laid.align,
                       blocks |-> laid.blocks, fits |-> laid.fits]
  BY DEF MemoryInit, MemoryInitError
<1> HIDE DEF laid
<1>4. ASSUME memory' # memory PROVE Placed(memory)'
  <2>1. LaidWell(laid)
    BY <1>2, <1>3, <1>4, AllLaid DEF LayoutInv, laid
  <2>2. Placed(laid)
    BY <1>3, <1>4, <2>1 DEF LaidWell
  <2>3. memory'.size = laid.size /\ memory'.align = laid.align
        /\ memory'.blocks = laid.blocks /\ memory'.fits = laid.fits
    BY <1>3, <1>4
  <2> QED
    BY <1>1, <2>2, <2>3, Zenon DEF Placed
<1> QED
  BY <1>1, <1>4 DEF LayoutInv

\* A step that leaves the descriptions, and the memory unless it frees it.
LEMMA LayoutKept ==
  ASSUME LayoutInv, asked' = asked, desc' = desc, memory' \in {memory, NullMemory}
  PROVE  LayoutInv'
<1>1. Placed(memory) /\ memory' = memory => Placed(memory)'
  BY Zenon DEF Placed
<1> QED
  BY <1>1 DEF LayoutInv

-----------------------------------------------------------------------------
(* What the layout promises.                                                *)

\* Blocks in their order do not overlap, nor do the objects of one.
LEMMA CellOrder ==
  ASSUME NEW p \in Nat, NEW s \in Nat, NEW c \in Nat, NEW i \in 0..(c - 1)
  PROVE  /\ p + i * s \in Nat /\ p + (i + 1) * s \in Nat /\ p <= p + i * s
         /\ p + (i + 1) * s <= p + s * c
         /\ \A j \in 0..(c - 1) : i < j => p + (i + 1) * s <= p + j * s
<1>1. \A m, n \in Nat : m <= n => m * s <= n * s /\ m * s \in Nat /\ n * s \in Nat
  OBVIOUS
<1>2. 0 * s = 0 /\ s * c = c * s
  OBVIOUS
<1>3. 0 * s <= i * s /\ i * s \in Nat
  BY <1>1
<1>4. (i + 1) * s <= c * s /\ (i + 1) * s \in Nat /\ c * s \in Nat
  BY <1>1
<1>5. ASSUME NEW j \in 0..(c - 1), i < j PROVE p + (i + 1) * s <= p + j * s
  <2>1. (i + 1) * s <= j * s /\ j * s \in Nat
    BY <1>1, <1>5
  <2> QED
    BY <1>4, <2>1
<1> QED
  BY <1>2, <1>3, <1>4, <1>5

\* No two objects of an allocation share a byte.
LEMMA LayoutApart == LayoutInv => BlocksApart
<1> DEFINE cells == UNION {Cells(b) : b \in Blocks}
<1> SUFFICES ASSUME LayoutInv, memory.fits, NEW x \in cells
             PROVE  /\ x[3] <= memory.size
                    /\ \A y \in cells \ {x} : x[3] <= y[2] \/ y[3] <= x[2]
  BY DEF BlocksApart
<1>1. Placed(memory)
  <2>1. memory # NullMemory
    BY DEF Blocks, NullMemory
  <2> QED
    BY <2>1 DEF LayoutInv
<1> DEFINE n == Len(memory.blocks)
           B(p) == memory.blocks[p]
           End(p) == B(p).ptr + Extent(B(p).desc)
<1>2. n \in Nat /\ memory.size \in Nat
      /\ \A p \in 1..n : /\ B(p).ptr \in Nat /\ B(p).desc.size \in Nat
                          /\ B(p).desc.count \in Nat /\ End(p) \in Nat
  <2>1. n \in Nat /\ memory.size \in Nat /\ \A p \in 1..n : B(p) \in Block
    BY <1>1 DEF Placed
  <2> QED
    BY <2>1, ExtentType DEF Block, DescType
<1>3. \A p \in 1..n : /\ End(p) <= memory.size
                      /\ \A q \in 1..n : p < q => End(p) <= B(q).ptr
  BY <1>1, Zenon DEF Placed
<1>4. ASSUME NEW z \in cells
      PROVE  \E p \in 1..n : \E i \in 0..(B(p).desc.count - 1) :
               z = <<B(p).name, CellAt(B(p), i), CellAt(B(p), i + 1)>>
  <2>1. PICK b \in Blocks : z \in Cells(b)
    BY <1>4
  <2>2. PICK p \in 1..n : b = B(p)
    BY DEF Blocks
  <2>3. \E i \in 0..(b.desc.count - 1) : z = <<b.name, CellAt(b, i), CellAt(b, i + 1)>>
    BY <2>1, Zenon DEF Cells
  <2> QED
    BY <2>2, <2>3, Zenon
<1>5. PICK p \in 1..n : \E i \in 0..(B(p).desc.count - 1) :
        x = <<B(p).name, CellAt(B(p), i), CellAt(B(p), i + 1)>>
  BY <1>4, Zenon
<1> PICK i \in 0..(B(p).desc.count - 1) :
        x = <<B(p).name, CellAt(B(p), i), CellAt(B(p), i + 1)>>
  BY <1>5
<1>6. /\ x[2] \in Nat /\ x[3] \in Nat /\ B(p).ptr <= x[2] /\ x[3] <= End(p)
      /\ \A j \in 0..(B(p).desc.count - 1) : i < j => x[3] <= CellAt(B(p), j)
  BY <1>2, <1>5, CellOrder, Zenon DEF CellAt, Extent
<1>7. x[3] <= memory.size
  BY <1>2, <1>3, <1>6
<1>8. ASSUME NEW y \in cells \ {x} PROVE x[3] <= y[2] \/ y[3] <= x[2]
  <2>1. PICK q \in 1..n : \E j \in 0..(B(q).desc.count - 1) :
          y = <<B(q).name, CellAt(B(q), j), CellAt(B(q), j + 1)>>
    BY <1>4, Zenon
  <2> PICK j \in 0..(B(q).desc.count - 1) :
          y = <<B(q).name, CellAt(B(q), j), CellAt(B(q), j + 1)>>
    BY <2>1
  <2>2. /\ y[2] \in Nat /\ y[3] \in Nat /\ B(q).ptr <= y[2] /\ y[3] <= End(q)
        /\ \A k \in 0..(B(q).desc.count - 1) : j < k => y[3] <= CellAt(B(q), k)
    BY <1>2, <2>1, CellOrder, Zenon DEF CellAt, Extent
  <2>3. CASE p < q
    <3>1. End(p) <= B(q).ptr
      BY <1>3, <2>3, Zenon
    <3>2. x[3] <= End(p) /\ B(q).ptr <= y[2]
      BY <1>6, <2>2, Zenon
    <3>3. End(p) \in Nat /\ B(q).ptr \in Nat /\ x[3] \in Nat /\ y[2] \in Nat
      BY <1>2, <1>6, <2>2, Zenon
    <3> HIDE DEF End, B
    <3> QED
      BY <3>1, <3>2, <3>3
  <2>4. CASE q < p
    <3>1. End(q) <= B(p).ptr
      BY <1>3, <2>4, Zenon
    <3>2. y[3] <= End(q) /\ B(p).ptr <= x[2]
      BY <1>6, <2>2, Zenon
    <3>3. End(q) \in Nat /\ B(p).ptr \in Nat /\ y[3] \in Nat /\ x[2] \in Nat
      BY <1>2, <1>6, <2>2, Zenon
    <3> HIDE DEF End, B
    <3> QED
      BY <3>1, <3>2, <3>3
  <2>5. CASE p = q
    <3>1. i # j
      BY <1>5, <2>1, <2>5
    <3>2. x[2] = CellAt(B(p), i) /\ y[2] = CellAt(B(p), j)
      BY <1>5, <2>1, <2>5
    <3>3. i < j \/ j < i
      BY <1>2, <2>5, <3>1
    <3> QED
      BY <1>6, <2>2, <2>5, <3>2, <3>3
  <2> QED
    BY <1>2, <2>3, <2>4, <2>5
<1> QED
  BY <1>7, <1>8

\* Every block and its objects are aligned.
LEMMA LayoutAligned == LayoutInv => BlocksAligned
<1> SUFFICES ASSUME LayoutInv, NEW b \in Blocks
             PROVE  /\ b.ptr % b.desc.align = 0 /\ memory.align % b.desc.align = 0
                    /\ b.desc.size % b.desc.align = 0 =>
                         \A x \in Cells(b) : x[2] % b.desc.align = 0
  BY DEF BlocksAligned
<1>1. Placed(memory)
  <2>1. memory # NullMemory
    BY DEF Blocks, NullMemory
  <2> QED
    BY <2>1 DEF LayoutInv
<1>2. PICK p \in 1..Len(memory.blocks) : b = memory.blocks[p]
  BY DEF Blocks
<1>3. b \in Block /\ memory.align \in Nat /\ PowerOfTwo(memory.align)
  BY <1>1, <1>2 DEF Placed
<1>4. b.ptr \in Nat /\ b.desc.align \in Nat /\ b.desc.size \in Nat
      /\ b.desc.count \in Nat
  BY <1>3 DEF Block, DescType
<1>5. ValidDesc(b.desc) /\ b.ptr % b.desc.align = 0 /\ b.desc.align <= memory.align
  BY <1>1, <1>2, Zenon DEF Placed
<1>6. PowerOfTwo(b.desc.align) /\ b.desc.align # 0
  BY <1>4, <1>5 DEF ValidDesc, ValidAlign, PowerOfTwo
<1>7. memory.align % b.desc.align = 0
  BY <1>3, <1>4, <1>5, <1>6, PowersDivide, Zenon
<1>8. ASSUME b.desc.size % b.desc.align = 0, NEW x \in Cells(b)
      PROVE  x[2] % b.desc.align = 0
  <2>1. PICK i \in 0..(b.desc.count - 1) : x = <<b.name, CellAt(b, i), CellAt(b, i + 1)>>
    BY DEF Cells
  <2>2. i \in Nat /\ x[2] = b.ptr + i * b.desc.size
    BY <1>4, <2>1 DEF CellAt
  <2>3. b.desc.align \in Nat \ {0}
    BY <1>4, <1>6
  <2>4. (b.ptr + i * b.desc.size) % b.desc.align = 0
    <3>1. /\ b.ptr \in Nat /\ b.desc.size \in Nat /\ i \in Nat
          /\ b.ptr % b.desc.align = 0 /\ b.desc.size % b.desc.align = 0
      BY <1>4, <1>5, <1>8, <2>2
    <3> QED
      BY <2>3, <3>1, MultipleSum, ZenonT(60)
  <2> QED
    BY <2>2, <2>4
<1> QED
  BY <1>5, <1>7, <1>8

\* The offset of the values in a node of the tree is the one they were given.
LEMMA LayoutReversed == LayoutInv => OffsetReversed
<1> DEFINE a == asked["tree"]
<1> SUFFICES ASSUME LayoutInv, NEW b \in Blocks, b.name = "tree", DescFits(a)
             PROVE  LET valueOffset == AlignSize(NodeSize, b.desc.align) IN
                      /\ b.desc.size - valueOffset = a.size * a.count
                      /\ valueOffset % a.align = 0
  BY DEF OffsetReversed
<1>1. Placed(memory)
  <2>1. memory # NullMemory
    BY DEF Blocks, NullMemory
  <2> QED
    BY <2>1 DEF LayoutInv
<1>2. PICK p \in 1..Len(memory.blocks) : b = memory.blocks[p]
  BY DEF Blocks
<1>3. ValidDesc(b.desc) /\ b.desc = desc["tree"]
  BY <1>1, <1>2 DEF Placed, Part
<1>4. ValidDesc(a) /\ b.desc = BstDesc(a) /\ a \in DescType
  BY <1>3 DEF LayoutInv, ZeroDesc, Desc, ValidDesc, Part
<1>5. Word \in Nat \ {0} /\ PowerOfTwo(Word) /\ SizeMod \in Nat \ {0}
      /\ NodeSize = 4 * Word /\ NodeSize \in Nat /\ NodeSize + Word <= SizeMod
  BY LayoutAssumption DEF PowerOfTwo, NodeSize
<1>6. a.align \in Nat \ {0} /\ PowerOfTwo(a.align) /\ a.size * a.count \in Nat
  BY <1>4 DEF ValidDesc, ValidAlign, PowerOfTwo, DescType
<1> DEFINE max == IF a.align > Word THEN a.align ELSE Word
           inner == AlignSize(NodeSize, a.align)
<1>7. b.desc.align = max /\ b.desc.size = (inner + a.size * a.count) % SizeMod
  BY <1>4 DEF BstDesc, Desc, Extent
<1>8. inner \in Nat /\ inner + a.size * a.count < SizeMod
  BY <1>5, <1>6, AlignSizeIs, Zenon DEF DescFits
<1>9. b.desc.size = inner + a.size * a.count
  <2> DEFINE room == inner + a.size * a.count
  <2>1. room \in Nat /\ room < SizeMod /\ b.desc.size = room % SizeMod
    BY <1>6, <1>7, <1>8
  <2> HIDE DEF room
  <2>2. b.desc.size = room
    BY <1>5, <2>1
  <2> QED
    BY <2>2 DEF room
<1>10. max \in Nat \ {0} /\ max % a.align = 0
  <2>1. a.align % a.align = 0
    BY <1>6
  <2>2. a.align <= Word => Word % a.align = 0
    BY <1>5, <1>6, PowersDivide
  <2> QED
    BY <1>5, <1>6, <2>1, <2>2
<1>11. AlignSize(NodeSize, max) % a.align = 0
  <2>1. AlignSize(NodeSize, max) \in Nat /\ AlignSize(NodeSize, max) % max = 0
    BY <1>5, <1>10, AlignSizeIs, Zenon
  <2> HIDE DEF max
  <2> QED
    BY <1>6, <1>10, <2>1, MultipleTrans
<1>12. AlignSize(NodeSize, max) = inner
  <2>1. CASE a.align > Word
    BY <2>1
  <2>2. CASE ~(a.align > Word)
    <3>1. ASSUME NEW m \in {a.align, Word} PROVE AlignSize(NodeSize, m) = NodeSize
      <4>1. m \in Nat \ {0} /\ Word % m = 0 /\ NodeSize + m <= SizeMod
        BY <1>5, <1>6, <1>10, <2>2, <3>1
      <4>2. PICK w \in Nat : Word = w * m
        BY <1>5, <4>1, Multiple, Zenon
      <4>3. NodeSize + m - 1 = (4 * w) * m + (m - 1) /\ 4 * w \in Nat
        BY <1>5, <4>1, <4>2
      <4>4. (NodeSize + m - 1) % SizeMod = NodeSize + m - 1
        BY <1>5, <4>1
      <4>5. (NodeSize + m - 1) % m = m - 1
        <5>1. m - 1 \in 0..(m - 1)
          BY <4>1
        <5>2. m \in Nat \ {0} /\ 4 * w \in Nat
          BY <4>1, <4>3
        <5>3. ((4 * w) * m + (m - 1)) % m = m - 1
          BY <5>1, <5>2, Remainder, Zenon
        <5> QED
          BY <4>3, <5>3, Zenon
      <4>6. AlignSize(NodeSize, m) = (NodeSize + m - 1) - (m - 1)
        <5> DEFINE s == (NodeSize + m - 1) % SizeMod
        <5>1. AlignSize(NodeSize, m) = s - (s % m)
          BY DEF AlignSize
        <5>2. s = NodeSize + m - 1 /\ s % m = m - 1
          BY <4>4, <4>5, Zenon
        <5> HIDE DEF s
        <5> QED
          BY <5>1, <5>2, Zenon
      <4> QED
        BY <1>5, <4>1, <4>6
    <3> QED
      BY <2>2, <3>1
  <2> QED
    BY <2>1, <2>2
<1> HIDE DEF max, inner
<1> QED
  BY <1>6, <1>7, <1>8, <1>9, <1>11, <1>12

-----------------------------------------------------------------------------
(* The slots of the cache.                                                  *)

\* The slots when k comes first and the ones before slot i move down.
Shifted(k, i) ==
  [j \in 0..(capacity - 1) |-> IF j = 0 THEN k
                             ELSE IF j <= i THEN slots[j - 1] ELSE slots[j]]

\* What lru_promote does to a memory block of n slots.
LEMMA PromoteIs ==
  ASSUME NEW n \in Nat, NEW S, NEW m \in [0..(n - 1) -> S], NEW i \in 0..(n - 1)
  PROVE  Promote(m, i) = [j \in 0..(n - 1) |-> IF j = 0 THEN m[i]
                                              ELSE IF j <= i THEN m[j - 1] ELSE m[j]]
<1>1. Remap(m, 1, 0, i) = [j \in 0..(n - 1) |-> IF j \in 1..i THEN m[j - 1] ELSE m[j]]
  <2>1. Remap(m, 1, 0, i) = [j \in 0..(n - 1) |-> IF j \in 1..(1 + i - 1)
                                                 THEN m[0 + (j - 1)] ELSE m[j]]
    BY DEF Remap
  <2>2. 1 + i - 1 = i /\ \A j \in 0..(n - 1) : 0 + (j - 1) = j - 1
    OBVIOUS
  <2> QED
    BY <2>1, <2>2
<1>2. Promote(m, i) = [Remap(m, 1, 0, i) EXCEPT ![0] = m[i]]
  BY DEF Promote, Write
<1> QED
  BY <1>1, <1>2

\* ... of a slot that holds k, and of one where k is written first.
LEMMA PromoteShifts ==
  ASSUME capacity \in Nat, slots \in [0..(capacity - 1) -> Key \cup {None}],
         NEW i \in 0..(capacity - 1), NEW k \in Key
  PROVE  /\ slots[i] = k => Promote(slots, i) = Shifted(k, i)
         /\ Promote(Write(slots, k, i), i) = Shifted(k, i)
         /\ i = 0 /\ slots[i] = k => slots = Shifted(k, i)
<1>1. slots[i] = k => Promote(slots, i) = Shifted(k, i)
  <2>1. Promote(slots, i) = [j \in 0..(capacity - 1) |->
                               IF j = 0 THEN slots[i]
                               ELSE IF j <= i THEN slots[j - 1] ELSE slots[j]]
    BY PromoteIs, Zenon
  <2> QED
    BY <2>1 DEF Shifted
<1>2. Promote(Write(slots, k, i), i) = Shifted(k, i)
  <2> DEFINE m == Write(slots, k, i)
  <2>1. /\ m \in [0..(capacity - 1) -> Key \cup {None}] /\ m[i] = k
        /\ \A j \in 0..(capacity - 1) \ {i} : m[j] = slots[j]
    BY DEF Write
  <2> HIDE DEF m
  <2>2. Promote(m, i) = [j \in 0..(capacity - 1) |->
                           IF j = 0 THEN m[i] ELSE IF j <= i THEN m[j - 1] ELSE m[j]]
    BY <2>1, PromoteIs, Zenon
  <2>3. Promote(m, i) = Shifted(k, i)
    BY <2>1, <2>2 DEF Shifted
  <2> QED
    BY <2>3 DEF m
<1>3. i = 0 /\ slots[i] = k => slots = Shifted(k, i)
  BY DEF Shifted
<1> QED
  BY <1>1, <1>2, <1>3

\* The keys in the cache.
Cached == {slots[i] : i \in Filled}

\* jfs_lru_access of k, whatever its outcome: slot i held k, or is given up, or
\* was free, and there are then c objects in the cache.
Shift(k, i, c) ==
  /\ state = "alive" /\ state' = "alive" /\ capacity' = capacity
  /\ c \in 1..capacity /\ i \in 0..(c - 1) /\ count' = c
  /\ \A j \in 0..(c - 1) \ {i} : j \in Filled /\ slots[j] # k
  /\ slots' = Shifted(k, i)

\* The slots of a cache in use.
LEMMA CacheTypes ==
  ASSUME CacheInv, state = "alive"
  PROVE  /\ capacity \in Nat \ {0} /\ count \in 0..capacity /\ count \in Nat
         /\ slots \in [0..(capacity - 1) -> Key \cup {None}]
         /\ Filled \subseteq 0..(capacity - 1)
BY DEF CacheInv, Filled

\* jfs_lru_access finds the key: its slot is promoted.
LEMMA HitShifts ==
  ASSUME CacheInv, NEW k \in Key, Hit(k)
  PROVE  \E i \in Filled : slots[i] = k /\ Shift(k, i, count)
<1>1. state = "alive" /\ state' = "alive" /\ capacity' = capacity /\ count' = count
  BY DEF Hit
<1>2. PICK i \in Filled : slots[i] = k
                          /\ slots' = IF i # 0 THEN Promote(slots, i) ELSE slots
  BY DEF Hit
<1>3. /\ capacity \in Nat /\ count \in 1..capacity /\ i \in 0..(count - 1)
      /\ i \in 0..(capacity - 1)
      /\ slots \in [0..(capacity - 1) -> Key \cup {None}]
  BY <1>1, CacheTypes DEF Filled
<1>4. slots' = Shifted(k, i)
  BY <1>2, <1>3, PromoteShifts, Zenon
<1>5. \A j \in 0..(count - 1) \ {i} : j \in Filled /\ slots[j] # k
  BY <1>2, Zenon DEF CacheInv, Filled
<1> QED
  BY <1>1, <1>2, <1>3, <1>4, <1>5, Zenon DEF Shift

\* ... or not, and a slot is free: that one is.
LEMMA MissFreeShifts ==
  ASSUME CacheInv, NEW k \in Key, MissFree(k)
  PROVE  Shift(k, count, count + 1)
<1>1. state = "alive" /\ state' = "alive" /\ capacity' = capacity
      /\ count' = count + 1 /\ count < capacity
  BY DEF MissFree
<1>2. /\ capacity \in Nat /\ count + 1 \in 1..capacity /\ count \in 0..((count + 1) - 1)
      /\ count \in 0..(capacity - 1)
      /\ slots \in [0..(capacity - 1) -> Key \cup {None}]
  BY <1>1, CacheTypes
<1>3. slots' = Shifted(k, count)
  BY <1>2, PromoteShifts, Zenon DEF MissFree
<1>4. \A j \in 0..((count + 1) - 1) \ {count} : j \in Filled
  BY <1>2 DEF Filled
<1>5. \A j \in 0..((count + 1) - 1) \ {count} : slots[j] # k
  BY <1>4, Zenon DEF MissFree
<1> QED
  BY <1>1, <1>2, <1>3, <1>4, <1>5, Zenon DEF Shift

\* ... or none is: the last one is.
LEMMA MissFullShifts ==
  ASSUME CacheInv, NEW k \in Key, MissFull(k)
  PROVE  count = capacity /\ count - 1 \in Filled /\ Shift(k, count - 1, count)
<1>1. state = "alive" /\ state' = "alive" /\ capacity' = capacity
      /\ count' = count /\ count >= capacity
  BY DEF MissFull
<1>2. /\ capacity \in Nat /\ count = capacity /\ count \in 1..capacity
      /\ count - 1 \in 0..(count - 1) /\ count - 1 \in 0..(capacity - 1)
      /\ slots \in [0..(capacity - 1) -> Key \cup {None}]
  BY <1>1, CacheTypes
<1>3. slots' = Shifted(k, count - 1)
  BY <1>2, PromoteShifts, Zenon DEF MissFull
<1>4. \A j \in 0..(count - 1) : j \in Filled /\ slots[j] # k
  BY DEF Filled, MissFull
<1> QED
  BY <1>1, <1>2, <1>3, <1>4, Zenon DEF Shift, Filled

\* An access keeps the invariant of the slots and caches its key.
LEMMA ShiftInv ==
  ASSUME CacheInv, NEW k \in Key, NEW i, NEW c, Shift(k, i, c), live' \in [Key -> Nat]
  PROVE  /\ CacheInv'
         /\ Cached' = {k} \cup {slots[j] : j \in 0..(c - 1) \ {i}}
<1>1. /\ capacity \in Nat \ {0} /\ slots \in [0..(capacity - 1) -> Key \cup {None}]
      /\ c \in 1..capacity /\ i \in 0..(c - 1)
      /\ slots' = Shifted(k, i) /\ Filled' = 0..(c - 1)
      /\ count' = c /\ capacity' = capacity /\ state' = "alive"
  BY CacheTypes DEF Shift, Filled
<1>2. \A j \in 0..(c - 1) \ {i} : slots[j] \in Key \ {k}
  BY Zenon DEF Shift, CacheInv
<1>3. \A j, m \in 0..(c - 1) \ {i} : slots[j] = slots[m] => j = m
  BY Zenon DEF Shift, CacheInv
<1>4. /\ slots' \in [0..(capacity - 1) -> Key \cup {None}]
      /\ \A j \in 0..(c - 1) : slots'[j] \in Key
      /\ \A j, m \in 0..(c - 1) : slots'[j] = slots'[m] => j = m
      /\ \A x : (\E j \in 0..(c - 1) : slots'[j] = x)
                 <=> x = k \/ \E j \in 0..(c - 1) \ {i} : slots[j] = x
  <2> DEFINE old(j) == IF j <= i THEN j - 1 ELSE j
  <2>0. c \in Nat \ {0} /\ i \in 0..(c - 1)
    BY <1>1
  <2>1. \A j \in 1..(c - 1) : old(j) \in 0..(c - 1) \ {i}
    BY <2>0
  <2>2. \A j, m \in 1..(c - 1) : old(j) = old(m) => j = m
    BY <2>0
  <2>3. \A j \in 0..(c - 1) \ {i} : \E m \in 1..(c - 1) : old(m) = j
    <3> TAKE j \in 0..(c - 1) \ {i}
    <3>1. CASE j < i
      <4>1. j + 1 \in 1..(c - 1) /\ old(j + 1) = j
        BY <2>0, <3>1
      <4> QED
        BY <4>1
    <3>2. CASE ~(j < i)
      <4>1. j \in 1..(c - 1) /\ old(j) = j
        BY <2>0, <3>2
      <4> QED
        BY <4>1, Zenon
    <3> QED
      BY <3>1, <3>2
  <2>4. slots'[0] = k /\ \A j \in 1..(c - 1) : slots'[j] = slots[old(j)]
    BY <1>1 DEF Shifted
  <2>5. slots' \in [0..(capacity - 1) -> Key \cup {None}]
    BY <1>1 DEF Shifted
  <2>6. \A j \in 0..(c - 1) : j = 0 \/ j \in 1..(c - 1)
    BY <2>0
  <2>7. 0 \in 0..(c - 1) /\ 1..(c - 1) \subseteq 0..(c - 1) /\ 0 \notin 1..(c - 1)
    BY <2>0
  <2> HIDE DEF old
  <2>8. \A j \in 0..(c - 1) : slots'[j] \in Key
    BY <1>2, <2>1, <2>4, <2>6, Zenon
  <2>9. \A j \in 1..(c - 1) : slots'[j] # k
    BY <1>2, <2>1, <2>4, Zenon
  <2>10. \A j, m \in 1..(c - 1) : slots'[j] = slots'[m] => j = m
    <3> TAKE j, m \in 1..(c - 1)
    <3>1. slots'[j] = slots[old(j)] /\ slots'[m] = slots[old(m)]
      BY <2>4
    <3>2. old(j) \in 0..(c - 1) \ {i} /\ old(m) \in 0..(c - 1) \ {i}
      BY <2>1
    <3> HAVE slots'[j] = slots'[m]
    <3>3. old(j) = old(m)
      BY <1>3, <3>1, <3>2, Zenon
    <3> QED
      BY <2>2, <3>3
  <2>11. \A j, m \in 0..(c - 1) : slots'[j] = slots'[m] => j = m
    BY <2>4, <2>6, <2>9, <2>10, Zenon
  <2>12. ASSUME NEW x
         PROVE  (\E j \in 0..(c - 1) : slots'[j] = x)
                  <=> x = k \/ \E j \in 0..(c - 1) \ {i} : slots[j] = x
    <3>1. ASSUME NEW j \in 0..(c - 1), slots'[j] = x
          PROVE  x = k \/ \E m \in 0..(c - 1) \ {i} : slots[m] = x
      BY <2>1, <2>4, <2>6, <3>1, Zenon
    <3>2. ASSUME x = k PROVE \E j \in 0..(c - 1) : slots'[j] = x
      BY <2>4, <2>7, <3>2, Zenon
    <3>3. ASSUME NEW m \in 0..(c - 1) \ {i}, slots[m] = x
          PROVE  \E j \in 0..(c - 1) : slots'[j] = x
      BY <2>3, <2>4, <2>7, <3>3, Zenon
    <3> QED
      BY <3>1, <3>2, <3>3, Zenon
  <2> QED
    BY <2>5, <2>8, <2>11, <2>12, Zenon
<1>5. CacheInv'
  BY <1>1, <1>4 DEF CacheInv
<1>6. \A x : x \in Cached' <=> \E j \in 0..(c - 1) : slots'[j] = x
  BY <1>1 DEF Cached
<1>7. Cached' = {k} \cup {slots[j] : j \in 0..(c - 1) \ {i}}
  <2>1. \A x : x \in {slots[j] : j \in 0..(c - 1) \ {i}}
               <=> \E j \in 0..(c - 1) \ {i} : slots[j] = x
    OBVIOUS
  <2>2. \A x : x \in Cached'
               <=> x = k \/ x \in {slots[j] : j \in 0..(c - 1) \ {i}}
    BY <1>4, <1>6, <2>1, Zenon
  <2> QED
    BY <2>2
<1> QED
  BY <1>5, <1>7

\* What is live, in terms of the keys in the cache.
LEMMA LiveIs ==
  ObjectsEvictedOnce <=>
    \A k \in Key : live[k] = IF state = "alive" /\ k \in Cached THEN 1 ELSE 0
<1>1. \A k : k \in Cached <=> \E i \in Filled : slots[i] = k
  BY DEF Cached
<1> QED
  BY <1>1, Zenon DEF ObjectsEvictedOnce

\* ... and after a step.
LEMMA LiveIsNext ==
  ObjectsEvictedOnce' <=>
    \A k \in Key : live'[k] = IF state' = "alive" /\ k \in Cached' THEN 1 ELSE 0
<1>1. \A k : k \in Cached' <=> \E i \in Filled' : slots'[i] = k
  BY DEF Cached
<1> QED
  BY <1>1, Zenon DEF ObjectsEvictedOnce

\* A hit makes no object.
LEMMA HitInv ==
  ASSUME CacheInv, ObjectsEvictedOnce, NEW k \in Key, Hit(k)
  PROVE  CacheInv' /\ ObjectsEvictedOnce'
<1>1. PICK i \in Filled : slots[i] = k /\ Shift(k, i, count)
  BY HitShifts
<1>2. live' = live /\ live \in [Key -> Nat] /\ state = "alive" /\ state' = "alive"
  BY DEF Hit, CacheInv
<1>3. CacheInv' /\ Cached' = {k} \cup {slots[j] : j \in 0..(count - 1) \ {i}}
  <2>1. live' \in [Key -> Nat]
    BY <1>2
  <2> QED
    BY <1>1, <2>1, ShiftInv, Zenon
<1>4. \A x : x \in Cached' <=> x \in Cached
  BY <1>1, <1>3, Zenon DEF Cached, Filled
<1> QED
  BY <1>2, <1>3, <1>4, LiveIs, LiveIsNext, Zenon

\* A miss with a free slot makes one.
LEMMA MissFreeInv ==
  ASSUME CacheInv, ObjectsEvictedOnce, NEW k \in Key, MissFree(k)
  PROVE  CacheInv' /\ ObjectsEvictedOnce'
<1>1. Shift(k, count, count + 1) /\ k \notin Cached
  BY MissFreeShifts, Zenon DEF Cached, MissFree
<1>2. live' = [live EXCEPT ![k] = @ + 1] /\ live \in [Key -> Nat]
      /\ state = "alive" /\ state' = "alive"
  BY DEF MissFree, CacheInv
<1>3. live' \in [Key -> Nat]
  BY <1>2
<1>4. /\ CacheInv'
      /\ Cached' = {k} \cup {slots[j] : j \in 0..((count + 1) - 1) \ {count}}
  BY <1>1, <1>3, ShiftInv, Zenon
<1>5. 0..((count + 1) - 1) \ {count} = Filled
  BY DEF CacheInv, Filled
<1>6. \A x : x \in Cached' <=> x = k \/ x \in Cached
  BY <1>4, <1>5, Zenon DEF Cached
<1>7. \A x \in Key : live'[x] = IF x \in Cached' THEN 1 ELSE 0
  BY <1>1, <1>2, <1>6, LiveIs
<1> QED
  BY <1>2, <1>4, <1>7, LiveIsNext, Zenon

\* A miss without one makes one and evicts one.
LEMMA MissFullInv ==
  ASSUME CacheInv, ObjectsEvictedOnce, NEW k \in Key, MissFull(k)
  PROVE  CacheInv' /\ ObjectsEvictedOnce'
<1> DEFINE gone == slots[count - 1]
<1>1. /\ Shift(k, count - 1, count) /\ k \notin Cached
      /\ count - 1 \in Filled
  BY MissFullShifts, Zenon DEF Cached, MissFull
<1>2. gone \in Cached /\ gone \in Key /\ gone # k
  BY <1>1 DEF Cached, CacheInv
<1>3. live' = [live EXCEPT ![gone] = @ - 1, ![k] = @ + 1] /\ live \in [Key -> Nat]
      /\ state = "alive" /\ state' = "alive"
  BY DEF MissFull, CacheInv
<1>4. live[gone] = 1 /\ live[k] = 0
  BY <1>1, <1>2, <1>3, LiveIs, Zenon
<1> HIDE DEF gone
<1>5. live' \in [Key -> Nat] /\ live'[gone] = 0 /\ live'[k] = 1
      /\ \A x \in Key \ {gone, k} : live'[x] = live[x]
  BY <1>2, <1>3, <1>4
<1>6. CacheInv' /\ Cached' = {k} \cup {slots[j] : j \in 0..(count - 1) \ {count - 1}}
  BY <1>1, <1>5, ShiftInv, Zenon
<1>7. \A x : x \in Cached' <=> x = k \/ (x \in Cached /\ x # gone)
  <2>1. \A j \in Filled \ {count - 1} : slots[j] # gone
    BY <1>1, Zenon DEF gone, CacheInv
  <2> QED
    BY <1>6, <2>1, Zenon DEF Cached, Filled, gone
<1>8. \A x \in Key : live'[x] = IF x \in Cached' THEN 1 ELSE 0
  BY <1>2, <1>3, <1>5, <1>7, LiveIs, Zenon
<1> QED
  BY <1>3, <1>6, <1>8, LiveIsNext, Zenon

\* jfs_lru_free has each object evicted once.
LEMMA FreeInv ==
  ASSUME CacheInv, ObjectsEvictedOnce, Free
  PROVE  CacheInv' /\ ObjectsEvictedOnce'
<1>1. ASSUME NEW k \in Key
      PROVE  live[k] - Cardinality({i \in Filled : slots[i] = k}) = 0
  <2> DEFINE I == {i \in Filled : slots[i] = k}
  <2>1. CASE \E i \in Filled : slots[i] = k
    <3>1. PICK i \in Filled : I = {i}
      BY <2>1, Zenon DEF CacheInv
    <3>2. Cardinality(I) = 1
      BY <3>1, FS_Singleton
    <3>3. live[k] = 1
      BY <2>1 DEF ObjectsEvictedOnce, Free
    <3> QED
      BY <3>2, <3>3
  <2>2. CASE ~\E i \in Filled : slots[i] = k
    <3>1. I = {}
      BY <2>2
    <3>2. Cardinality(I) = 0
      BY <3>1, FS_EmptySet
    <3>3. live[k] = 0
      BY <2>2 DEF ObjectsEvictedOnce
    <3> QED
      BY <3>2, <3>3
  <2> QED
    BY <2>1, <2>2
<1>2. live' = [k \in Key |-> 0]
  BY <1>1 DEF Free
<1>3. CacheInv'
  BY <1>2 DEF CacheInv, Free, Filled
<1>4. ObjectsEvictedOnce'
  BY <1>2 DEF ObjectsEvictedOnce, Free
<1> QED
  BY <1>3, <1>4

\* jfs_lru_init.
LEMMA LruInitInv ==
  ASSUME LayoutInv, CacheInv, ObjectsEvictedOnce, LruInit
  PROVE  CacheInv' /\ ObjectsEvictedOnce'
<1>1. PICK b \in Blocks : /\ ValidDesc(b.desc) /\ capacity' = b.desc.count
                          /\ slots' = [i \in 0..(b.desc.count - 1) |-> None]
  BY DEF LruInit
<1>2. b.desc.count \in Nat \ {0}
  <2>1. Placed(memory)
    <3>1. memory # NullMemory
      BY DEF Blocks, NullMemory
    <3> QED
      BY <3>1 DEF LayoutInv
  <2>2. b \in Block
    BY <2>1 DEF Placed, Blocks
  <2> QED
    BY <1>1, <2>2 DEF Block, DescType, ValidDesc
<1>3. count' = count /\ count = 0 /\ live' = live /\ state = "new" /\ state' = "alive"
  BY DEF LruInit, CacheInv
<1>4. Filled' = {}
  BY <1>3 DEF Filled
<1>5. CacheInv'
  BY <1>1, <1>2, <1>3, <1>4 DEF CacheInv
<1>6. ObjectsEvictedOnce'
  BY <1>3, <1>4 DEF ObjectsEvictedOnce
<1> QED
  BY <1>5, <1>6

-----------------------------------------------------------------------------
(* The theorems.                                                            *)

\* A cache that a step leaves alone.
LEMMA CacheKept ==
  ASSUME CacheInv, ObjectsEvictedOnce, UNCHANGED lruVars
  PROVE  CacheInv' /\ ObjectsEvictedOnce'
BY DEF CacheInv, ObjectsEvictedOnce, lruVars, Filled

\* Before the first call.
LEMMA InitIInv == Init => IInv
<1> SUFFICES ASSUME Init PROVE IInv
  OBVIOUS
<1>1. ZeroDesc \in DescType
  BY DEF ZeroDesc, Desc, DescType
<1>2. LayoutInv
  BY <1>1 DEF Init, LayoutInit, LayoutInv, Part
<1>3. CacheInv /\ ObjectsEvictedOnce
  BY DEF Init, CacheInv, ObjectsEvictedOnce, Filled
<1> QED
  BY <1>2, <1>3 DEF IInv

\* Every step keeps the invariant.
LEMMA NextIInv == IInv /\ [Next]_vars => IInv'
<1> SUFFICES ASSUME IInv, [Next]_vars PROVE IInv'
  OBVIOUS
<1>1. LayoutInv /\ CacheInv /\ ObjectsEvictedOnce
  BY DEF IInv
<1>2. CASE LayoutNext /\ UNCHANGED lruVars
  <2>1. LayoutInv'
    BY <1>1, <1>2, DescribeLayout, MemoryInitLayout DEF LayoutNext
  <2> QED
    BY <1>1, <1>2, <2>1, CacheKept DEF IInv
<1>3. CASE LruInitError \/ MemoryFree \/ Ended \/ UNCHANGED vars
  <2>1. asked' = asked /\ desc' = desc /\ memory' \in {memory, NullMemory}
    BY <1>3 DEF LruInitError, MemoryFree, Ended, vars, layoutVars
  <2>2. UNCHANGED lruVars
    BY <1>3 DEF LruInitError, MemoryFree, Ended, vars
  <2> QED
    BY <1>1, <2>1, <2>2, LayoutKept, CacheKept DEF IInv
<1>4. ASSUME LruInit \/ Free \/ \E k \in Key : Hit(k) \/ MissFree(k) \/ MissFull(k)
      PROVE  LayoutInv'
  <2>1. UNCHANGED layoutVars
    BY <1>4 DEF LruInit, Free, Hit, MissFree, MissFull
  <2> QED
    BY <1>1, <2>1, LayoutKept DEF layoutVars
<1>5. CASE LruInit
  BY <1>1, <1>4, <1>5, LruInitInv DEF IInv
<1>6. CASE Free
  BY <1>1, <1>4, <1>6, FreeInv DEF IInv
<1>7. ASSUME NEW k \in Key, Hit(k) \/ MissFree(k) \/ MissFull(k) PROVE IInv'
  BY <1>1, <1>4, <1>7, HitInv, MissFreeInv, MissFullInv DEF IInv
<1> QED
  BY <1>2, <1>3, <1>5, <1>6, <1>7 DEF Next

\* The invariant of the layout and of the cache in it.
THEOREM Inductive == Spec => []IInv
  BY InitIInv, NextIInv, PTL DEF Spec

\* For every size_t, all descriptions and every order of components: no two
\* objects of an allocation share a byte, and all lie inside it, as long as no
\* size overflows (jfs_mlg_append, jfs_mlg_memory_init).
THEOREM ObjectsApart == Spec => []BlocksApart
<1>1. IInv => BlocksApart
  BY LayoutApart DEF IInv
<1> QED
  BY Inductive, <1>1, PTL

\* For every size_t, all descriptions and every order of components: each block
\* and, if its size allows, each object is aligned, also where a size overflows
\* (jfs_mlg_align_size).
THEOREM ObjectsAligned == Spec => []BlocksAligned
<1>1. IInv => BlocksAligned
  BY LayoutAligned DEF IInv
<1> QED
  BY Inductive, <1>1, PTL

\* For every description of a tree: the offset that jfs_bst_init computes is the
\* one that jfs_bst_make_desc made room for.
THEOREM OffsetIsReversed == Spec => []OffsetReversed
<1>1. IInv => OffsetReversed
  BY LayoutReversed DEF IInv
<1> QED
  BY Inductive, <1>1, PTL

\* For every capacity and any keys: each object that miss made is in one slot
\* until evict gets it, and none is left after jfs_lru_free.
THEOREM EvictedOnce == Spec => []ObjectsEvictedOnce
<1>1. IInv => ObjectsEvictedOnce
  BY DEF IInv
<1> QED
  BY Inductive, <1>1, PTL

-----------------------------------------------------------------------------
(* The cache implements RecencyCache.                                       *)

\* The keys by their last access: what the abstract cache calls recent.
Recent == [i \in 1..count |-> slots[i - 1]]

\* They are a sequence without gaps, of the keys in the filled slots.
LEMMA RecentIs ==
  ASSUME CacheInv
  PROVE  /\ count \in Nat /\ Recent \in Seq(Key) /\ Len(Recent) = count
         /\ \A i \in 1..count : Recent[i] = slots[i - 1] /\ i - 1 \in Filled
         /\ Abstract!Cached = Cached
<1>1. count \in Nat /\ \A i \in 1..count : i - 1 \in Filled
  BY DEF CacheInv, Filled
<1>2. Recent \in [1..count -> Key]
  BY <1>1 DEF CacheInv, Recent
<1>3. Recent \in Seq(Key) /\ Len(Recent) = count
  BY <1>1, <1>2
<1>4. \A i \in 1..count : Recent[i] = slots[i - 1]
  BY DEF Recent
<1>5. Abstract!Cached = {Recent[i] : i \in 1..count}
  BY <1>3, Zenon DEF Abstract!Cached, Recent
<1>6. \A j \in Filled : j + 1 \in 1..count /\ (j + 1) - 1 = j
  BY <1>1 DEF Filled
<1>7. Abstract!Cached = Cached
  BY <1>1, <1>4, <1>5, <1>6 DEF Cached
<1> QED
  BY <1>1, <1>3, <1>4, <1>7

\* A sequence with one element more in front.
LEMMA InFront ==
  ASSUME NEW S, NEW R \in Seq(S), NEW k \in S
  PROVE  /\ <<k>> \o R \in Seq(S) /\ Len(<<k>> \o R) = Len(R) + 1
         /\ \A j \in 1..(Len(R) + 1) : (<<k>> \o R)[j] = IF j = 1 THEN k ELSE R[j - 1]
<1>1. <<k>> \in Seq(S) /\ Len(<<k>>) = 1 /\ <<k>>[1] = k
  OBVIOUS
<1> QED
  BY <1>1

\* Two sequences, one after the other.
LEMMA Joined ==
  ASSUME NEW S, NEW A \in Seq(S), NEW B \in Seq(S)
  PROVE  /\ A \o B \in Seq(S) /\ Len(A \o B) = Len(A) + Len(B)
         /\ \A j \in 1..(Len(A) + Len(B)) :
              (A \o B)[j] = IF j <= Len(A) THEN A[j] ELSE B[j - Len(A)]
OBVIOUS

\* A sequence without element p.
LEMMA CutOut ==
  ASSUME NEW S, NEW R \in Seq(S), NEW p \in 1..Len(R),
         NEW Q, Q = SubSeq(R, 1, p - 1) \o SubSeq(R, p + 1, Len(R))
  PROVE  /\ Q \in Seq(S) /\ Len(Q) = Len(R) - 1
         /\ \A j \in 1..(Len(R) - 1) : Q[j] = IF j < p THEN R[j] ELSE R[j + 1]
<1> DEFINE A == SubSeq(R, 1, p - 1)
           B == SubSeq(R, p + 1, Len(R))
<1>1. /\ A \in Seq(S) /\ Len(A) = p - 1
      /\ \A j \in 1..(p - 1) : A[j] = R[j]
  OBVIOUS
<1>2. /\ B \in Seq(S) /\ Len(B) = Len(R) - p
      /\ \A j \in 1..(Len(R) - p) : B[j] = R[p + j]
  OBVIOUS
<1>3. Q = A \o B
  OBVIOUS
<1> HIDE DEF A, B
<1>4. /\ Q \in Seq(S) /\ Len(Q) = Len(A) + Len(B)
      /\ \A j \in 1..(Len(A) + Len(B)) :
           Q[j] = IF j <= Len(A) THEN A[j] ELSE B[j - Len(A)]
  <2>1. /\ A \o B \in Seq(S) /\ Len(A \o B) = Len(A) + Len(B)
        /\ \A j \in 1..(Len(A) + Len(B)) :
             (A \o B)[j] = IF j <= Len(A) THEN A[j] ELSE B[j - Len(A)]
    BY <1>1, <1>2, Joined, Zenon
  <2> QED
    BY <1>3, <2>1, Zenon
<1>5. Len(R) \in Nat /\ Len(A) + Len(B) = Len(R) - 1
  BY <1>1, <1>2
<1>6. ASSUME NEW j \in 1..(Len(R) - 1)
      PROVE  Q[j] = IF j < p THEN R[j] ELSE R[j + 1]
  <2>1. Q[j] = IF j <= p - 1 THEN A[j] ELSE B[j - (p - 1)]
    BY <1>1, <1>4, <1>5, Zenon
  <2>2. CASE j < p
    <3>1. j <= p - 1 /\ j \in 1..(p - 1)
      BY <1>5, <2>2
    <3> QED
      BY <1>1, <2>1, <2>2, <3>1, Zenon
  <2>3. CASE ~ j < p
    <3>1. /\ ~ j <= p - 1 /\ j - (p - 1) \in 1..(Len(R) - p)
          /\ p + (j - (p - 1)) = j + 1
      BY <1>5, <2>3
    <3> QED
      BY <1>2, <2>1, <2>3, <3>1, Zenon
  <2> QED
    BY <2>2, <2>3, Zenon
<1> QED
  BY <1>4, <1>5, <1>6, Zenon

\* The keys after an access.
LEMMA RecentNext ==
  ASSUME CacheInv, NEW k \in Key, NEW i, NEW c, Shift(k, i, c)
  PROVE  /\ c \in Nat
         /\ Recent' = [j \in 1..c |-> IF j = 1 THEN k
                                    ELSE IF j <= i + 1 THEN slots[j - 2] ELSE slots[j - 1]]
<1>1. /\ capacity \in Nat /\ c \in 1..capacity /\ i \in 0..(c - 1)
      /\ count' = c /\ slots' = Shifted(k, i)
  BY DEF Shift, CacheInv
<1>2. Recent' = [j \in 1..c |-> Shifted(k, i)[j - 1]]
  BY <1>1 DEF Recent
<1>3. ASSUME NEW j \in 1..c
      PROVE  Shifted(k, i)[j - 1] = IF j = 1 THEN k
                                    ELSE IF j <= i + 1 THEN slots[j - 2] ELSE slots[j - 1]
  <2>1. j - 1 \in 0..(capacity - 1) /\ (j - 1 = 0 <=> j = 1)
        /\ (j - 1 <= i <=> j <= i + 1) /\ (j - 1) - 1 = j - 2
    BY <1>1
  <2> QED
    BY <2>1 DEF Shifted
<1> QED
  BY <1>1, <1>2, <1>3

\* A hit: the key moves to the front.
LEMMA HitRefines ==
  ASSUME CacheInv, NEW k \in Key, Hit(k)
  PROVE  Abstract!Access(k)
<1> DEFINE n == count
<1>1. PICK i \in Filled : slots[i] = k /\ Shift(k, i, count)
  BY HitShifts
<1>2. /\ n \in Nat /\ Recent \in Seq(Key) /\ Len(Recent) = n
      /\ \A j \in 1..n : Recent[j] = slots[j - 1] /\ j - 1 \in Filled
      /\ Abstract!Cached = Cached
  BY RecentIs
<1>3. /\ i \in Nat /\ i + 1 \in 1..n /\ (i + 1) - 1 = i /\ capacity \in Nat /\ n <= capacity
  BY <1>2 DEF Filled, CacheInv
<1>4. k \in Abstract!Cached
  BY <1>1, <1>2 DEF Cached
<1>5. Recent[i + 1] = k /\ \A j \in 1..n : Recent[j] = k => j = i + 1
  <2>1. Recent[i + 1] = k
    BY <1>1, <1>2, <1>3
  <2>2. ASSUME NEW j \in 1..n, Recent[j] = k PROVE j = i + 1
    <3>1. j - 1 \in Filled /\ slots[j - 1] = slots[i]
      BY <1>1, <1>2, <2>2, Zenon
    <3>2. j - 1 = i
      BY <3>1, Zenon DEF CacheInv
    <3> QED
      BY <1>3, <3>2
  <2> QED
    BY <2>1, <2>2
<1>6. (CHOOSE j \in 1..Len(Recent) : Recent[j] = k) = i + 1
  BY <1>2, <1>3, <1>5
<1> DEFINE Q == SubSeq(Recent, 1, (i + 1) - 1) \o SubSeq(Recent, (i + 1) + 1, Len(Recent))
           all == <<k>> \o Q
<1>7. Abstract!Others(k) = Q
  BY <1>4, <1>6, Zenon DEF Abstract!Others, Recent
<1>8. /\ Q \in Seq(Key) /\ Len(Q) = n - 1
      /\ \A j \in 1..(n - 1) : Q[j] = IF j < i + 1 THEN Recent[j] ELSE Recent[j + 1]
  BY <1>2, <1>3, CutOut
<1> HIDE DEF Q
<1>9. /\ all \in Seq(Key) /\ Len(all) = n
      /\ \A j \in 1..n : all[j] = IF j = 1 THEN k ELSE Q[j - 1]
  <2>1. /\ all \in Seq(Key) /\ Len(all) = Len(Q) + 1
        /\ \A j \in 1..(Len(Q) + 1) : all[j] = IF j = 1 THEN k ELSE Q[j - 1]
    BY <1>8, InFront
  <2> HIDE DEF all
  <2>2. Len(Q) + 1 = n
    BY <1>2, <1>8
  <2> QED
    BY <2>1, <2>2
<1> HIDE DEF all
<1>10. Recent' = all
  <2>1. Recent' = [j \in 1..n |-> IF j = 1 THEN k
                                ELSE IF j <= i + 1 THEN slots[j - 2] ELSE slots[j - 1]]
    BY <1>1, RecentNext
  <2>2. ASSUME NEW j \in 1..n
        PROVE  all[j] = IF j = 1 THEN k
                        ELSE IF j <= i + 1 THEN slots[j - 2] ELSE slots[j - 1]
    <3>1. CASE j = 1
      BY <1>9, <3>1
    <3>2. CASE j # 1
      <4>1. /\ j - 1 \in 1..(n - 1) /\ j - 1 \in 1..n /\ (j - 1) + 1 = j
            /\ (j - 1) - 1 = j - 2 /\ (j - 1 < i + 1 <=> j <= i + 1)
        BY <1>2, <1>3, <3>2
      <4>2. all[j] = IF j <= i + 1 THEN Recent[j - 1] ELSE Recent[j]
        BY <1>8, <1>9, <3>2, <4>1
      <4> QED
        BY <1>2, <3>2, <4>1, <4>2
    <3> QED
      BY <3>1, <3>2
  <2>3. all = [j \in 1..n |-> all[j]]
    BY <1>9
  <2> QED
    BY <2>1, <2>2, <2>3
<1>11. ~ Len(all) > capacity
  BY <1>3, <1>9
<1>12. Abstract!Access(k) <=>
         /\ state = "alive"
         /\ Recent' = IF Len(all) > capacity THEN SubSeq(all, 1, capacity) ELSE all
         /\ out' = [hit |-> k \in Abstract!Cached,
                    evicted |-> IF Len(all) > capacity THEN all[capacity + 1] ELSE None]
         /\ UNCHANGED <<capacity, state>>
  BY <1>7 DEF Abstract!Access, Recent, all
<1> QED
  BY <1>4, <1>10, <1>11, <1>12, Zenon DEF Hit

\* A miss with a free slot: one key more.
LEMMA MissFreeRefines ==
  ASSUME CacheInv, NEW k \in Key, MissFree(k)
  PROVE  Abstract!Access(k)
<1> DEFINE n == count
           all == <<k>> \o Recent
<1>1. Shift(k, n, n + 1)
  BY MissFreeShifts
<1>2. /\ n \in Nat /\ Recent \in Seq(Key) /\ Len(Recent) = n
      /\ \A j \in 1..n : Recent[j] = slots[j - 1] /\ j - 1 \in Filled
      /\ Abstract!Cached = Cached
  BY RecentIs
<1>3. capacity \in Nat /\ n + 1 <= capacity
  BY <1>2 DEF CacheInv, MissFree
<1>4. k \notin Abstract!Cached
  BY <1>2 DEF Cached, MissFree
<1>5. Abstract!Others(k) = Recent
  BY <1>4 DEF Abstract!Others, Recent
<1>6. /\ all \in Seq(Key) /\ Len(all) = n + 1
      /\ \A j \in 1..(n + 1) : all[j] = IF j = 1 THEN k ELSE Recent[j - 1]
  BY <1>2, InFront
<1> HIDE DEF all
<1>7. Recent' = all
  <2>1. Recent' = [j \in 1..(n + 1) |-> IF j = 1 THEN k
                                ELSE IF j <= n + 1 THEN slots[j - 2] ELSE slots[j - 1]]
    BY <1>1, RecentNext
  <2>2. ASSUME NEW j \in 1..(n + 1)
        PROVE  all[j] = IF j = 1 THEN k
                        ELSE IF j <= n + 1 THEN slots[j - 2] ELSE slots[j - 1]
    <3>1. CASE j = 1
      BY <1>6, <3>1
    <3>2. CASE j # 1
      <4>1. j - 1 \in 1..n /\ (j - 1) - 1 = j - 2 /\ j <= n + 1
        BY <1>2, <3>2
      <4> QED
        BY <1>2, <1>6, <3>2, <4>1
    <3> QED
      BY <3>1, <3>2
  <2>3. all = [j \in 1..(n + 1) |-> all[j]]
    BY <1>6
  <2> QED
    BY <2>1, <2>2, <2>3
<1>8. ~ Len(all) > capacity
  BY <1>2, <1>3, <1>6
<1>9. Abstract!Access(k) <=>
         /\ state = "alive"
         /\ Recent' = IF Len(all) > capacity THEN SubSeq(all, 1, capacity) ELSE all
         /\ out' = [hit |-> k \in Abstract!Cached,
                    evicted |-> IF Len(all) > capacity THEN all[capacity + 1] ELSE None]
         /\ UNCHANGED <<capacity, state>>
  BY <1>5 DEF Abstract!Access, Recent, all
<1>10. state = "alive" /\ out' = [hit |-> FALSE, evicted |-> None]
       /\ UNCHANGED <<capacity, state>>
  BY DEF MissFree
<1>11. (k \in Abstract!Cached) = FALSE
  BY <1>4
<1> QED
  BY <1>7, <1>8, <1>9, <1>10, <1>11, Zenon

\* A miss without one: the key accessed longest ago goes.
LEMMA MissFullRefines ==
  ASSUME CacheInv, NEW k \in Key, MissFull(k)
  PROVE  Abstract!Access(k)
<1> DEFINE n == count
           all == <<k>> \o Recent
<1>1. n = capacity /\ n - 1 \in Filled /\ Shift(k, n - 1, n)
  BY MissFullShifts
<1>2. /\ n \in Nat /\ Recent \in Seq(Key) /\ Len(Recent) = n
      /\ \A j \in 1..n : Recent[j] = slots[j - 1] /\ j - 1 \in Filled
      /\ Abstract!Cached = Cached
  BY RecentIs
<1>3. n \in 1..n
  BY <1>1, <1>2 DEF Filled
<1>4. k \notin Abstract!Cached
  BY <1>2 DEF Cached, MissFull
<1>5. Abstract!Others(k) = Recent
  BY <1>4 DEF Abstract!Others, Recent
<1>6. /\ all \in Seq(Key) /\ Len(all) = n + 1
      /\ \A j \in 1..(n + 1) : all[j] = IF j = 1 THEN k ELSE Recent[j - 1]
  BY <1>2, InFront
<1> HIDE DEF all
<1>7. Recent' = SubSeq(all, 1, n)
  <2>1. Recent' = [j \in 1..n |-> IF j = 1 THEN k
                     ELSE IF j <= (n - 1) + 1 THEN slots[j - 2] ELSE slots[j - 1]]
    BY <1>1, RecentNext
  <2>2. ASSUME NEW j \in 1..n
        PROVE  all[j] = IF j = 1 THEN k
                        ELSE IF j <= (n - 1) + 1 THEN slots[j - 2] ELSE slots[j - 1]
    <3>1. CASE j = 1
      BY <1>2, <1>6, <3>1
    <3>2. CASE j # 1
      <4>1. /\ j \in 1..(n + 1) /\ j - 1 \in 1..n /\ (j - 1) - 1 = j - 2
            /\ j <= (n - 1) + 1
        BY <1>2, <3>2
      <4> QED
        BY <1>2, <1>6, <3>2, <4>1
    <3> QED
      BY <3>1, <3>2
  <2>3. SubSeq(all, 1, n) = [j \in 1..n |-> all[j]]
    BY <1>2, <1>6
  <2> QED
    BY <2>1, <2>2, <2>3
<1>8. Len(all) > capacity /\ all[capacity + 1] = slots[n - 1]
  <2>1. n + 1 > n /\ n + 1 \in 1..(n + 1) /\ (n + 1) - 1 = n /\ n + 1 # 1
    BY <1>2, <1>3
  <2> QED
    BY <1>1, <1>2, <1>3, <1>6, <2>1
<1>9. Abstract!Access(k) <=>
         /\ state = "alive"
         /\ Recent' = IF Len(all) > capacity THEN SubSeq(all, 1, capacity) ELSE all
         /\ out' = [hit |-> k \in Abstract!Cached,
                    evicted |-> IF Len(all) > capacity THEN all[capacity + 1] ELSE None]
         /\ UNCHANGED <<capacity, state>>
  BY <1>5 DEF Abstract!Access, Recent, all
<1>10. state = "alive" /\ out' = [hit |-> FALSE, evicted |-> slots[n - 1]]
       /\ UNCHANGED <<capacity, state>>
  BY DEF MissFull
<1>11. (k \in Abstract!Cached) = FALSE
  BY <1>4
<1>12. Recent' = SubSeq(all, 1, capacity)
  BY <1>1, <1>7
<1> QED
  BY <1>8, <1>9, <1>10, <1>11, <1>12, Zenon

\* Before jfs_lru_init nothing is cached.
LEMMA InitRefines == Init => Abstract!Init
BY DEF Init, Abstract!Init

\* Every step of the program is one of the abstract cache, or none.
LEMMA NextRefines ==
  ASSUME IInv, IInv', [Next]_vars
  PROVE  [Abstract!Next]_(Abstract!vars)
<1>1. CacheInv /\ CacheInv'
  BY DEF IInv
<1>2. CASE UNCHANGED lruVars
  BY <1>2 DEF lruVars, Abstract!vars
<1>3. CASE LruInit
  <2>1. state = "new" /\ state' = "alive" /\ count' = count /\ out' = out
    BY <1>3 DEF LruInit
  <2>2. count = 0 /\ capacity' \in Nat \ {0}
    BY <1>1, <2>1 DEF CacheInv
  <2>3. Recent' = Recent
    BY <2>1, <2>2 DEF Recent
  <2>4. Abstract!Start
    BY <2>1, <2>2, <2>3 DEF Abstract!Start, Recent
  <2> QED
    BY <2>4 DEF Abstract!Next
<1>4. CASE Free
  <2>1. Abstract!Free
    BY <1>4 DEF Free, Abstract!Free
  <2> QED
    BY <2>1 DEF Abstract!Next
<1>5. ASSUME NEW k \in Key, Hit(k) \/ MissFree(k) \/ MissFull(k)
      PROVE  Abstract!Next
  <2>1. Abstract!Access(k)
    BY <1>1, <1>5, HitRefines, MissFreeRefines, MissFullRefines
  <2> QED
    BY <2>1 DEF Abstract!Next
<1>6. CASE UNCHANGED vars \/ LruInitError \/ MemoryFree \/ Ended
  <2>1. UNCHANGED lruVars
    BY <1>6 DEF vars, LruInitError, MemoryFree, Ended
  <2> QED
    BY <1>2, <2>1
<1> QED
  BY <1>2, <1>3, <1>4, <1>5, <1>6 DEF Next

\* For every capacity and any keys: jfs_lru_access keeps the keys accessed last
\* and evicts the one accessed longest ago, that is, the program implements
\* RecencyCache.
THEOREM ImplementsRecency == Spec => KeepsMostRecent
<1>1. Abstract!Spec <=> Abstract!Init /\ [][Abstract!Next]_(Abstract!vars)
  BY DEF Abstract!Spec
<1>2. IInv /\ IInv' /\ [Next]_vars => [Abstract!Next]_(Abstract!vars)
  BY NextRefines
<1> QED
  BY InitRefines, Inductive, <1>1, <1>2, PTL DEF Spec, KeepsMostRecent

=============================================================================
