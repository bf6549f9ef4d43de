----------------------------- MODULE MCLruCache -----------------------------
(* A small instance of LruCache and MemoryLayout for TLC. *)
EXTENDS LruCache

\* Sizes that are and are not multiples of the alignment, an alignment above
\* that of a pointer and one above the size of a node, no objects, sizes that
\* overflow for a cache and for a tree, an alignment that is no power of two,
\* and objects without a size.
MCDescArgs ==
  [size : {4, 24}, align : {4, 16}, count : {0, 2}]
    \cup {Desc(24, 64, 2), Desc(180, 4, 2), Desc(244, 4, 2), Desc(8, 3, 1),
          Desc(0, 8, 1)}

MCHeaderDescs == {Desc(5, 1, 1), Desc(32, 32, 1), Desc(8, 8, 0)}

=============================================================================
