---------------------------- MODULE MCSlabPages ----------------------------
(* A small instance of SlabPages for TLC. *)
EXTENDS SlabPages

Config(size, align, pages, threshold) ==
  [obj_size |-> size, obj_align |-> align, pages |-> pages,
   retire_threshold |-> threshold]

\* One allocator with any of these configurations, and one with plain slabs of
\* a page: what an allocator does depends on others only through their pages.
MCPrograms ==
  {[a \in Allocator |-> IF a = "A" THEN c ELSE Config(4, 4, 1, 0)] :
     c \in [obj_size : {0, 1, 3}, obj_align : {1, 3, 4, 16, 32}, pages : {1, 2, 3},
            retire_threshold : {0, 3}] \cup {Config(1, 0, 1, 0)}}

=============================================================================
