------------------------- MODULE MCBinarySearchTree -------------------------
(***************************************************************************)
(* A small instance of BinarySearchTree.  What the addresses of the nodes  *)
(* are makes no difference to any call: two states that differ only in     *)
(* them are one to TLC, which compares states by TreeView.  A node is      *)
(* known there by where it is.                                             *)
(***************************************************************************)
EXTENDS BinarySearchTree

CONSTANT MaxKey

MCKey == 1..MaxKey

MCLess == -1

\* What a call can tell apart.  Nothing reads the links of a node that is on
\* the free list or lost, nor its value, unless it is cache.previous.
TreeView ==
  LET inTree == InTree
      behind == [n \in inTree |-> Behind(n, Capacity)]
      Place(n) ==
        IF n = Nil THEN <<>>
        ELSE IF n \in inTree THEN <<key[n]>>
        ELSE IF n \in ToSet(freeList)
        THEN <<"free", SelectInSeq(freeList, LAMBDA x : x = n)>>
        ELSE LET bases == {m \in inTree : Contains(behind[m], n)} IN
             IF bases = {} THEN <<"lost", 0>>
             ELSE <<"behind", {SelectInSeq(behind[m], LAMBDA x : x = n) : m \in bases}>>
  IN  << {<<key[n], tree.color[n], Place(tree.child[n]["left"]),
            Place(tree.child[n]["right"]), Place(tree.parent[n]),
            Len(behind[n])>> : n \in inTree},
         Len(freeList), Cardinality(astray), {Place(n) : n \in astray},
         Place(smallest), Place(largest),
         IF previous = Nil THEN <<>> ELSE <<Place(previous), key[previous]>>,
         tree.ok >>

=============================================================================
