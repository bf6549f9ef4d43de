-------------------------- MODULE BinarySearchTree --------------------------
(***************************************************************************)
(* The red-black tree of src/modules/binary_search_tree.c, with the free   *)
(* list (src/modules/free_list.c) its nodes come from.                     *)
(*                                                                         *)
(* A value is its key: cmp compares keys.  Values with one key form a list *)
(* behind the node of that key that is in the tree.  The callbacks attach  *)
(* and detach, which the tree calls for it, belong to its user; they do    *)
(* what bst_attach_node and bst_detach_node do with the link of a value,   *)
(* and a value that is put has an empty link.                              *)
(*                                                                         *)
(* A tree is a record, and the functions that change it map trees to       *)
(* trees.  Its field ok becomes FALSE when an assert fails: the process    *)
(* has stopped then.  What the code writes twice, for left and right, is   *)
(* written once with the side as a parameter.                              *)
(***************************************************************************)
EXTENDS Integers, Sequences, FiniteSets, SequencesExt

CONSTANTS
  Key,       \* the keys of the values
  Capacity,  \* desc.count of the component the nodes lie in
  Less,      \* what cmp returns when its first argument is the smaller one
  Greater,   \* ... and the larger one
  MaxMixed   \* bound: a put to so many nodes in use leaves all in the tree

ASSUME TreeAssumption ==
  /\ Key \subseteq Int /\ IsFiniteSet(Key)
  /\ Capacity \in Nat \ {0}
  /\ Less \in Int /\ Less < 0 /\ Greater \in Nat \ {0}
  /\ MaxMixed \in Nat

VARIABLES
  tree,      \* root and nodes
  smallest,  \* cache.smallest
  largest,   \* cache.largest
  previous,  \* cache.previous
  key,       \* key[n]: the value in node n, also after n was freed
  list,      \* list[n]: the next value behind n
  freeList,  \* free_list, the node that is handed out next first
  out,       \* what the last call reported
  astray     \* history: the nodes put behind a node that held no value

cacheVars == <<smallest, largest, previous>>
vars == <<tree, cacheVars, key, list, freeList, out, astray>>

Node == 1..Capacity

\* nil_storage of the tree.
Nil == 0

Side == {"left", "right"}

Other(s) == IF s = "left" THEN "right" ELSE "left"

-----------------------------------------------------------------------------
(* Trees. *)

\* bst_set_parent, bst_set_color, and the links to the children.
SetParent(t, n, p) == [t EXCEPT !.parent[n] = p]

SetColor(t, n, c) == [t EXCEPT !.color[n] = c]

SetChild(t, n, s, c) == [t EXCEPT !.child[n][s] = c]

\* An assert on the way to tree t.
Check(t, cond) == [t EXCEPT !.ok = @ /\ cond]

\* Parent p gets child new in the place of old; Nil is the parent of the root.
Replace(t, p, old, new) ==
  IF p = Nil THEN [t EXCEPT !.root = new]
  ELSE SetChild(t, p, IF t.child[p]["left"] = old THEN "left" ELSE "right", new)

\* Mutant: the inner subtree that changes sides keeps its parent.
RotateNoParent(t, x, s) ==
  LET o == Other(s)
      y == t.child[x][o]
      moved == SetChild(t, x, o, t.child[y][s])
      up == Replace(SetParent(moved, y, t.parent[x]), t.parent[x], x, y)
  IN  Check(SetParent(SetChild(up, y, s, x), x, y), x # Nil /\ y # Nil)

\* bst_rotate_left and bst_rotate_right: the child y of x on the other side
\* takes the place of x, and x becomes its child on side s.
Rotate(t, x, s) ==
  LET o == Other(s)
      y == t.child[x][o]
      inner == t.child[y][s]
      moved == SetChild(t, x, o, inner)
      told == IF inner # Nil THEN SetParent(moved, inner, x) ELSE moved
      up == Replace(SetParent(told, y, t.parent[x]), t.parent[x], x, y)
  IN  Check(SetParent(SetChild(up, y, s, x), x, y), x # Nil /\ y # Nil)

\* bst_transplant.
Transplant(t, old, new) ==
  Check(SetParent(Replace(t, t.parent[old], old, new), new, t.parent[old]),
        t.root # Nil /\ old # new)

\* bst_local_minimum (side left) and bst_local_maximum (side right).
RECURSIVE LocalEnd(_, _, _)
LocalEnd(t, n, s) ==
  IF t.child[n][s] = Nil THEN n ELSE LocalEnd(t, t.child[n][s], s)

Cmp(k, l) == IF k = l THEN 0 ELSE IF k < l THEN Less ELSE Greater

\* The loop of bst_find, at loc.
RECURSIVE FindFrom(_, _, _)
FindFrom(t, k, loc) ==
  IF loc.node = Nil \/ Cmp(k, key[loc.node]) = 0 THEN loc
  ELSE LET c == Cmp(k, key[loc.node]) IN
       FindFrom(t, k, [node   |-> t.child[loc.node][IF c < 0 THEN "left" ELSE "right"],
                       parent |-> loc.node,
                       cmp    |-> c])

\* bst_find: the node of k, or the place where it belongs.
Find(t, k) == FindFrom(t, k, [node |-> t.root, parent |-> Nil, cmp |-> 0])

\* Mutant: the test of the inner side looks at the outer one.
IsInnerSwapped(t, n, s) == n = t.child[t.parent[n]][s]

\* Node n is the child of its parent that lies towards the uncle, where s is
\* the side of the parent.
IsInner(t, n, s) == n = t.child[t.parent[n]][Other(s)]

\* The loop of bst_fixup_insert, at node n.
RECURSIVE FixupInsertLoop(_, _)
FixupInsertLoop(t, n) ==
  LET p == t.parent[n]
      g == t.parent[p]
      s == IF p = t.child[g]["left"] THEN "left" ELSE "right"
      o == Other(s)
      uncle == t.child[g][o]
      inner == IsInner(t, n, s)
      straight == IF inner THEN Rotate(t, p, s) ELSE t
      top == IF inner THEN straight.parent[p] ELSE p
  IN  IF t.color[p] = "black" THEN t
      ELSE IF t.color[uncle] = "red"
      THEN FixupInsertLoop(
             SetColor(SetColor(SetColor(Check(t, g # Nil), p, "black"),
                               uncle, "black"), g, "red"), g)
      ELSE Rotate(SetColor(SetColor(Check(straight, g # Nil), top, "black"),
                           g, "red"), g, o)

\* bst_fixup_insert.
FixupInsert(t, n) ==
  LET fixed == FixupInsertLoop(Check(t, n # Nil /\ t.root # Nil), n)
  IN  SetColor(fixed, fixed.root, "black")

\* bst_insert: node n goes where bst_find ended.
Insert(t, n, loc) ==
  LET fresh == [t EXCEPT !.child[n] = [left |-> Nil, right |-> Nil],
                         !.parent[n] = loc.parent, !.color[n] = "red"]
      linked == IF loc.parent = Nil
                THEN Check([fresh EXCEPT !.root = n], t.root = Nil)
                ELSE SetChild(Check(fresh, loc.cmp # 0), loc.parent,
                              IF loc.cmp = -1 THEN "left" ELSE "right", n)
  IN  FixupInsert(linked, n)

\* bst_fixup_delete, at node n.
RECURSIVE FixupDelete(_, _)
FixupDelete(t, n) ==
  LET p == t.parent[n]
      s == IF n = t.child[p]["left"] THEN "left" ELSE "right"
      o == Other(s)
      sibling == t.child[p][o]
      \* a red sibling is rotated up
      t1 == IF t.color[sibling] = "red"
            THEN Rotate(SetColor(SetColor(t, sibling, "black"), p, "red"), p, s)
            ELSE t
      w1 == t1.child[p][o]
      \* a red child of the sibling on the near side is rotated to the far one
      t2 == IF t1.color[t1.child[w1][o]] = "black"
            THEN Rotate(SetColor(SetColor(t1, t1.child[w1][s], "black"),
                                 w1, "red"), w1, o)
            ELSE t1
      w2 == t2.child[p][o]
      t3 == SetColor(SetColor(SetColor(t2, w2, t2.color[p]), p, "black"),
                     t2.child[w2][o], "black")
  IN  IF n = t.root \/ t.color[n] = "red" THEN SetColor(t, n, "black")
      ELSE IF \A c \in Side : t1.color[t1.child[w1][c]] = "black"
      THEN FixupDelete(SetColor(t1, w1, "red"), p)
      ELSE LET t4 == Rotate(t3, p, s) IN SetColor(t4, t4.root, "black")

\* Mutant: the colour that is gone is the one of the deleted node.
DeletedColorOfNode(t, n) == t.color[n]

\* deleted_color: the colour that is gone from its place.
DeletedColor(t, n) ==
  IF \E s \in Side : t.child[n][s] = Nil THEN t.color[n]
  ELSE t.color[LocalEnd(t, t.child[n]["right"], "left")]

\* bst_delete of a node with two children, up to the fixup: the next larger
\* node takes its place and colour.
DeleteInner(t, n) ==
  LET r == t.child[n]["right"]
      next == LocalEnd(t, r, "left")
      repl == t.child[next]["right"]
      out1 == IF next # r THEN Transplant(t, next, repl) ELSE t
      out2 == IF next # r
              THEN SetParent(SetChild(out1, next, "right", r), r, next)
              ELSE SetParent(out1, repl, next)
      in1 == SetChild(Transplant(out2, n, next), next, "left", t.child[n]["left"])
      in2 == SetParent(in1, t.child[n]["left"], next)
  IN  SetColor(in2, next, t.color[n])

\* bst_delete.
Delete(t, n) ==
  LET l == t.child[n]["left"]
      r == t.child[n]["right"]
      repl == IF l = Nil THEN r
              ELSE IF r = Nil THEN l
              ELSE t.child[LocalEnd(t, r, "left")]["right"]
      cut == IF l = Nil \/ r = Nil THEN Transplant(t, n, repl)
             ELSE DeleteInner(t, n)
  IN  IF DeletedColor(t, n) = "black"
      THEN FixupDelete(Check(cut, n # Nil), repl)
      ELSE Check(cut, n # Nil)

-----------------------------------------------------------------------------
(* The cache: the two ends of the tree and the node of the last call.       *)

\* bst_check_cache, with the values ks in the nodes.
CheckCache(ks, k) ==
  LET hits == SelectSeq(<<previous, largest, smallest>>,
                        LAMBDA n : n # Nil /\ Cmp(k, ks[n]) = 0)
  IN  IF hits = <<>> THEN Nil ELSE Head(hits)

\* bst_update_cache_insert, in tree t, after the insert at loc.
UpdateCacheInsert(t, loc) ==
  IF loc.cmp = -1 /\ loc.parent = smallest
  THEN smallest' = t.child[loc.parent]["left"] /\ UNCHANGED largest
  ELSE IF loc.cmp = 1 /\ loc.parent = largest
  THEN largest' = t.child[loc.parent]["right"] /\ UNCHANGED smallest
  ELSE IF largest = Nil
  THEN largest' = t.root /\ smallest' = t.root
  ELSE UNCHANGED <<smallest, largest>>

\* Mutant: the old end had no child.
NextEndParent(t, n, s) == t.parent[n]

\* The end of the tree on side s once its old end n is deleted: below the
\* old child of n on the other side, else the old parent of n.
NextEnd(t, n, s) ==
  LET c == t.child[n][Other(s)]
  IN  IF c # Nil THEN LocalEnd(t, c, s) ELSE t.parent[n]

\* bst_update_cache_delete, in tree t, from which n was deleted; its asserts
\* are those of CacheAsserts.
UpdateCacheDelete(t, n) ==
  IF smallest = largest THEN smallest' = Nil /\ largest' = Nil
  ELSE /\ smallest' = IF n = smallest THEN NextEnd(t, n, "left") ELSE smallest
       /\ largest' = IF n = largest THEN NextEnd(t, n, "right") ELSE largest

CacheAsserts(t, n) ==
  CASE smallest = largest -> n = t.root
    [] n = smallest       -> t.child[n]["left"] = Nil
    [] n = largest        -> t.child[n]["right"] = Nil
    [] OTHER              -> TRUE

-----------------------------------------------------------------------------
(* What is where.                                                           *)

RECURSIVE Below(_, _)
Below(t, n) ==
  IF n = Nil THEN {}
  ELSE {n} \cup Below(t, t.child[n]["left"]) \cup Below(t, t.child[n]["right"])

InTree == Below(tree, tree.root)

\* The values behind node n, in order, at most the given number of them.
RECURSIVE Behind(_, _)
Behind(n, most) ==
  IF most = 0 \/ list[n] = Nil THEN <<>>
  ELSE <<list[n]>> \o Behind(list[n], most - 1)

\* The nodes whose values a call can still reach.
Held ==
  InTree \cup UNION {ToSet(Behind(n, Capacity)) : n \in {m \in InTree : list[m] # Nil}}

\* The bound on the instances that are checked, for a put that leaves so many
\* more nodes outside the tree: behind one of its nodes, or astray.
RoomAside(more) ==
  LET used == Capacity - Len(freeList)
  IN  used < MaxMixed \/ used - Cardinality(InTree) + more = 0

-----------------------------------------------------------------------------
(* The operations.                                                          *)

\* fl_link_memory: each node goes in front of the one below it.
FirstFree == [i \in Node |-> Capacity + 1 - i]

\* jfs_bst_init.
Init ==
  /\ tree \in [root   : {Nil},
              child  : [Node \cup {Nil} -> [Side -> {Nil}]],
              parent : [Node \cup {Nil} -> {Nil}],
              color  : [Node \cup {Nil} -> {"black"}],
              ok     : {TRUE}]
  /\ smallest = Nil /\ largest = Nil /\ previous = Nil
  /\ key \in [Node -> {CHOOSE k \in Key : TRUE}]
  /\ list \in [Node -> {Nil}]
  /\ freeList = FirstFree
  /\ out = [op |-> "init", err |-> "ok", keys |-> {}]
  /\ astray = {}

Reports(op, err, ks) == out' = [op |-> op, err |-> err, keys |-> ks]

\* The node jfs_fl_alloc hands out, and the values once k is packed into it.
Fresh == Head(freeList)

Packed(k) == [key EXCEPT ![Fresh] = k]

\* Mutant: the two links are set in the other order.
AttachSwapped(base, n) == list' = [list EXCEPT ![n] = n, ![base] = n]

\* The callback attach: value n goes behind base.
Attach(base, n) ==
  list' = [list EXCEPT ![n] = IF n = base THEN n ELSE list[base], ![base] = n]

\* jfs_bst_puts, the nodes are used up.
PutsFull(k) ==
  /\ tree.ok /\ freeList = <<>>
  /\ Reports("puts", "full", {k})
  /\ UNCHANGED <<tree, cacheVars, key, list, freeList, astray>>

\* jfs_bst_puts, the key is in the cache.
PutsCached(k) ==
  LET cached == CheckCache(Packed(k), k) IN
  /\ tree.ok /\ freeList # <<>>
  /\ cached # Nil
  /\ RoomAside(1)
  /\ Attach(cached, Fresh)
  /\ astray' = IF cached \in Held THEN astray ELSE astray \cup {Fresh}
  /\ previous' = cached
  /\ key' = Packed(k)
  /\ freeList' = Tail(freeList)
  /\ Reports("puts", "ok", {k})
  /\ UNCHANGED <<tree, smallest, largest>>

\* jfs_bst_puts, the key is in the tree: the cache gets the value that was
\* put, which is not the node in the tree.
PutsDupe(k) ==
  LET loc == Find(tree, k) IN
  /\ tree.ok /\ freeList # <<>>
  /\ CheckCache(Packed(k), k) = Nil /\ loc.node # Nil
  /\ RoomAside(1)
  /\ Attach(loc.node, Fresh)
  /\ previous' = Fresh
  /\ key' = Packed(k)
  /\ freeList' = Tail(freeList)
  /\ Reports("puts", "ok", {k})
  /\ UNCHANGED <<tree, smallest, largest, astray>>

\* jfs_bst_puts, the key is new.
PutsNew(k) ==
  LET loc == Find(tree, k) IN
  /\ tree.ok /\ freeList # <<>>
  /\ CheckCache(Packed(k), k) = Nil /\ loc.node = Nil
  /\ RoomAside(0)
  /\ tree' = Insert(tree, Fresh, loc)
  /\ list' = [list EXCEPT ![Fresh] = Nil]
  /\ UpdateCacheInsert(tree', loc)
  /\ previous' = Fresh
  /\ key' = Packed(k)
  /\ freeList' = Tail(freeList)
  /\ Reports("puts", "ok", {k})
  /\ UNCHANGED astray

\* Mutant: the node in the tree leaves first.
DetachedBase(n) == n

\* The callback detach: the value that leaves when node n is asked for one.
Detached(n) == IF list[n] = Nil THEN n ELSE list[n]

\* bst_detach_and_delete.
DetachAndDelete(n) ==
  LET gone == Detached(n)
      cut == Delete(tree, n)
  IN  /\ IF gone = n
         THEN /\ tree' = Check(cut, tree.root # Nil /\ CacheAsserts(cut, n))
              /\ UpdateCacheDelete(cut, n)
              /\ UNCHANGED list
         ELSE /\ list' = [list EXCEPT ![n] = list[gone]]
              /\ UNCHANGED <<tree, smallest, largest>>
      /\ freeList' = <<gone>> \o freeList
      /\ UNCHANGED <<previous, key, astray>>

\* jfs_bst_takes, there is nothing to take.
TakesEmpty(k) ==
  /\ tree.ok /\ tree.root = Nil
  /\ Reports("takes", "empty", {k})
  /\ UNCHANGED <<tree, cacheVars, key, list, freeList, astray>>

\* jfs_bst_takes, the key is in the cache: the value is copied and stays.
TakesCached(k) ==
  LET cached == CheckCache(key, k) IN
  /\ tree.ok /\ tree.root # Nil
  /\ cached # Nil
  /\ Reports("takes", "ok", {key[cached]})
  /\ UNCHANGED <<tree, cacheVars, key, list, freeList, astray>>

\* jfs_bst_takes, the key is neither in the cache nor in the tree.
TakesMissing(k) ==
  /\ tree.ok /\ tree.root # Nil
  /\ CheckCache(key, k) = Nil /\ Find(tree, k).node = Nil
  /\ Reports("takes", "bad_key", {k})
  /\ UNCHANGED <<tree, cacheVars, key, list, freeList, astray>>

\* jfs_bst_takes, the key is in the tree only.
TakesFound(k) ==
  LET loc == Find(tree, k) IN
  /\ tree.ok /\ tree.root # Nil
  /\ CheckCache(key, k) = Nil /\ loc.node # Nil
  /\ DetachAndDelete(loc.node)
  /\ Reports("takes", "ok", {key[Detached(loc.node)]})

\* jfs_bst_get_smallest (side left) and jfs_bst_get_largest (side right).
End(s) == IF s = "left" THEN smallest ELSE largest

GetEmpty(s) ==
  /\ tree.ok /\ End(s) = Nil
  /\ Reports(s, "empty", {})
  /\ UNCHANGED <<tree, cacheVars, key, list, freeList, astray>>

GetEnd(s) ==
  /\ tree.ok /\ End(s) # Nil
  /\ DetachAndDelete(End(s))
  /\ Reports(s, "ok", {key[Detached(End(s))]})

\* A failed assert ends the process.
Stopped == ~tree.ok /\ UNCHANGED vars

Next ==
  \/ \E k \in Key : \/ PutsFull(k) \/ PutsCached(k) \/ PutsDupe(k) \/ PutsNew(k)
                    \/ TakesEmpty(k) \/ TakesCached(k)
                    \/ TakesMissing(k) \/ TakesFound(k)
  \/ \E s \in Side : GetEmpty(s) \/ GetEnd(s)
  \/ Stopped

Spec == Init /\ [][Next]_vars

-----------------------------------------------------------------------------
(* Properties.                                                              *)

\* After every call the nodes are a search tree whose links agree in both
\* directions: keys to the left of a node are smaller, keys to its right are
\* larger, and bst_parent leads back from every child (bst_insert, bst_delete,
\* the rotations).
SearchTree ==
  tree.ok =>
    /\ tree.parent[tree.root] = Nil \/ tree.root = Nil
    /\ \A n \in InTree :
         /\ \A m \in Below(tree, tree.child[n]["left"]) : key[m] < key[n]
         /\ \A m \in Below(tree, tree.child[n]["right"]) : key[m] > key[n]
         /\ \A s \in Side : LET c == tree.child[n][s] IN
              c # Nil => tree.parent[c] = n

\* The numbers of black nodes on the ways down from n.
RECURSIVE BlackHeights(_)
BlackHeights(n) ==
  IF n = Nil THEN {0}
  ELSE {h + (IF tree.color[n] = "black" THEN 1 ELSE 0) :
          h \in UNION {BlackHeights(tree.child[n][s]) : s \in Side}}

\* The fixups keep the tree balanced: the root and nil are black, no red node
\* has a red child, and all ways down have the same number of black nodes
\* (bst_fixup_insert, bst_fixup_delete).
RedBlack ==
  tree.ok =>
    /\ tree.color[tree.root] = "black" /\ tree.color[Nil] = "black"
    /\ \A n \in InTree : tree.color[n] = "red" =>
         \A s \in Side : tree.color[tree.child[n][s]] = "black"
    /\ Cardinality(BlackHeights(tree.root)) = 1

\* cache.smallest and cache.largest are the ends of the tree after every call,
\* though they are moved along the links of a node that is no longer in the
\* tree and after the rotations of the fixup (bst_update_cache_insert,
\* bst_update_cache_delete).
EndsExact ==
  tree.ok => /\ smallest = LocalEnd(tree, tree.root, "left")
             /\ largest = LocalEnd(tree, tree.root, "right")

\* A node is in one place, and there once: in the tree, behind one node of the
\* tree with its key, on the free list, or astray.  No call loses a node but a
\* put that meets a cache.previous whose node is not in use, and no node is
\* handed out while it is in use (jfs_bst_puts, bst_detach_and_delete,
\* jfs_fl_alloc, jfs_fl_free).
OnePlace ==
  LET behind == [n \in InTree |-> Behind(n, Capacity)] IN
  tree.ok =>
    /\ IsInjective(freeList) /\ Held \cap ToSet(freeList) = {}
    /\ astray = Node \ (Held \cup ToSet(freeList))
    /\ \A n \in InTree : /\ IsInjective(behind[n])
                         /\ ToSet(behind[n]) \cap InTree = {}
                         /\ \A m \in ToSet(behind[n]) : key[m] = key[n]
    /\ \A n, m \in InTree : n # m => ToSet(behind[n]) \cap ToSet(behind[m]) = {}

\* No assert of the module fails (bst_insert, bst_delete, the rotations, the
\* fixups, bst_transplant, bst_update_cache_delete).
TreeAssertsHold == tree.ok

\* An assert fails only in a call that has deleted the last node: no rotation
\* is asked for without a child to rotate up, no fixup runs without a
\* grandparent, nothing is inserted where a key is already, and an end of the
\* tree has no child on its side (bst_rotate_left, bst_rotate_right,
\* bst_fixup_insert, bst_insert, bst_update_cache_delete).
OtherAssertsHold == tree.ok \/ tree.root = Nil

\* The values that are held, each with the node it lies in.
Items == {<<n, key[n]>> : n \in Held}

Bag == INSTANCE SortedBag WITH
  items <- Items,
  room <- Len(freeList),
  copied <- {key[n] : n \in {previous, largest, smallest} \ {Nil}}

\* A call met cache.previous after bst_delete had freed its node, and found
\* the key it was given there: the value of a put is lost with its node, a
\* take copies a value that is gone.
MetFreed ==
  /\ previous \notin Held \cup {Nil} /\ key'[previous] \in out'.keys
  /\ out'.err = "ok" /\ UNCHANGED Items
  /\ \/ out'.op = "puts" /\ Len(freeList') = Len(freeList) - 1
     \/ out'.op = "takes" /\ UNCHANGED freeList

\* Every call does to the values what SortedBag says, with the same result: a
\* put adds its value, a take removes one with its key unless the key is in
\* the cache, and jfs_bst_get_smallest and jfs_bst_get_largest remove an end.
\* The exceptions are the puts and takes that meet a freed cache.previous.
ActsAsBag == [][tree'.ok => Bag!Next \/ MetFreed]_vars

=============================================================================
