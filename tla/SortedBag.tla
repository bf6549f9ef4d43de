------------------------------ MODULE SortedBag ------------------------------
(***************************************************************************)
(* The calls of src/modules/binary_search_tree.c as operations on a bag of *)
(* values with limited room, in the order of their keys.  The header has   *)
(* prototypes only; what the calls do is read off the code.  A take does   *)
(* not remove what it finds in the cache, but copies it.                   *)
(***************************************************************************)
EXTENDS Integers, FiniteSetsExt

CONSTANT Key

VARIABLES
  items,  \* the values that are held, each a pair of an identity and a key
  room,   \* how many more it can hold
  copied, \* the keys a take leaves in place: those of the cache
  out     \* what the last call reported

Present == {v[2] : v \in items}

Reports(op, err, ks) == out' = [op |-> op, err |-> err, keys |-> ks]

Same == UNCHANGED <<items, room>>

Add(k) ==
  /\ room' = room - 1
  /\ LET before == items
         after == items'
     IN  \E v \in after \ before : v[2] = k /\ after = before \cup {v}

Remove(k) ==
  /\ room' = room + 1
  /\ LET before == items
         after == items'
     IN  \E v \in before \ after : v[2] = k /\ after = before \ {v}

Puts(k) ==
  \/ Reports("puts", "full", {k}) /\ room = 0 /\ Same
  \/ Reports("puts", "ok", {k}) /\ room > 0 /\ Add(k)

Takes(k) ==
  \/ Reports("takes", "empty", {k}) /\ Present = {} /\ Same
  \/ Reports("takes", "bad_key", {k}) /\ Present # {} /\ k \notin Present /\ Same
  \/ /\ Reports("takes", "ok", {k}) /\ k \in Present
     /\ IF k \in copied THEN Same ELSE Remove(k)

Get(s) ==
  \/ Reports(s, "empty", {}) /\ Present = {} /\ Same
  \/ \E k \in Key : /\ Reports(s, "ok", {k})
                    /\ k = IF s = "left" THEN Min(Present) ELSE Max(Present)
                    /\ Remove(k)

Next ==
  \/ \E k \in Key : Puts(k) \/ Takes(k)
  \/ \E s \in {"left", "right"} : Get(s)

=============================================================================
