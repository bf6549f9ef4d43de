---------------------------- MODULE RecencyCache ----------------------------
(***************************************************************************)
(* What a cache with least-recently-used replacement promises: it keeps    *)
(* its capacity of keys, those accessed last, and tells its user of each   *)
(* access whether it was a hit and which key it gave up for it.            *)
(***************************************************************************)
EXTENDS Integers, Sequences

CONSTANTS Key, None

VARIABLES
  recent,    \* the keys in the cache, the one accessed last first
  capacity,  \* how many keys it keeps
  state,     \* "new", "alive" or "freed"
  out        \* the answer to the last access

vars == <<recent, capacity, state, out>>

Cached == {recent[i] : i \in 1..Len(recent)}

\* recent without k.
Others(k) ==
  IF k \in Cached
  THEN LET i == CHOOSE i \in 1..Len(recent) : recent[i] = k
       IN  SubSeq(recent, 1, i - 1) \o SubSeq(recent, i + 1, Len(recent))
  ELSE recent

Init ==
  /\ recent = <<>> /\ capacity = 0 /\ state = "new"
  /\ out = [hit |-> FALSE, evicted |-> None]

Start ==
  /\ state = "new" /\ state' = "alive"
  /\ capacity' \in Nat \ {0}
  /\ UNCHANGED <<recent, out>>

Access(k) ==
  /\ state = "alive"
  /\ LET all == <<k>> \o Others(k) IN
       /\ recent' = IF Len(all) > capacity THEN SubSeq(all, 1, capacity) ELSE all
       /\ out' = [hit     |-> k \in Cached,
                  evicted |-> IF Len(all) > capacity THEN all[capacity + 1]
                              ELSE None]
  /\ UNCHANGED <<capacity, state>>

Free ==
  state = "alive" /\ state' = "freed" /\ UNCHANGED <<recent, capacity, out>>

Next == Start \/ Free \/ \E k \in Key : Access(k)

Spec == Init /\ [][Next]_vars

=============================================================================
