---------------------------- MODULE BoundedStore ----------------------------
(***************************************************************************)
(* What a cache of bounded size and bounded age does: an entry stays until *)
(* it is too old, or until the cache is full and the entry is the one      *)
(* stored longest ago ("remove oldest entries", compression_store.py:686). *)
(* It is not the "LRU-style eviction" of that file's class comment (203):  *)
(* reading an entry changes nothing here.  Nothing is said of locks,       *)
(* heaps, workers or files.                                                *)
(***************************************************************************)
EXTENDS Integers, FiniteSets

CONSTANTS Key,          \* the hashes under which originals are stored
          TTL,          \* an entry older than this has expired
          MaxEntries    \* the capacity of the cache

VARIABLES rows,         \* per key the time it was stored, or Absent
          now           \* the clock

Absent == -1

Present == {k \in Key : rows[k] # Absent}

Overdue(k) == rows[k] # Absent /\ now - rows[k] > TTL

Init == rows = [k \in Key |-> Absent] /\ now = 0

\* An original is stored, under a time stamp taken a while ago perhaps.
Put(k, t) ==
  /\ Cardinality(Present \ {k}) < MaxEntries
  /\ rows' = [rows EXCEPT ![k] = t]
  /\ UNCHANGED now

\* Entries that are too old go.
Expire(K) ==
  /\ \A k \in K : Overdue(k)
  /\ rows' = [k \in Key |-> IF k \in K THEN Absent ELSE rows[k]]
  /\ UNCHANGED now

\* The cache is full: the oldest entry goes.
Evict(k) ==
  /\ k \in Present
  /\ Cardinality(Present) >= MaxEntries
  /\ \A j \in Present : rows[k] <= rows[j]
  /\ rows' = [rows EXCEPT ![k] = Absent]
  /\ UNCHANGED now

\* The process ends and the cache with it.
Lose == rows' = [k \in Key |-> Absent] /\ UNCHANGED now

Tick == now' = now + 1 /\ UNCHANGED rows

Next ==
  \/ \E k \in Key, t \in 0 .. now : Put(k, t)
  \/ \E K \in SUBSET Key : Expire(K)
  \/ \E k \in Key : Evict(k)
  \/ Lose
  \/ Tick

Spec == Init /\ [][Next]_<<rows, now>>
=============================================================================
