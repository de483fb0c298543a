-------------------------- MODULE CompressionStore --------------------------
(***************************************************************************)
(* The cache of originals behind the context compression                   *)
(* (cobweaverclaw_compress/cache/compression_store.py) on each of its two  *)
(* backends: a dictionary of one process, or an SQLite file shared by the  *)
(* proxy's workers and the MCP server.  Every process has a lock, an       *)
(* eviction heap and a count of the heap's stale items of its own; one     *)
(* action is one call of the backend, and processes that share the file    *)
(* interleave between any two of them.  A write that fails leaves its      *)
(* connection inside the transaction Python began for it, so that the      *)
(* process goes on reading one state of the file and fails to write once   *)
(* the file has left that state.                                           *)
(*                                                                         *)
(* Abstracted: the contents (a key determines them), the fields of an      *)
(* entry other than created_at, custom time-to-lives, the feedback events  *)
(* and a file found corrupt.                                               *)
(***************************************************************************)
EXTENDS Integers, FiniteSets

CONSTANTS Proc,         \* the processes that may open the store
          Key,          \* hashes of stored originals
          TTL,          \* an entry older than this has expired
          MaxEntries,   \* max_entries of a store on each backend
          Bound         \* bounds, per backend: the last time of the clock, how
                        \* long a call waits for the lock, the store() calls,
                        \* the restarts and failed calls of SQLite together,
                        \* the writes refused in a transaction left open

ASSUME ConstantsAssumption ==
  /\ IsFiniteSet(Proc) /\ IsFiniteSet(Key)
  /\ MaxEntries \in [{"memory", "sqlite"} -> Nat \ {0}]
  /\ TTL \in Nat
  /\ Bound \in [{"memory", "sqlite"} ->
                  [clock : Nat, wait : Nat, stores : Nat, mishaps : Nat,
                   refusals : Nat]]

VARIABLES
  backend,    \* "memory" or "sqlite"
  workers,    \* the processes that use the store; one if it is in memory
  clock,      \* time.time()
  table,      \* the backend's rows: created_at per key, or Absent
  heap,       \* _eviction_heap of each process
  stale,      \* _stale_heap_entries of each process
  pc,         \* where the holder of each process's lock is
  job,        \* the entry or key it works on
  todo,       \* the keys _clean_expired found expired
  victim,     \* the item _evict_if_needed popped
  stored,     \* how many store() calls were made
  restarts,   \* how many processes were restarted
  faults,     \* how many calls of SQLite failed of themselves
  undone,     \* the keys whose row a retrieval's write-back changed
  txn,        \* each connection's transaction: none, left open by a failed
              \* write, or left open and read in since
  snapshot,   \* the rows that a connection of the last kind goes on seeing
  refused     \* how many writes were refused to such connections

vars == <<backend, workers, clock, table, heap, stale, pc, job, todo,
          victim, stored, restarts, faults, undone, txn, snapshot,
          refused>>

connection == <<txn, snapshot, refused>>

Absent == -1
\* Equal pairs may stand in a heap more than once: dup tells them apart.
Item == [key : Key, at : Nat, dup : Nat]
NoJob == [op |-> "none"]

NoRows == [k \in Key |-> Absent]

Live == {k \in Key : table[k] # Absent}

\* What a process reads.
Seen(p) == IF txn[p] = "reads" THEN snapshot[p] ELSE table

Shown(p) == {k \in Key : Seen(p)[k] # Absent}

\* is_expired, and the WHERE clause of the backend's purge.
Expired(at) == clock - at > TTL

ExpiredRows == {k \in Live : Expired(table[k])}

ExpiredShown(p) == {k \in Shown(p) : Expired(Seen(p)[k])}

\* Rows without the keys of K.
Without(K) == [k \in Key |-> IF k \in K THEN Absent ELSE table[k]]

\* The bounds leave room for a restart or a failed call.
Mishap == restarts + faults < Bound[backend].mishaps

\* A call of the backend: SQLite may fail, which is logged and read as a miss.
Call(fails) ==
  IF fails
  THEN /\ backend = "sqlite"
       /\ Mishap
       /\ faults' = faults + 1
  ELSE UNCHANGED faults

\* A call that reads.
Read(p, fails) ==
  /\ Call(fails)
  /\ IF txn[p] = "open" /\ ~fails
     THEN /\ txn' = [txn EXCEPT ![p] = "reads"]
          /\ snapshot' = [snapshot EXCEPT ![p] = table]
          /\ UNCHANGED refused
     ELSE UNCHANGED connection

\* A connection that read in a transaction can write in it only while the
\* file is as it read it.
MayWrite(p) == txn[p] = "reads" => snapshot[p] = table

\* The file may also have changed and be the same again: any write of a
\* connection that has read may be refused.
Refuse(p) ==
  /\ txn[p] = "reads"
  /\ refused < Bound[backend].refusals
  /\ refused' = refused + 1
  /\ UNCHANGED faults

\* A call that writes and commits, and so ends the transaction; if it fails
\* nobody ends it, or rolls it back.
Alter(p, fails, new) ==
  IF fails
  THEN /\ Refuse(p) \/ (Call(TRUE) /\ UNCHANGED refused)
       /\ txn' = [txn EXCEPT ![p] = IF @ = "none" THEN "open" ELSE @]
       /\ UNCHANGED <<table, snapshot>>
  ELSE /\ MayWrite(p)
       /\ table' = new
       /\ txn' = [txn EXCEPT ![p] = "none"]
       /\ snapshot' = [snapshot EXCEPT ![p] = NoRows]
       /\ UNCHANGED <<faults, refused>>

Init ==
  /\ \/ backend = "memory" /\ \E p \in Proc : workers = {p}
     \/ backend = "sqlite" /\ workers = Proc
  /\ clock = 0
  /\ table = NoRows
  /\ heap = [p \in Proc |-> {}]
  /\ stale = [p \in Proc |-> 0]
  /\ pc = [p \in Proc |-> "idle"]
  /\ job = [p \in Proc |-> NoJob]
  /\ todo = [p \in Proc |-> {}]
  /\ victim = [p \in Proc |-> {}]
  /\ stored = 0
  /\ restarts = 0
  /\ faults = 0
  /\ undone = {}
  /\ txn = [p \in Proc |-> "none"]
  /\ snapshot = [p \in Proc |-> NoRows]
  /\ refused = 0

Goto(p, l) == pc' = [pc EXCEPT ![p] = l]

\* The lock is released.
Return(p) ==
  /\ Goto(p, "idle")
  /\ job' = [job EXCEPT ![p] = NoJob]

\* _clean_expired, its items() call, which every store() begins with.
Clean(p) ==
  /\ pc[p] = "idle"
  /\ \E fails \in BOOLEAN :
       /\ Read(p, fails)
       /\ todo' = [todo EXCEPT ![p] = IF fails THEN {} ELSE ExpiredShown(p)]
  /\ Goto(p, "expire")

\* store() stamps its entry before it asks for the lock, which other threads
\* of the process may hold for a while.
BeginStore(p) ==
  /\ stored < Bound[backend].stores
  /\ stored' = stored + 1
  /\ \E k \in Key, t \in (clock - Bound[backend].wait) .. clock :
       /\ t >= 0
       /\ job' = [job EXCEPT ![p] = [op |-> "store", key |-> k, at |-> t]]
  /\ Clean(p)
  /\ UNCHANGED <<backend, workers, clock, table, heap, stale, victim, restarts,
                 undone>>

\* get_stats.
BeginStats(p) ==
  /\ job' = [job EXCEPT ![p] = [op |-> "stats"]]
  /\ Clean(p)
  /\ UNCHANGED <<backend, workers, clock, table, heap, stale, victim, stored,
                 restarts, undone>>

\* One round of its loop: the row goes by its key, whatever it is by now.
ExpireOne(p) ==
  /\ pc[p] = "expire"
  /\ \E k \in todo[p], fails \in BOOLEAN :
       /\ Alter(p, fails, Without({k}))
       /\ todo' = [todo EXCEPT ![p] = @ \ {k}]
  /\ stale' = [stale EXCEPT ![p] = @ + 1]
  /\ UNCHANGED <<backend, workers, clock, heap, pc, job, victim,
                 stored, restarts, undone>>

StatsDone(p) ==
  /\ pc[p] = "expire"
  /\ todo[p] = {}
  /\ job[p].op = "stats"
  /\ Read(p, FALSE)
  /\ Return(p)
  /\ UNCHANGED <<backend, workers, clock, table, heap, stale, todo,
                 victim, stored, restarts, undone>>

\* Half of the heap is stale.
HalfStale(p) == heap[p] # {} /\ 2 * stale[p] >= Cardinality(heap[p])

\* Mutant: the heap is never rebuilt.
RebuildNever(p) ==
  /\ pc[p] = "expire" /\ todo[p] = {} /\ job[p].op = "store"
  /\ Goto(p, "evict")
  /\ UNCHANGED <<backend, workers, clock, table, heap, stale, job, todo, victim,
                 stored, restarts, faults, undone, connection>>

\* The heap is rebuilt from the rows when it is time to.
Rebuild(p) ==
  /\ pc[p] = "expire"
  /\ todo[p] = {}
  /\ job[p].op = "store"
  /\ Goto(p, "evict")
  /\ IF HalfStale(p)
     THEN \E fails \in BOOLEAN :
            /\ Read(p, fails)
            /\ heap' = [heap EXCEPT ![p] =
                 IF fails THEN {}
                 ELSE {[key |-> k, at |-> Seen(p)[k], dup |-> 0] :
                          k \in Shown(p)}]
            /\ stale' = [stale EXCEPT ![p] = 0]
     ELSE UNCHANGED <<heap, stale, faults, connection>>
  /\ UNCHANGED <<backend, workers, clock, table, job, todo, victim,
                 stored, restarts, undone>>

\* Mutant: the heap's order is reversed.
PopNewest(p) ==
  /\ pc[p] = "evict"
  /\ Cardinality(Shown(p)) >= MaxEntries[backend]
  /\ Read(p, FALSE)
  /\ \E i \in heap[p] :
       /\ \A j \in heap[p] : i.at >= j.at
       /\ heap' = [heap EXCEPT ![p] = @ \ {i}]
       /\ victim' = [victim EXCEPT ![p] = {i}]
  /\ Goto(p, "match")
  /\ UNCHANGED <<backend, workers, clock, table, stale, job, todo, stored,
                 restarts, undone>>

\* The loop of _evict_if_needed: at capacity the oldest item is popped.
Pop(p) ==
  /\ pc[p] = "evict"
  /\ Cardinality(Shown(p)) >= MaxEntries[backend]
  /\ Read(p, FALSE)
  /\ \E i \in heap[p] :
       /\ \A j \in heap[p] : i.at <= j.at
       /\ heap' = [heap EXCEPT ![p] = @ \ {i}]
       /\ victim' = [victim EXCEPT ![p] = {i}]
  /\ Goto(p, "match")
  /\ UNCHANGED <<backend, workers, clock, table, stale, job, todo,
                 stored, restarts, undone>>

\* Mutant: one entry too many is left.
EvictDoneEarly(p) ==
  /\ pc[p] = "evict"
  /\ Cardinality(Shown(p)) <= MaxEntries[backend] \/ heap[p] = {}
  /\ Read(p, FALSE)
  /\ Goto(p, "existing")
  /\ UNCHANGED <<backend, workers, clock, table, heap, stale, job, todo, victim,
                 stored, restarts, undone>>

\* The loop ends below capacity, with an empty heap, or when count() fails
\* and returns 0.
EvictDone(p) ==
  /\ pc[p] = "evict"
  /\ \E fails \in BOOLEAN :
       /\ Read(p, fails)
       /\ ~fails => \/ Cardinality(Shown(p)) < MaxEntries[backend]
                    \/ heap[p] = {}
  /\ Goto(p, "existing")
  /\ UNCHANGED <<backend, workers, clock, table, heap, stale, job,
                 todo, victim, stored, restarts, undone>>

Matches(p, i) == Seen(p)[i.key] = i.at

\* Is the popped item still the entry's?
MatchVictim(p) ==
  /\ pc[p] = "match"
  /\ \E i \in victim[p] : Matches(p, i)
  /\ Read(p, FALSE)
  /\ Goto(p, "drop")
  /\ UNCHANGED <<backend, workers, clock, table, heap, stale, job,
                 todo, victim, stored, restarts, undone>>

\* Mutant: the counter has no floor.
SkipStaleNoFloor(p) ==
  /\ pc[p] = "match"
  /\ \E i \in victim[p] : ~Matches(p, i)
  /\ Read(p, FALSE)
  /\ stale' = [stale EXCEPT ![p] = @ - 1]
  /\ victim' = [victim EXCEPT ![p] = {}]
  /\ Goto(p, "evict")
  /\ UNCHANGED <<backend, workers, clock, table, heap, job, todo, stored,
                 restarts, undone>>

SkipStale(p) ==
  /\ pc[p] = "match"
  /\ \E i \in victim[p], fails \in BOOLEAN :
       /\ Read(p, fails)
       /\ ~fails => ~Matches(p, i)
  /\ stale' = [stale EXCEPT ![p] = IF @ > 0 THEN @ - 1 ELSE @]
  /\ victim' = [victim EXCEPT ![p] = {}]
  /\ Goto(p, "evict")
  /\ UNCHANGED <<backend, workers, clock, table, heap, job, todo,
                 stored, restarts, undone>>

Drop(p) ==
  /\ pc[p] = "drop"
  /\ \E i \in victim[p], fails \in BOOLEAN : Alter(p, fails, Without({i.key}))
  /\ victim' = [victim EXCEPT ![p] = {}]
  /\ Goto(p, "evict")
  /\ UNCHANGED <<backend, workers, clock, heap, stale, job, todo,
                 stored, restarts, undone>>

\* Mutant: a replaced entry's item is not counted as stale.
ExistingUncounted(p) ==
  /\ pc[p] = "existing"
  /\ Read(p, FALSE)
  /\ Goto(p, "write")
  /\ UNCHANGED <<backend, workers, clock, table, heap, stale, job, todo, victim,
                 stored, restarts, undone>>

\* store() looks for an entry it replaces, whose item becomes stale.
Existing(p) ==
  /\ pc[p] = "existing"
  /\ \E fails \in BOOLEAN :
       /\ Read(p, fails)
       /\ stale' = [stale EXCEPT ![p] =
                      IF ~fails /\ job[p].key \in Shown(p) THEN @ + 1 ELSE @]
  /\ Goto(p, "write")
  /\ UNCHANGED <<backend, workers, clock, table, heap, job, todo,
                 victim, stored, restarts, undone>>

\* Rows without the expired ones.
Purged(rows) ==
  [k \in Key |-> IF Expired(rows[k]) THEN Absent ELSE rows[k]]

\* set(k, entry), which in SQLite purges the expired rows too when the last
\* purge is old enough.  A failure is only logged: nothing was written, or
\* the row was and the purge failed.
Set(p, k, at) ==
  LET new == [table EXCEPT ![k] = at]
  IN \/ \E fails \in BOOLEAN : Alter(p, fails, new)
     \/ backend = "sqlite" /\ Alter(p, FALSE, Purged(new))
     \/ /\ MayWrite(p)
        /\ Call(TRUE)
        /\ table' = new
        /\ txn' = [txn EXCEPT ![p] = "open"]
        /\ snapshot' = [snapshot EXCEPT ![p] = NoRows]
        /\ UNCHANGED refused

Push(p, k, t) ==
  \E d \in 0 .. stored :
    LET item(n) == [key |-> k, at |-> t, dup |-> n]
    IN /\ item(d) \notin heap[p]
       /\ \A n \in 0 .. (d - 1) : item(n) \in heap[p]
       /\ heap' = [heap EXCEPT ![p] = @ \cup {item(d)}]

Write(p) ==
  /\ pc[p] = "write"
  /\ Set(p, job[p].key, job[p].at)
  /\ Push(p, job[p].key, job[p].at)
  /\ Return(p)
  /\ UNCHANGED <<backend, workers, clock, stale, todo, victim, stored,
                 restarts, undone>>

\* retrieve, get_metadata, exists and get_entry_status (with clean_expired)
\* find an expired entry.
FindExpired(p) ==
  /\ pc[p] = "idle"
  /\ \E k \in ExpiredShown(p) :
       job' = [job EXCEPT ![p] = [op |-> "look", key |-> k, at |-> Seen(p)[k]]]
  /\ Read(p, FALSE)
  /\ Goto(p, "forget")
  /\ UNCHANGED <<backend, workers, clock, table, heap, stale, todo, victim,
                 stored, restarts, undone>>

\* The expired entry is deleted by its key.
Forget(p) ==
  /\ pc[p] = "forget"
  /\ \E fails \in BOOLEAN : Alter(p, fails, Without({job[p].key}))
  /\ stale' = [stale EXCEPT ![p] = @ + 1]
  /\ Return(p)
  /\ UNCHANGED <<backend, workers, clock, heap, todo, victim, stored,
                 restarts, undone>>

\* retrieve() finds a good entry.
Find(p) ==
  /\ pc[p] = "idle"
  /\ \E k \in Shown(p) \ ExpiredShown(p) :
       job' = [job EXCEPT ![p] = [op |-> "look", key |-> k, at |-> Seen(p)[k]]]
  /\ Read(p, FALSE)
  /\ Goto(p, "touch")
  /\ UNCHANGED <<backend, workers, clock, table, heap, stale, todo, victim,
                 stored, restarts, undone>>

\* A reader that finds none, or only looks, returns as it came; all it may
\* do is read in a transaction that was left open.
Miss(p) ==
  /\ pc[p] = "idle"
  /\ txn[p] = "open"
  /\ Read(p, FALSE)
  /\ UNCHANGED <<backend, workers, clock, table, heap, stale, pc, job, todo,
                 victim, stored, restarts, undone>>

\* retrieve() writes back the entry it read, to count the access.
Touch(p) ==
  /\ pc[p] = "touch"
  /\ Set(p, job[p].key, job[p].at)
  /\ undone' = IF table'[job[p].key] \in {table[job[p].key], Absent}
               THEN undone ELSE undone \cup {job[p].key}
  /\ Return(p)
  /\ UNCHANGED <<backend, workers, clock, heap, stale, todo, victim,
                 stored, restarts>>

\* A process ends anywhere and is started again: opening the file purges it.
Restart(p) ==
  /\ Mishap
  /\ restarts' = restarts + 1
  /\ table' = IF backend = "memory" THEN NoRows ELSE Without(ExpiredRows)
  /\ heap' = [heap EXCEPT ![p] = {}]
  /\ stale' = [stale EXCEPT ![p] = 0]
  /\ todo' = [todo EXCEPT ![p] = {}]
  /\ victim' = [victim EXCEPT ![p] = {}]
  /\ txn' = [txn EXCEPT ![p] = "none"]
  /\ snapshot' = [snapshot EXCEPT ![p] = NoRows]
  /\ Return(p)
  /\ UNCHANGED <<backend, workers, clock, stored, faults, undone, refused>>

Tick ==
  /\ clock < Bound[backend].clock
  /\ clock' = clock + 1
  /\ UNCHANGED <<backend, workers, table, heap, stale, pc, job, todo,
                 victim, stored, restarts, faults, undone, connection>>

Step(p) ==
  \/ ExpireOne(p) \/ StatsDone(p) \/ Rebuild(p)
  \/ Pop(p) \/ EvictDone(p) \/ MatchVictim(p) \/ SkipStale(p) \/ Drop(p)
  \/ Existing(p) \/ Write(p)
  \/ Forget(p) \/ Touch(p)

Begin(p) == BeginStore(p) \/ BeginStats(p) \/ FindExpired(p) \/ Find(p)
            \/ Miss(p)

Next ==
  \/ \E p \in workers : Begin(p) \/ Step(p) \/ Restart(p)
  \/ Tick

Spec == Init /\ [][Next]_vars

-----------------------------------------------------------------------------
TypeOK ==
  /\ backend \in {"memory", "sqlite"}
  /\ workers \subseteq Proc
  /\ clock \in Nat
  /\ table \in [Key -> Nat \cup {Absent}]
  /\ heap \in [Proc -> SUBSET Item]
  /\ stale \in [Proc -> Nat]
  /\ pc \in [Proc -> {"idle", "expire", "evict", "match", "drop",
                      "existing", "write", "forget", "touch"}]
  /\ job \in [Proc -> {NoJob, [op |-> "stats"]}
                      \cup [op : {"store", "look"}, key : Key, at : Nat]]
  /\ todo \in [Proc -> SUBSET Key]
  /\ victim \in [Proc -> SUBSET Item]
  /\ stored \in Nat /\ restarts \in Nat /\ faults \in Nat /\ undone \subseteq Key
  /\ txn \in [Proc -> {"none", "open", "reads"}]
  /\ snapshot \in [Proc -> [Key -> Nat \cup {Absent}]] /\ refused \in Nat

\* In memory the stale counter is exact whenever the lock is free: the heap
\* holds one item per entry, plus the stale ones.  An undercount would let the
\* heap grow, an overcount would rebuild it at every call.
StaleExact ==
  \A p \in workers :
    backend = "memory" /\ pc[p] = "idle" =>
      Cardinality(heap[p]) = Cardinality(Live) + stale[p]

\* In memory every entry has an item in the heap whenever the lock is free:
\* none can escape eviction.
HeapCovers ==
  \A p \in workers :
    backend = "memory" /\ pc[p] = "idle" =>
      \A k \in Live : \E i \in heap[p] : i.key = k /\ i.at = table[k]

\* The eviction heap can be trusted with choosing and counting.
HeapExact == StaleExact /\ HeapCovers

\* In memory the rebuild keeps the heap below twice the capacity, however
\* often entries are replaced or expire.
HeapBounded ==
  \A p \in workers :
    backend = "memory" => Cardinality(heap[p]) < 2 * MaxEntries[backend]

\* In memory the capacity is never exceeded.  A shared file exceeds it by one
\* row at most for every further worker, every restart, every failed call and
\* every key whose row a retrieval's write-back brought back or made older.
CapacityKept ==
  Cardinality(Live) <=
    MaxEntries[backend] + IF backend = "memory" THEN 0
                 ELSE Cardinality(workers) - 1 + restarts + faults
                      + Cardinality(undone)

\* The rows of a store in memory; those of a shared file are the subject of
\* RemovesOldest.
MemoryRows == IF backend = "memory" THEN table ELSE NoRows

Bounded == INSTANCE BoundedStore WITH MaxEntries <- MaxEntries["memory"],
                              rows <- MemoryRows, now <- clock

\* In memory the store is a cache bounded in size and age: whatever the
\* threads do, a step stores an entry below capacity, drops entries that are
\* too old, or drops the one of a full cache that was stored longest ago (not
\* the least recently used one the class comment speaks of).
BoundedRefined == Bounded!Spec

\* An entry that is good and goes while the process lives is the oldest.
RemovesOldest ==
  [][restarts' = restarts =>
     \A k \in Live \ ExpiredRows :
       table'[k] = Absent => \A j \in Live : table[k] <= table[j]]_vars
=============================================================================
