------------------------ MODULE CompressionStoreProofs ------------------------
(***************************************************************************)
(* What holds of CompressionStore for every set of keys, capacity,         *)
(* time-to-live and bound: its types on either backend; on the in-memory   *)
(* one the heap's book-keeping and the refinement of BoundedStore; and on a    *)
(* file shared by any number of workers how far the rows exceed the        *)
(* capacity.                                                               *)
(***************************************************************************)
EXTENDS CompressionStore, FiniteSetTheorems, TLAPS

StoreJob == [op : {"store"}, key : Key, at : Nat]
LookJob == [op : {"look"}, key : Key, at : Nat]

(* Beyond its types: the holder of a lock has the job its place implies,   *)
(* and a store in memory has no transactions.                              *)
JobTyped(p) ==
  /\ pc[p] = "expire" => job[p] \in StoreJob \cup {[op |-> "stats"]}
  /\ pc[p] \in {"evict", "match", "drop", "existing", "write"} =>
       job[p] \in StoreJob
  /\ pc[p] \in {"forget", "touch"} => job[p] \in LookJob

NoTxn == backend = "memory" => \A p \in Proc : txn[p] = "none"

TypeInv == TypeOK /\ NoTxn /\ \A p \in Proc : JobTyped(p)

(* What a call of the backend may change.                                  *)
Row == Nat \cup {Absent}
Rows == [Key -> Row]
FileTyped ==
  /\ table \in Rows
  /\ faults \in Nat /\ refused \in Nat
  /\ txn \in [Proc -> {"none", "open", "reads"}]
  /\ snapshot \in [Proc -> Rows]
  /\ NoTxn

LEMMA InitTypeInv == Init => TypeInv
BY DEF Init, TypeInv, TypeOK, JobTyped, Absent, NoJob, NoTxn, NoRows

LEMMA SeenType ==
  ASSUME TypeOK, NEW p \in Proc
  PROVE  Seen(p) \in Rows
BY DEF TypeOK, Seen, Row, Rows

LEMMA CallType ==
  ASSUME TypeOK, NEW fails \in BOOLEAN, Call(fails)
  PROVE  faults' \in Nat
BY DEF TypeOK, Call

LEMMA FileTypes == TypeInv => FileTyped
BY DEF TypeInv, TypeOK, FileTyped, Row, Rows

LEMMA ConnectionType ==
  ASSUME FileTyped, NEW p \in Proc, NEW m \in {"none", "open", "reads"}, NEW rows \in Rows
  PROVE  /\ [txn EXCEPT ![p] = m] \in [Proc -> {"none", "open", "reads"}]
         /\ [snapshot EXCEPT ![p] = rows] \in [Proc -> Rows]
         /\ (m = "none" \/ backend = "sqlite") /\ backend = "memory" =>
              \A q \in Proc : [txn EXCEPT ![p] = m][q] = "none"
BY DEF FileTyped, NoTxn

LEMMA ReadType ==
  ASSUME TypeInv, UNCHANGED <<backend, table>>, NEW p \in Proc, NEW fails \in BOOLEAN,
         Read(p, fails)
  PROVE  FileTyped'
<1>0. FileTyped /\ faults' \in Nat /\ table \in Rows
  BY CallType, FileTypes DEF Read, TypeInv, FileTyped
<1>1. CASE txn[p] = "open" /\ ~fails
  <2>1. /\ txn' = [txn EXCEPT ![p] = "reads"]
        /\ snapshot' = [snapshot EXCEPT ![p] = table]
        /\ refused' = refused
    BY <1>1 DEF Read
  <2>2. backend # "memory"
    BY <1>0, <1>1 DEF FileTyped, NoTxn
  <2>3. txn' \in [Proc -> {"none", "open", "reads"}] /\ snapshot' \in [Proc -> Rows]
    BY <1>0, <2>1, ConnectionType
  <2> QED
    BY <1>0, <2>1, <2>2, <2>3 DEF FileTyped, NoTxn
<1>2. CASE ~(txn[p] = "open" /\ ~fails)
  BY <1>0, <1>2 DEF Read, FileTyped, NoTxn, connection
<1> QED
  BY <1>1, <1>2

LEMMA WithoutType ==
  ASSUME TypeOK, NEW K
  PROVE  Without(K) \in Rows
BY DEF TypeOK, Without, Row, Rows

LEMMA NoRowsType == NoRows \in Rows
BY DEF NoRows, Row, Rows

LEMMA AlterType ==
  ASSUME TypeInv, UNCHANGED backend, NEW p \in Proc, NEW fails \in BOOLEAN,
         NEW new \in Rows, Alter(p, fails, new)
  PROVE  FileTyped'
<1>0. FileTyped
  BY FileTypes
<1>1. CASE fails
  <2>1. faults' \in Nat /\ refused' \in Nat /\ backend # "memory"
    BY <1>0, <1>1 DEF Alter, Refuse, Call, FileTyped, NoTxn
  <2>2. PICK m \in {"none", "open", "reads"} : txn' = [txn EXCEPT ![p] = m]
    <3>1. txn[p] \in {"none", "open", "reads"}
      BY <1>0 DEF FileTyped
    <3> QED
      BY <1>1, <3>1 DEF Alter
  <2>3. txn' \in [Proc -> {"none", "open", "reads"}]
    BY <1>0, <2>2 DEF FileTyped
  <2> QED
    BY <1>0, <1>1, <2>1, <2>3 DEF Alter, FileTyped, NoTxn
<1>2. CASE ~fails
  <2>1. /\ txn' = [txn EXCEPT ![p] = "none"] /\ snapshot' = [snapshot EXCEPT ![p] = NoRows]
        /\ table' = new /\ UNCHANGED <<faults, refused>>
    BY <1>2 DEF Alter
  <2>2. /\ txn' \in [Proc -> {"none", "open", "reads"}] /\ snapshot' \in [Proc -> Rows]
        /\ backend = "memory" => \A q \in Proc : txn'[q] = "none"
    BY <1>0, <2>1, NoRowsType, ConnectionType
  <2> QED
    BY <1>0, <2>1, <2>2 DEF FileTyped, NoTxn
<1> QED
  BY <1>1, <1>2

(* The two ways in which a call set(k, entry) that wrote its row ends.     *)
NewRows(k, t) == [table EXCEPT ![k] = t]
PurgeFails(p, k, t) ==
  /\ backend = "sqlite" /\ faults' = faults + 1 /\ UNCHANGED refused
  /\ table' = NewRows(k, t)
  /\ txn' = [txn EXCEPT ![p] = "open"]
  /\ snapshot' = [snapshot EXCEPT ![p] = NoRows]

LEMMA SetCases ==
  ASSUME TypeInv, NEW p \in Proc, NEW k \in Key, NEW t \in Nat, Set(p, k, t)
  PROVE  /\ NewRows(k, t) \in Rows /\ Purged(NewRows(k, t)) \in Rows
         /\ \/ \E fails \in BOOLEAN : Alter(p, fails, NewRows(k, t))
            \/ backend = "sqlite" /\ Alter(p, FALSE, Purged(NewRows(k, t)))
            \/ PurgeFails(p, k, t)
<1>1. NewRows(k, t) \in Rows
  BY DEF TypeInv, TypeOK, NewRows, Row, Rows
<1>2. Purged(NewRows(k, t)) \in Rows
  BY <1>1 DEF Purged, Row, Rows
<1>3. \/ \E fails \in BOOLEAN : Alter(p, fails, NewRows(k, t))
      \/ backend = "sqlite" /\ Alter(p, FALSE, Purged(NewRows(k, t)))
      \/ PurgeFails(p, k, t)
  BY DEF Set, NewRows, PurgeFails, Call
<1> QED
  BY <1>1, <1>2, <1>3

LEMMA SetType ==
  ASSUME TypeInv, UNCHANGED backend, NEW p \in Proc, NEW k \in Key, NEW t \in Nat,
         Set(p, k, t)
  PROVE  FileTyped'
<1>1. CASE PurgeFails(p, k, t)
  <2>1. FileTyped /\ table' \in Rows
    BY <1>1, FileTypes, SetCases DEF PurgeFails
  <2>2. txn' \in [Proc -> {"none", "open", "reads"}] /\ snapshot' \in [Proc -> Rows]
    BY <1>1, <2>1, NoRowsType, ConnectionType DEF PurgeFails
  <2> QED
    BY <1>1, <2>1, <2>2 DEF PurgeFails, FileTyped, NoTxn
<1>2. CASE ~PurgeFails(p, k, t)
  BY <1>2, SetCases, AlterType
<1> QED
  BY <1>1, <1>2

LEMMA PushType ==
  ASSUME TypeOK, NEW p \in Proc, NEW k \in Key, NEW t \in Nat, Push(p, k, t)
  PROVE  heap' \in [Proc -> SUBSET Item]
<1>1. stored \in Nat
  BY DEF TypeOK
<1>2. PICK d \in 0 .. stored :
        heap' = [heap EXCEPT ![p] = @ \cup {[key |-> k, at |-> t, dup |-> d]}]
  BY DEF Push
<1>3. [key |-> k, at |-> t, dup |-> d] \in Item
  BY <1>1 DEF Item
<1> QED
  BY <1>2, <1>3 DEF TypeOK

(* The variables that only the process itself changes.                     *)
OwnTyped ==
  /\ backend \in {"memory", "sqlite"}
  /\ workers \subseteq Proc
  /\ clock \in Nat
  /\ heap \in [Proc -> SUBSET Item]
  /\ stale \in [Proc -> Nat]
  /\ pc \in [Proc -> {"idle", "expire", "evict", "match", "drop",
                      "existing", "write", "forget", "touch"}]
  /\ job \in [Proc -> {NoJob, [op |-> "stats"]}
                      \cup [op : {"store", "look"}, key : Key, at : Nat]]
  /\ todo \in [Proc -> SUBSET Key]
  /\ victim \in [Proc -> SUBSET Item]
  /\ stored \in Nat /\ restarts \in Nat /\ undone \subseteq Key
  /\ \A p \in Proc : JobTyped(p)

LEMMA TypeParts == TypeInv <=> FileTyped /\ OwnTyped
BY DEF TypeInv, TypeOK, FileTyped, OwnTyped, Row, Rows

LEMMA TypePartsNext == FileTyped' /\ OwnTyped' => TypeInv'
BY DEF TypeInv, TypeOK, FileTyped, OwnTyped, Row, Rows

LEMMA BeginType ==
  ASSUME TypeInv, NEW p \in Proc, Begin(p)
  PROVE  TypeInv'
<1>1. UNCHANGED <<backend, table>>
  BY DEF Begin, BeginStore, BeginStats, FindExpired, Find, Miss
<1>2. \E fails \in BOOLEAN : Read(p, fails)
  BY DEF Begin, BeginStore, BeginStats, FindExpired, Find, Miss, Clean
<1>3. FileTyped'
  BY <1>1, <1>2, ReadType
<1>4. OwnTyped
  BY TypeParts
<1>10. /\ Shown(p) \subseteq Key /\ ExpiredShown(p) \subseteq Key
       /\ ExpiredShown(p) \subseteq Shown(p)
  BY DEF Shown, ExpiredShown
<1>11. \A k \in Shown(p) : Seen(p)[k] \in Nat
  BY SeenType DEF TypeInv, Shown, Row, Rows
<1> USE DEF OwnTyped, JobTyped, Goto, StoreJob, LookJob
<1>5. CASE BeginStore(p)
  <2>1. PICK k \in Key, t \in (clock - Bound[backend].wait) .. clock :
          /\ t >= 0
          /\ job' = [job EXCEPT ![p] = [op |-> "store", key |-> k, at |-> t]]
    BY <1>5 DEF BeginStore
  <2>2. t \in Nat
    BY <1>4, <2>1 DEF ConstantsAssumption
  <2>3. OwnTyped'
    BY <1>4, <1>5, <1>10, <2>1, <2>2 DEF BeginStore, Clean
  <2> QED
    BY <1>3, <2>3, TypePartsNext
<1>6. CASE BeginStats(p)
  <2>1. OwnTyped'
    BY <1>4, <1>6, <1>10 DEF BeginStats, Clean
  <2> QED
    BY <1>3, <2>1, TypePartsNext
<1>7. CASE FindExpired(p)
  <2>1. OwnTyped'
    BY <1>4, <1>7, <1>10, <1>11 DEF FindExpired
  <2> QED
    BY <1>3, <2>1, TypePartsNext
<1>8. CASE Find(p)
  <2>1. OwnTyped'
    BY <1>4, <1>8, <1>10, <1>11 DEF Find
  <2> QED
    BY <1>3, <2>1, TypePartsNext
<1>9. CASE Miss(p)
  <2>1. OwnTyped'
    BY <1>4, <1>9 DEF Miss
  <2> QED
    BY <1>3, <2>1, TypePartsNext
<1> QED
  BY <1>5, <1>6, <1>7, <1>8, <1>9 DEF Begin

LEMMA StepFileType ==
  ASSUME TypeInv, NEW p \in Proc, Step(p)
  PROVE  FileTyped'
<1>0. FileTyped /\ \A K : Without(K) \in Rows
  BY TypeParts, WithoutType DEF TypeInv
<1>1. UNCHANGED backend
  BY DEF Step, ExpireOne, StatsDone, Rebuild, Pop, EvictDone, MatchVictim, SkipStale, Drop,
     Existing, Write, Forget, Touch
<1>2. CASE ExpireOne(p)
  BY <1>0, <1>1, <1>2, AlterType DEF ExpireOne
<1>3. CASE Drop(p)
  BY <1>0, <1>1, <1>3, AlterType DEF Drop
<1>4. CASE Forget(p)
  BY <1>0, <1>1, <1>4, AlterType DEF Forget
<1>5. CASE Write(p) \/ Touch(p)
  <2>1. job[p].key \in Key /\ job[p].at \in Nat /\ Set(p, job[p].key, job[p].at)
    BY <1>5 DEF Write, Touch, TypeInv, JobTyped, StoreJob, LookJob
  <2> QED
    BY <1>1, <2>1, SetType
<1>6. CASE Rebuild(p) /\ ~HalfStale(p)
  BY <1>0, <1>1, <1>6 DEF Rebuild, FileTyped, NoTxn, connection
<1>7. CASE StatsDone(p) \/ Pop(p) \/ MatchVictim(p)
  <2>1. Read(p, FALSE) /\ UNCHANGED table
    BY <1>7 DEF StatsDone, Pop, MatchVictim
  <2> QED
    BY <1>1, <2>1, ReadType
<1>8. CASE (Rebuild(p) /\ HalfStale(p)) \/ EvictDone(p) \/ SkipStale(p) \/ Existing(p)
  <2>1. (\E fails \in BOOLEAN : Read(p, fails)) /\ UNCHANGED table
    BY <1>8 DEF Rebuild, EvictDone, SkipStale, Existing
  <2> QED
    BY <1>1, <2>1, ReadType
<1> QED
  BY <1>2, <1>3, <1>4, <1>5, <1>6, <1>7, <1>8 DEF Step

LEMMA StepOwnType ==
  ASSUME TypeInv, NEW p \in Proc, Step(p)
  PROVE  OwnTyped'
<1>0. OwnTyped
  BY TypeParts
<1> USE DEF OwnTyped, JobTyped, Goto, Return, NoJob, StoreJob, LookJob
<1>1. CASE ExpireOne(p)
  BY <1>0, <1>1 DEF ExpireOne
<1>2. CASE StatsDone(p)
  BY <1>0, <1>2 DEF StatsDone
<1>3. CASE Rebuild(p)
  <2>1. {[key |-> k, at |-> Seen(p)[k], dup |-> 0] : k \in Shown(p)} \subseteq Item
    BY SeenType DEF TypeInv, Shown, Item, Row, Rows
  <2>2. heap' \in [Proc -> SUBSET Item] /\ stale' \in [Proc -> Nat]
    BY <1>0, <1>3, <2>1 DEF Rebuild
  <2>3. job[p] \in StoreJob
    BY <1>0, <1>3 DEF Rebuild
  <2> QED
    BY <1>0, <1>3, <2>2, <2>3 DEF Rebuild
<1>4. CASE Pop(p)
  BY <1>0, <1>4 DEF Pop
<1>5. CASE EvictDone(p)
  BY <1>0, <1>5 DEF EvictDone
<1>6. CASE MatchVictim(p)
  BY <1>0, <1>6 DEF MatchVictim
<1>7. CASE SkipStale(p)
  BY <1>0, <1>7 DEF SkipStale
<1>8. CASE Drop(p)
  BY <1>0, <1>8 DEF Drop
<1>9. CASE Existing(p)
  BY <1>0, <1>9 DEF Existing
<1>10. CASE Write(p)
  <2>1. job[p].key \in Key /\ job[p].at \in Nat
    BY <1>0, <1>10 DEF Write
  <2>2. heap' \in [Proc -> SUBSET Item]
    BY <1>10, <2>1, PushType DEF Write, TypeInv
  <2> QED
    BY <1>0, <1>10, <2>2 DEF Write
<1>11. CASE Forget(p)
  BY <1>0, <1>11 DEF Forget
<1>12. CASE Touch(p)
  BY <1>0, <1>12 DEF Touch
<1> QED
  BY <1>1, <1>2, <1>3, <1>4, <1>5, <1>6, <1>7, <1>8, <1>9, <1>10, <1>11, <1>12
  DEF Step

LEMMA NextTypeInv == TypeInv /\ [Next]_vars => TypeInv'
<1> SUFFICES ASSUME TypeInv, [Next]_vars PROVE TypeInv'
  OBVIOUS
<1>0. workers \subseteq Proc
  BY DEF TypeInv, TypeOK
<1>1. CASE \E p \in workers : Begin(p)
  BY <1>0, <1>1, BeginType
<1>2. CASE \E p \in workers : Step(p)
  BY <1>0, <1>2, StepFileType, StepOwnType, TypePartsNext
<1>3. ASSUME NEW p \in workers, Restart(p) PROVE TypeInv'
  <2>1. FileTyped'
    <3>1. FileTyped /\ p \in Proc /\ table' \in Rows
      BY <1>0, <1>3, WithoutType, NoRowsType, TypeParts DEF Restart, TypeInv
    <3>2. /\ txn' \in [Proc -> {"none", "open", "reads"}] /\ snapshot' \in [Proc -> Rows]
          /\ backend = "memory" => \A q \in Proc : txn'[q] = "none"
      BY <1>3, <3>1, NoRowsType, ConnectionType DEF Restart
    <3> QED
      BY <1>3, <3>1, <3>2 DEF Restart, FileTyped, NoTxn
  <2>2. OwnTyped'
    BY <1>0, <1>3, TypeParts DEF Restart, OwnTyped, JobTyped, Goto, Return, NoJob
  <2> QED
    BY <2>1, <2>2, TypePartsNext
<1>4. CASE Tick
  BY <1>4 DEF Tick, TypeInv, TypeOK, JobTyped, NoTxn, connection
<1>5. CASE UNCHANGED vars
  BY <1>5 DEF vars, TypeInv, TypeOK, JobTyped, NoTxn
<1> QED
  BY <1>1, <1>2, <1>3, <1>4, <1>5 DEF Next

LEMMA TypeAlways == Spec => []TypeInv
<1> QED
  BY InitTypeInv, NextTypeInv, PTL DEF Spec

(* On either backend, with any number of workers, restarts and failed      *)
(* calls, every variable keeps its type; in particular no count of stale   *)
(* items becomes negative.                                                 *)
THEOREM TypesKept == Spec => []TypeOK
BY TypeAlways, PTL DEF TypeInv

-----------------------------------------------------------------------------
(* The in-memory backend.  Between two calls of the holder of the lock the *)
(* book-keeping is off by what it has taken from the heap (Popped) or      *)
(* counted in advance (Counted); at the other places it is exact.          *)
Popped(p) == IF pc[p] \in {"match", "drop"} THEN 1 ELSE 0
Counted(p) == IF pc[p] = "write" /\ job[p].key \in Live THEN 1 ELSE 0

HeapInv(p) ==
  /\ IsFiniteSet(heap[p])
  /\ \A k \in Live : \E i \in heap[p] \cup victim[p] : i.key = k /\ i.at = table[k]
  /\ Cardinality(heap[p]) + Popped(p) + Counted(p) = Cardinality(Live) + stale[p]

(* A full store leaves the eviction loop with one entry less, and its heap *)
(* with room for one item more.                                            *)
SizeInv(p) ==
  /\ Cardinality(Live) <= MaxEntries["memory"]
  /\ Cardinality(heap[p]) + Popped(p) <= 2 * MaxEntries["memory"] - 1
  /\ pc[p] = "evict" /\ Cardinality(Live) < MaxEntries["memory"] =>
       Cardinality(heap[p]) <= 2 * MaxEntries["memory"] - 2
  /\ pc[p] \in {"existing", "write"} =>
       /\ Cardinality(Live) < MaxEntries["memory"]
       /\ Cardinality(heap[p]) <= 2 * MaxEntries["memory"] - 2
  /\ pc[p] \in {"match", "drop"} => Cardinality(Live) >= MaxEntries["memory"]

Same(i) == table[i.key] = i.at

(* What the holder of the lock read is still so: nobody else writes.       *)
PlaceInv(p) ==
  /\ IF pc[p] \in {"match", "drop"}
     THEN \E i \in victim[p] : /\ victim[p] = {i}
                               /\ \A j \in heap[p] : i.at <= j.at
     ELSE victim[p] = {}
  /\ pc[p] = "drop" => \A i \in victim[p] : Same(i)
  /\ IF pc[p] = "expire" THEN todo[p] \subseteq ExpiredRows ELSE todo[p] = {}
  /\ pc[p] = "forget" => job[p].key \in ExpiredRows
  /\ pc[p] = "touch" => job[p].key \in Live /\ table[job[p].key] = job[p].at

LockInv(p) == HeapInv(p) /\ SizeInv(p) /\ PlaceInv(p)

MemoryInv ==
  backend = "memory" =>
    \E p \in Proc : workers = {p} /\ LockInv(p)

LEMMA Capacity1 == MaxEntries["memory"] \in Nat \ {0}
BY ConstantsAssumption

LEMMA LiveFinite == IsFiniteSet(Live) /\ Cardinality(Live) \in Nat
BY ConstantsAssumption, FS_Subset, FS_CardinalityType DEF Live

LEMMA NoFault ==
  ASSUME backend = "memory", NEW fails \in BOOLEAN, Call(fails)
  PROVE  fails = FALSE /\ UNCHANGED faults
BY DEF Call

LEMMA MemorySees ==
  ASSUME TypeInv, backend = "memory", NEW p \in Proc
  PROVE  /\ Seen(p) = table /\ Shown(p) = Live /\ ExpiredShown(p) = ExpiredRows
         /\ \A i : Matches(p, i) <=> Same(i)
<1>1. Seen(p) = table
  BY DEF TypeInv, NoTxn, Seen
<1> QED
  BY <1>1 DEF Shown, Live, ExpiredShown, ExpiredRows, Matches, Same

LEMMA MemoryRead ==
  ASSUME backend = "memory", NEW p \in Proc, NEW fails \in BOOLEAN, Read(p, fails)
  PROVE  fails = FALSE
BY NoFault DEF Read

LEMMA MemoryAlter ==
  ASSUME TypeInv, backend = "memory", NEW p \in Proc, NEW fails \in BOOLEAN, NEW new,
         Alter(p, fails, new)
  PROVE  table' = new /\ fails = FALSE
<1>1. CASE fails
  BY <1>1 DEF Alter, Refuse, Call, TypeInv, NoTxn
<1>2. CASE ~fails
  BY <1>2 DEF Alter
<1> QED
  BY <1>1, <1>2

(* A row that goes takes one entry with it.                                *)
LEMMA RowGoes ==
  ASSUME TypeOK, NEW k \in Live, table' = Without({k})
  PROVE  /\ Live' = Live \ {k}
         /\ Cardinality(Live') = Cardinality(Live) - 1
         /\ \A j \in Live' : table'[j] = table[j]
<1>1. Live' = Live \ {k} /\ \A j \in Live' : table'[j] = table[j]
  BY DEF Live, Without
<1> QED
  BY <1>1, LiveFinite, FS_RemoveElement

(* What store() writes in memory, and what retrieve() writes back.         *)
LEMMA RowSet ==
  ASSUME TypeInv, backend = "memory", NEW p \in Proc, NEW k \in Key, NEW t \in Nat,
         Set(p, k, t)
  PROVE  /\ table' = [table EXCEPT ![k] = t]
         /\ Live' = Live \cup {k}
         /\ Cardinality(Live') = IF k \in Live THEN Cardinality(Live)
                                 ELSE Cardinality(Live) + 1
<1>1. \E fails \in BOOLEAN : Alter(p, fails, NewRows(k, t))
  BY SetCases DEF PurgeFails
<1>2. table' = [table EXCEPT ![k] = t]
  BY <1>1, MemoryAlter DEF NewRows
<1>3. Live' = Live \cup {k}
  BY <1>2 DEF Live, TypeInv, TypeOK, Absent
<1> QED
  BY <1>2, <1>3, LiveFinite, FS_AddElement

(* The sizes are naturals, at every place.                                 *)
LEMMA Sizes ==
  ASSUME TypeInv, NEW p \in Proc, LockInv(p)
  PROVE  /\ IsFiniteSet(heap[p]) /\ Cardinality(heap[p]) \in Nat
         /\ Cardinality(Live) \in Nat /\ stale[p] \in Nat
         /\ MaxEntries["memory"] \in Nat \ {0}
BY LiveFinite, Capacity1, FS_CardinalityType DEF LockInv, HeapInv, TypeInv, TypeOK

LEMMA BeginLock ==
  ASSUME TypeInv, backend = "memory", NEW p \in Proc, LockInv(p), Begin(p)
  PROVE  LockInv(p)'
<1> USE DEF Goto
<1>0. pc[p] = "idle" /\ UNCHANGED <<table, heap, stale, victim, clock, backend>>
  BY DEF Begin, BeginStore, BeginStats, FindExpired, Find, Clean, Miss
<1>1. /\ pc'[p] \in {"expire", "forget", "touch"}
      /\ pc'[p] = "expire" => todo'[p] \subseteq ExpiredRows
      /\ pc'[p] # "expire" => todo'[p] = todo[p]
      /\ pc'[p] = "forget" => job'[p].key \in ExpiredRows
      /\ pc'[p] = "touch" => job'[p].key \in Live /\ table[job'[p].key] = job'[p].at
  <2> USE DEF TypeInv, TypeOK
  <2>1. CASE Clean(p)
    BY <2>1, MemoryRead, MemorySees DEF Clean
  <2>2. CASE FindExpired(p)
    <3>1. PICK k \in ExpiredRows :
            job' = [job EXCEPT ![p] = [op |-> "look", key |-> k, at |-> table[k]]]
      BY <2>2, MemorySees DEF FindExpired
    <3> QED
      BY <2>2, <3>1 DEF FindExpired
  <2>3. CASE Find(p)
    <3>1. PICK k \in Live \ ExpiredRows :
            job' = [job EXCEPT ![p] = [op |-> "look", key |-> k, at |-> table[k]]]
      BY <2>3, MemorySees DEF Find
    <3> QED
      BY <2>3, <3>1 DEF Find
  <2>4. ~Miss(p)
    BY DEF Miss, NoTxn
  <2> QED
    BY <2>1, <2>2, <2>3, <2>4 DEF Begin, BeginStore, BeginStats
<1>2. Live' = Live /\ ExpiredRows' = ExpiredRows
  BY <1>0 DEF Live, ExpiredRows, Expired
<1>3. HeapInv(p)'
  BY <1>0, <1>1, <1>2 DEF LockInv, HeapInv, Popped, Counted
<1>4. SizeInv(p)'
  BY <1>0, <1>1, <1>2 DEF LockInv, SizeInv, Popped
<1>5. PlaceInv(p)'
  BY <1>0, <1>1, <1>2 DEF LockInv, PlaceInv
<1> QED
  BY <1>3, <1>4, <1>5 DEF LockInv

LEMMA ExpireOneLock ==
  ASSUME TypeInv, backend = "memory", NEW p \in Proc, LockInv(p), ExpireOne(p)
  PROVE  LockInv(p)'
<1>1. PICK k \in todo[p], fails \in BOOLEAN :
        /\ Alter(p, fails, Without({k}))
        /\ todo' = [todo EXCEPT ![p] = @ \ {k}]
  BY DEF ExpireOne
<1>2. /\ pc[p] = "expire" /\ pc'[p] = "expire"
      /\ UNCHANGED <<heap, victim, clock>>
      /\ stale'[p] = stale[p] + 1 /\ todo'[p] = todo[p] \ {k}
  BY <1>1 DEF ExpireOne, TypeInv, TypeOK
<1>3. k \in Live /\ todo[p] \subseteq ExpiredRows
  BY <1>2 DEF LockInv, PlaceInv, ExpiredRows
<1>4. table' = Without({k})
  BY <1>1, MemoryAlter
<1>5. /\ Live' = Live \ {k}
      /\ Cardinality(Live') = Cardinality(Live) - 1
      /\ \A j \in Live' : table'[j] = table[j]
  BY <1>3, <1>4, RowGoes DEF TypeInv
<1>6. HeapInv(p)'
  <2>1. \A j \in Live' : \E i \in heap'[p] \cup victim'[p] : i.key = j /\ i.at = table'[j]
    BY <1>2, <1>5 DEF LockInv, HeapInv
  <2>2. Cardinality(heap'[p]) + Popped(p)' + Counted(p)' = Cardinality(Live') + stale'[p]
    BY <1>2, <1>5, Sizes DEF LockInv, HeapInv, Popped, Counted
  <2> QED
    BY <1>2, <2>1, <2>2 DEF LockInv, HeapInv
<1>7. SizeInv(p)'
  BY <1>2, <1>5, Sizes DEF LockInv, SizeInv, Popped
<1>8. PlaceInv(p)'
  BY <1>2, <1>3, <1>5 DEF LockInv, PlaceInv, ExpiredRows, Expired
<1> QED
  BY <1>6, <1>7, <1>8 DEF LockInv

LEMMA StatsDoneLock ==
  ASSUME TypeInv, backend = "memory", NEW p \in Proc, LockInv(p), StatsDone(p)
  PROVE  LockInv(p)'
<1>1. /\ pc[p] = "expire" /\ pc'[p] = "idle" /\ todo[p] = {}
      /\ UNCHANGED <<table, heap, stale, victim, clock, todo>>
  BY DEF StatsDone, Return, Goto, TypeInv, TypeOK
<1>2. Live' = Live
  BY <1>1 DEF Live
<1>3. HeapInv(p)'
  BY <1>1, <1>2 DEF LockInv, HeapInv, Popped, Counted
<1>4. SizeInv(p)' /\ PlaceInv(p)'
  BY <1>1, <1>2 DEF LockInv, SizeInv, PlaceInv, Popped
<1> QED
  BY <1>3, <1>4 DEF LockInv

(* A rebuilt heap has one item per entry.                                  *)
LEMMA RebuiltHeap ==
  LET h == {[key |-> k, at |-> table[k], dup |-> 0] : k \in Live}
  IN IsFiniteSet(h) /\ Cardinality(h) = Cardinality(Live)
<1> DEFINE h == {[key |-> k, at |-> table[k], dup |-> 0] : k \in Live}
           f == [k \in Live |-> [key |-> k, at |-> table[k], dup |-> 0]]
<1>1. f \in Bijection(Live, h)
  <2>1. f \in [Live -> h]
    OBVIOUS
  <2>2. ASSUME NEW a \in Live, NEW b \in Live, f[a] = f[b] PROVE a = b
    BY <2>2
  <2>3. \A i \in h : \E k \in Live : f[k] = i
    OBVIOUS
  <2> HIDE DEF f, h
  <2>4. f \in Injection(Live, h) /\ f \in Surjection(Live, h)
    BY <2>1, <2>2, <2>3 DEF Injection, Surjection, IsInjective
  <2> QED
    BY <2>4 DEF Bijection
<1> QED
  BY <1>1, LiveFinite, FS_Bijection DEF ExistsBijection

LEMMA RebuildLock ==
  ASSUME TypeInv, backend = "memory", NEW p \in Proc, LockInv(p), Rebuild(p)
  PROVE  LockInv(p)'
<1> DEFINE h == {[key |-> k, at |-> table[k], dup |-> 0] : k \in Live}
<1>1. /\ pc[p] = "expire" /\ pc'[p] = "evict" /\ todo[p] = {}
      /\ UNCHANGED <<table, victim, clock, todo>>
  BY DEF Rebuild, Goto, TypeInv, TypeOK
<1>2. \/ /\ heap'[p] = h /\ stale'[p] = 0
      \/ /\ UNCHANGED <<heap, stale>>
         /\ heap[p] = {} \/ 2 * stale[p] < Cardinality(heap[p])
  <2>1. CASE HalfStale(p)
    <3>0. PICK fails \in BOOLEAN :
            /\ Read(p, fails)
            /\ heap' = [heap EXCEPT ![p] =
                 IF fails THEN {}
                 ELSE {[key |-> k, at |-> Seen(p)[k], dup |-> 0] : k \in Shown(p)}]
            /\ stale' = [stale EXCEPT ![p] = 0]
      BY <2>1 DEF Rebuild
    <3>1. heap' = [heap EXCEPT ![p] = h] /\ stale' = [stale EXCEPT ![p] = 0]
      <4>1. fails = FALSE
        BY <3>0, MemoryRead
      <4>2. Seen(p) = table /\ Shown(p) = Live
        BY MemorySees
      <4> QED
        BY <3>0, <4>1, <4>2
    <3>2. heap \in [Proc -> SUBSET Item] /\ stale \in [Proc -> Nat]
      BY DEF TypeInv, TypeOK
    <3> HIDE DEF h
    <3> QED
      BY <3>1, <3>2
  <2>2. CASE ~HalfStale(p)
    BY <2>2, Sizes DEF Rebuild, HalfStale
  <2> QED
    BY <2>1, <2>2
<1>3. Live' = Live /\ ExpiredRows' = ExpiredRows
  BY <1>1 DEF Live, ExpiredRows, Expired
<1>4. Cardinality(heap[p]) = Cardinality(Live) + stale[p] /\ Popped(p)' = 0 /\ Counted(p)' = 0
  BY <1>1, Sizes DEF LockInv, HeapInv, Popped, Counted
<1>5. HeapInv(p)'
  <2>1. CASE heap'[p] = h /\ stale'[p] = 0
    <3>1. IsFiniteSet(h) /\ Cardinality(h) = Cardinality(Live)
      BY RebuiltHeap
    <3>2. ASSUME NEW k \in Live PROVE \E i \in h : i.key = k /\ i.at = table[k]
      <4> WITNESS [key |-> k, at |-> table[k], dup |-> 0] \in h
      <4> QED
        OBVIOUS
    <3> QED
      BY <1>1, <1>3, <1>4, <2>1, <3>1, <3>2, Sizes DEF HeapInv
  <2>2. CASE UNCHANGED <<heap, stale>>
    BY <1>1, <1>3, <1>4, <2>2, Sizes DEF LockInv, HeapInv
  <2> QED
    BY <1>2, <2>1, <2>2
<1>6. /\ Cardinality(heap'[p]) <= 2 * MaxEntries["memory"] - 1
      /\ Cardinality(Live) < MaxEntries["memory"] =>
           Cardinality(heap'[p]) <= 2 * MaxEntries["memory"] - 2
  <2>1. Cardinality(Live) <= MaxEntries["memory"]
    BY DEF LockInv, SizeInv
  <2>2. CASE heap'[p] = h /\ stale'[p] = 0
    <3>1. Cardinality(heap'[p]) = Cardinality(Live)
      BY <2>2, RebuiltHeap
    <3> QED
      BY <2>1, <3>1, Sizes
  <2>3. CASE UNCHANGED <<heap, stale>> /\ heap[p] = {}
    <3>1. Cardinality(heap'[p]) = 0
      BY <2>3, FS_EmptySet
    <3> QED
      BY <3>1, Sizes
  <2>4. CASE UNCHANGED <<heap, stale>> /\ 2 * stale[p] < Cardinality(heap[p])
    BY <1>4, <2>1, <2>4, Sizes
  <2> QED
    BY <1>2, <2>2, <2>3, <2>4
<1>7. SizeInv(p)'
  <2>1. Cardinality(heap'[p]) \in Nat
    BY <1>5, FS_CardinalityType DEF HeapInv
  <2> HIDE DEF h
  <2> QED
    BY <1>1, <1>3, <1>4, <1>6, <2>1, Sizes DEF LockInv, SizeInv
<1>8. PlaceInv(p)'
  BY <1>1, <1>3 DEF LockInv, PlaceInv
<1> QED
  BY <1>5, <1>7, <1>8 DEF LockInv

LEMMA PopLock ==
  ASSUME TypeInv, backend = "memory", NEW p \in Proc, LockInv(p), Pop(p)
  PROVE  LockInv(p)'
<1>1. PICK i \in heap[p] :
        /\ \A j \in heap[p] : i.at <= j.at
        /\ heap' = [heap EXCEPT ![p] = @ \ {i}]
        /\ victim' = [victim EXCEPT ![p] = {i}]
  BY DEF Pop
<1>2. /\ pc[p] = "evict" /\ pc'[p] = "match"
      /\ UNCHANGED <<table, stale, clock, todo>>
      /\ Cardinality(Live) >= MaxEntries["memory"]
  BY MemorySees DEF Pop, Goto, TypeInv, TypeOK
<1>3. heap'[p] = heap[p] \ {i} /\ victim'[p] = {i}
  BY <1>1 DEF TypeInv, TypeOK
<1>4. Live' = Live /\ ExpiredRows' = ExpiredRows
  BY <1>2 DEF Live, ExpiredRows, Expired
<1>5. IsFiniteSet(heap'[p]) /\ Cardinality(heap'[p]) = Cardinality(heap[p]) - 1
  BY <1>3, Sizes, FS_RemoveElement
<1>6. HeapInv(p)'
  <2>1. \A k \in Live : \E j \in heap'[p] \cup victim'[p] : j.key = k /\ j.at = table[k]
    BY <1>2, <1>3 DEF LockInv, HeapInv, PlaceInv
  <2> QED
    BY <1>2, <1>4, <1>5, <2>1, Sizes DEF LockInv, HeapInv, Popped, Counted
<1>7. SizeInv(p)'
  BY <1>2, <1>4, <1>5, Sizes DEF LockInv, SizeInv, Popped
<1>8. PlaceInv(p)'
  BY <1>1, <1>2, <1>3, <1>4 DEF LockInv, PlaceInv
<1> QED
  BY <1>6, <1>7, <1>8 DEF LockInv

LEMMA EvictDoneLock ==
  ASSUME TypeInv, backend = "memory", NEW p \in Proc, LockInv(p), EvictDone(p)
  PROVE  LockInv(p)'
<1>1. /\ pc[p] = "evict" /\ pc'[p] = "existing"
      /\ UNCHANGED <<table, heap, stale, victim, clock, todo>>
      /\ Cardinality(Live) < MaxEntries["memory"] \/ heap[p] = {}
  BY MemoryRead, MemorySees DEF EvictDone, Goto, TypeInv, TypeOK
<1>2. Live' = Live /\ ExpiredRows' = ExpiredRows
  BY <1>1 DEF Live, ExpiredRows, Expired
<1>3. Cardinality(Live) < MaxEntries["memory"]
  <2>1. CASE heap[p] = {}
    <3>1. Live = {}
      BY <1>1, <2>1 DEF LockInv, HeapInv, PlaceInv
    <3> QED
      BY <3>1, FS_EmptySet, Capacity1
  <2> QED
    BY <1>1, <2>1
<1>4. HeapInv(p)'
  BY <1>1, <1>2, Sizes DEF LockInv, HeapInv, Popped, Counted
<1>5. SizeInv(p)'
  BY <1>1, <1>2, <1>3, Sizes DEF LockInv, SizeInv, Popped
<1>6. PlaceInv(p)'
  BY <1>1, <1>2 DEF LockInv, PlaceInv
<1> QED
  BY <1>4, <1>5, <1>6 DEF LockInv

LEMMA MatchVictimLock ==
  ASSUME TypeInv, backend = "memory", NEW p \in Proc, LockInv(p), MatchVictim(p)
  PROVE  LockInv(p)'
<1>1. /\ pc[p] = "match" /\ pc'[p] = "drop"
      /\ UNCHANGED <<table, heap, stale, victim, clock, todo>>
      /\ \E i \in victim[p] : Same(i)
  BY MemorySees DEF MatchVictim, Goto, TypeInv, TypeOK
<1>2. Live' = Live /\ ExpiredRows' = ExpiredRows
  BY <1>1 DEF Live, ExpiredRows, Expired
<1>3. HeapInv(p)'
  BY <1>1, <1>2, Sizes DEF LockInv, HeapInv, Popped, Counted
<1>4. SizeInv(p)'
  BY <1>1, <1>2, Sizes DEF LockInv, SizeInv, Popped
<1>5. \A i \in victim'[p] : Same(i)'
  BY <1>1 DEF LockInv, PlaceInv, Same
<1>6. PlaceInv(p)'
  BY <1>1, <1>2, <1>5 DEF LockInv, PlaceInv
<1> QED
  BY <1>3, <1>4, <1>6 DEF LockInv

(* A set of items that covers the entries is at least as large.            *)
LEMMA CoverIsLarge ==
  ASSUME NEW H, IsFiniteSet(H), \A k \in Live : \E i \in H : i.key = k
  PROVE  Cardinality(Live) <= Cardinality(H)
<1> DEFINE f == [k \in Live |-> CHOOSE i \in H : i.key = k]
<1>1. \A k \in Live : f[k] \in H /\ f[k].key = k
  OBVIOUS
<1>2. f \in [Live -> H]
  BY <1>1
<1> HIDE DEF f
<1>3. f \in Injection(Live, H)
  BY <1>1, <1>2 DEF Injection, IsInjective
<1> QED
  BY <1>3, FS_Injection

LEMMA SkipStaleLock ==
  ASSUME TypeInv, backend = "memory", NEW p \in Proc, LockInv(p), SkipStale(p)
  PROVE  LockInv(p)'
<1>1. /\ pc[p] = "match" /\ pc'[p] = "evict"
      /\ UNCHANGED <<table, heap, clock, todo>>
      /\ victim'[p] = {}
      /\ stale'[p] = IF stale[p] > 0 THEN stale[p] - 1 ELSE stale[p]
  BY DEF SkipStale, Goto, TypeInv, TypeOK
<1>2. \E i \in victim[p] : ~Same(i)
  BY MemoryRead, MemorySees DEF SkipStale
<1>3. PICK i \in victim[p] : victim[p] = {i} /\ ~Same(i)
  BY <1>1, <1>2 DEF LockInv, PlaceInv
<1>4. Live' = Live /\ ExpiredRows' = ExpiredRows
  BY <1>1 DEF Live, ExpiredRows, Expired
<1>5. \A k \in Live : \E j \in heap[p] : j.key = k /\ j.at = table[k]
  BY <1>3 DEF LockInv, HeapInv, Same
<1>6. Cardinality(Live) <= Cardinality(heap[p])
  BY <1>5, Sizes, CoverIsLarge
<1>7. Cardinality(heap[p]) + 1 = Cardinality(Live) + stale[p]
  BY <1>1, Sizes DEF LockInv, HeapInv, Popped, Counted
<1>8. stale'[p] = stale[p] - 1
  BY <1>1, <1>6, <1>7, Sizes
<1>9. HeapInv(p)'
  BY <1>1, <1>4, <1>5, <1>7, <1>8, Sizes DEF HeapInv, Popped, Counted
<1>10. SizeInv(p)'
  BY <1>1, <1>4, Sizes DEF LockInv, SizeInv, Popped
<1>11. PlaceInv(p)'
  BY <1>1, <1>4 DEF LockInv, PlaceInv
<1> QED
  BY <1>9, <1>10, <1>11 DEF LockInv

LEMMA DropLock ==
  ASSUME TypeInv, backend = "memory", NEW p \in Proc, LockInv(p), Drop(p)
  PROVE  LockInv(p)'
<1>1. /\ pc[p] = "drop" /\ pc'[p] = "evict"
      /\ UNCHANGED <<heap, stale, clock, todo>>
      /\ victim'[p] = {}
  BY DEF Drop, Goto, TypeInv, TypeOK
<1>2. PICK i \in victim[p] : table' = Without({i.key})
  BY MemoryAlter DEF Drop
<1>3. victim[p] = {i} /\ Same(i) /\ i \in Item
  BY <1>1, <1>2 DEF LockInv, PlaceInv, TypeInv, TypeOK
<1>4. i.key \in Live
  BY <1>3 DEF Live, Same, Item, Absent
<1>5. /\ Live' = Live \ {i.key}
      /\ Cardinality(Live') = Cardinality(Live) - 1
      /\ \A j \in Live' : table'[j] = table[j]
  BY <1>2, <1>4, RowGoes DEF TypeInv
<1>6. HeapInv(p)'
  <2>1. \A k \in Live' : \E j \in heap'[p] : j.key = k /\ j.at = table'[k]
    BY <1>1, <1>3, <1>5 DEF LockInv, HeapInv
  <2> QED
    BY <1>1, <1>5, <2>1, Sizes DEF LockInv, HeapInv, Popped, Counted
<1>7. SizeInv(p)'
  BY <1>1, <1>5, Sizes DEF LockInv, SizeInv, Popped
<1>8. PlaceInv(p)'
  BY <1>1 DEF LockInv, PlaceInv
<1> QED
  BY <1>6, <1>7, <1>8 DEF LockInv

LEMMA ExistingLock ==
  ASSUME TypeInv, backend = "memory", NEW p \in Proc, LockInv(p), Existing(p)
  PROVE  LockInv(p)'
<1>1. /\ pc[p] = "existing" /\ pc'[p] = "write"
      /\ UNCHANGED <<table, heap, victim, clock, todo, job>>
      /\ stale'[p] = IF job[p].key \in Live THEN stale[p] + 1 ELSE stale[p]
  <2>1. stale' = [stale EXCEPT ![p] = IF job[p].key \in Live THEN @ + 1 ELSE @]
    BY MemoryRead, MemorySees DEF Existing
  <2>2. stale \in [Proc -> Nat] /\ pc'[p] = "write"
    BY DEF Existing, Goto, TypeInv, TypeOK
  <2> QED
    BY <2>1, <2>2 DEF Existing
<1>2. Live' = Live /\ ExpiredRows' = ExpiredRows
  BY <1>1 DEF Live, ExpiredRows, Expired
<1>3. HeapInv(p)'
  BY <1>1, <1>2, Sizes DEF LockInv, HeapInv, Popped, Counted
<1>4. SizeInv(p)'
  BY <1>1, <1>2, Sizes DEF LockInv, SizeInv, Popped
<1>5. PlaceInv(p)'
  BY <1>1, <1>2 DEF LockInv, PlaceInv
<1> QED
  BY <1>3, <1>4, <1>5 DEF LockInv

LEMMA WriteLock ==
  ASSUME TypeInv, backend = "memory", NEW p \in Proc, LockInv(p), Write(p)
  PROVE  LockInv(p)'
<1> DEFINE k == job[p].key
           t == job[p].at
<1>1. /\ pc[p] = "write" /\ pc'[p] = "idle"
      /\ UNCHANGED <<stale, victim, clock, todo>>
      /\ Set(p, k, t) /\ Push(p, k, t)
  BY DEF Write, Return, Goto, TypeInv, TypeOK
<1>2. k \in Key /\ t \in Nat
  BY <1>1 DEF TypeInv, JobTyped, StoreJob
<1> HIDE DEF k, t
<1>3. /\ table' = [table EXCEPT ![k] = t]
      /\ Live' = Live \cup {k}
      /\ Cardinality(Live') = IF k \in Live THEN Cardinality(Live)
                              ELSE Cardinality(Live) + 1
  BY <1>1, <1>2, RowSet
<1>4. PICK i : i.key = k /\ i.at = t /\ i \notin heap[p] /\ heap'[p] = heap[p] \cup {i}
  <2>1. PICK d \in 0 .. stored :
          /\ [key |-> k, at |-> t, dup |-> d] \notin heap[p]
          /\ heap' = [heap EXCEPT ![p] = @ \cup {[key |-> k, at |-> t, dup |-> d]}]
    BY <1>1 DEF Push
  <2> WITNESS [key |-> k, at |-> t, dup |-> d]
  <2> QED
    BY <2>1 DEF TypeInv, TypeOK
<1>5. IsFiniteSet(heap'[p]) /\ Cardinality(heap'[p]) = Cardinality(heap[p]) + 1
  <2>1. IsFiniteSet(heap[p])
    BY Sizes
  <2>2. /\ IsFiniteSet(heap[p] \cup {i})
        /\ Cardinality(heap[p] \cup {i}) = IF i \in heap[p] THEN Cardinality(heap[p])
                                           ELSE Cardinality(heap[p]) + 1
    BY <2>1, FS_AddElement
  <2> QED
    BY <1>4, <2>2
<1>6. HeapInv(p)'
  <2>1. \A j \in Live' : \E m \in heap'[p] : m.key = j /\ m.at = table'[j]
    <3> SUFFICES ASSUME NEW j \in Live' PROVE \E m \in heap'[p] : m.key = j /\ m.at = table'[j]
      OBVIOUS
    <3>1. CASE j = k
      BY <1>2, <1>3, <1>4, <3>1 DEF TypeInv, TypeOK
    <3>2. CASE j # k
      <4>1. j \in Live /\ table'[j] = table[j]
        BY <1>3, <3>2 DEF TypeInv, TypeOK, Live
      <4>2. victim[p] = {}
        BY <1>1 DEF LockInv, PlaceInv
      <4> QED
        BY <1>4, <4>1, <4>2 DEF LockInv, HeapInv
    <3> QED
      BY <3>1, <3>2
  <2>2. Cardinality(heap[p]) + (IF k \in Live THEN 1 ELSE 0) = Cardinality(Live) + stale[p]
    BY <1>1, Sizes DEF LockInv, HeapInv, Popped, Counted, k
  <2>3. Cardinality(heap'[p]) = Cardinality(Live') + stale[p]
    BY <1>3, <1>5, <2>2, Sizes
  <2>4. Popped(p)' = 0 /\ Counted(p)' = 0
    BY <1>1 DEF Popped, Counted
  <2> QED
    BY <1>1, <1>5, <2>1, <2>3, <2>4, Sizes DEF HeapInv
<1>7. SizeInv(p)'
  BY <1>1, <1>3, <1>5, Sizes DEF LockInv, SizeInv, Popped
<1>8. PlaceInv(p)'
  BY <1>1 DEF LockInv, PlaceInv
<1> QED
  BY <1>6, <1>7, <1>8 DEF LockInv

LEMMA ForgetLock ==
  ASSUME TypeInv, backend = "memory", NEW p \in Proc, LockInv(p), Forget(p)
  PROVE  LockInv(p)'
<1>1. /\ pc[p] = "forget" /\ pc'[p] = "idle"
      /\ UNCHANGED <<heap, victim, clock, todo>>
      /\ stale'[p] = stale[p] + 1
      /\ table' = Without({job[p].key})
  BY MemoryAlter DEF Forget, Return, Goto, TypeInv, TypeOK
<1>2. PICK k \in Live : table' = Without({k})
  BY <1>1 DEF LockInv, PlaceInv, ExpiredRows
<1>3. /\ Live' = Live \ {k}
      /\ Cardinality(Live') = Cardinality(Live) - 1
      /\ \A j \in Live' : table'[j] = table[j]
  BY <1>2, RowGoes DEF TypeInv
<1>4. HeapInv(p)'
  <2>1. \A j \in Live' : \E i \in heap'[p] \cup victim'[p] : i.key = j /\ i.at = table'[j]
    BY <1>1, <1>3 DEF LockInv, HeapInv
  <2>2. Cardinality(heap[p]) = Cardinality(Live) + stale[p]
    BY <1>1, Sizes DEF LockInv, HeapInv, Popped, Counted
  <2>3. Popped(p)' = 0 /\ Counted(p)' = 0
    BY <1>1 DEF Popped, Counted
  <2>4. Cardinality(heap'[p]) = Cardinality(Live') + stale'[p]
    BY <1>1, <1>3, <2>2, Sizes
  <2>5. IsFiniteSet(heap'[p]) /\ Cardinality(heap'[p]) \in Nat
    BY <1>1, Sizes
  <2>6. (Cardinality(heap[p]) + Popped(p) + Counted(p) = Cardinality(Live) + stale[p])'
    BY <2>3, <2>4, <2>5
  <2> QED
    BY <2>1, <2>5, <2>6 DEF HeapInv
<1>5. SizeInv(p)'
  BY <1>1, <1>3, Sizes DEF LockInv, SizeInv, Popped
<1>6. PlaceInv(p)'
  BY <1>1 DEF LockInv, PlaceInv
<1> QED
  BY <1>4, <1>5, <1>6 DEF LockInv

(* In memory a retrieval writes back the very entry that is there.         *)
LEMMA TouchIsQuiet ==
  ASSUME TypeInv, backend = "memory", NEW p \in Proc, LockInv(p), Touch(p)
  PROVE  UNCHANGED table
<1>1. /\ pc[p] = "touch" /\ Set(p, job[p].key, job[p].at)
      /\ job[p].key \in Key /\ job[p].at \in Nat
  BY DEF Touch, TypeInv, JobTyped, LookJob
<1>2. table' = [table EXCEPT ![job[p].key] = job[p].at]
  BY <1>1, RowSet
<1>3. table[job[p].key] = job[p].at
  BY <1>1 DEF LockInv, PlaceInv
<1> QED
  BY <1>1, <1>2, <1>3 DEF TypeInv, TypeOK

LEMMA TouchLock ==
  ASSUME TypeInv, backend = "memory", NEW p \in Proc, LockInv(p), Touch(p)
  PROVE  LockInv(p)'
<1>1. /\ pc[p] = "touch" /\ pc'[p] = "idle"
      /\ UNCHANGED <<heap, stale, victim, clock, todo>>
  BY DEF Touch, Return, Goto, TypeInv, TypeOK
<1>2. UNCHANGED table
  BY TouchIsQuiet
<1>3. Live' = Live
  BY <1>2 DEF Live
<1>4. HeapInv(p)'
  BY <1>1, <1>2, <1>3, Sizes DEF LockInv, HeapInv, Popped, Counted
<1>5. SizeInv(p)'
  BY <1>1, <1>3, Sizes DEF LockInv, SizeInv, Popped
<1>6. PlaceInv(p)'
  BY <1>1 DEF LockInv, PlaceInv
<1> QED
  BY <1>4, <1>5, <1>6 DEF LockInv

LEMMA RestartLock ==
  ASSUME TypeInv, backend = "memory", NEW p \in Proc, Restart(p)
  PROVE  LockInv(p)'
<1>1. /\ pc'[p] = "idle" /\ heap'[p] = {} /\ stale'[p] = 0
      /\ victim'[p] = {} /\ todo'[p] = {}
      /\ table' = NoRows
  BY DEF Restart, Return, Goto, TypeInv, TypeOK
<1>2. Live' = {}
  BY <1>1 DEF Live, NoRows
<1>3. IsFiniteSet({}) /\ Cardinality({}) = 0
  BY FS_EmptySet
<1>4. HeapInv(p)'
  BY <1>1, <1>2, <1>3 DEF HeapInv, Popped, Counted
<1>5. SizeInv(p)'
  BY <1>1, <1>2, <1>3, Capacity1 DEF SizeInv, Popped
<1>6. PlaceInv(p)'
  BY <1>1 DEF PlaceInv
<1> QED
  BY <1>4, <1>5, <1>6 DEF LockInv

LEMMA TickLock ==
  ASSUME TypeInv, NEW p \in Proc, LockInv(p), Tick
  PROVE  LockInv(p)'
<1>1. /\ clock' = clock + 1 /\ clock \in Nat
      /\ UNCHANGED <<table, heap, stale, pc, job, todo, victim>>
  BY DEF Tick, TypeInv, TypeOK
<1>2. Live' = Live
  BY <1>1 DEF Live
<1>3. ExpiredRows \subseteq ExpiredRows'
  BY <1>1, <1>2, ConstantsAssumption DEF ExpiredRows, Expired, Live, TypeInv, TypeOK, Absent
<1>4. HeapInv(p)'
  BY <1>1, <1>2 DEF LockInv, HeapInv, Popped, Counted
<1>5. SizeInv(p)'
  BY <1>1, <1>2 DEF LockInv, SizeInv, Popped
<1>6. PlaceInv(p)'
  BY <1>1, <1>2, <1>3 DEF LockInv, PlaceInv, Same
<1> QED
  BY <1>4, <1>5, <1>6 DEF LockInv

LEMMA StepLock ==
  ASSUME TypeInv, backend = "memory", NEW p \in Proc, LockInv(p), Step(p)
  PROVE  LockInv(p)'
BY ExpireOneLock, StatsDoneLock, RebuildLock, PopLock, EvictDoneLock,
   MatchVictimLock, SkipStaleLock, DropLock, ExistingLock, WriteLock,
   ForgetLock, TouchLock
DEF Step

LEMMA InitMemoryInv == Init => MemoryInv
<1> SUFFICES ASSUME Init, backend = "memory" PROVE \E p \in Proc : workers = {p} /\ LockInv(p)
  BY DEF MemoryInv
<1>1. PICK p \in Proc : workers = {p}
  BY DEF Init
<1>2. Live = {} /\ IsFiniteSet({}) /\ Cardinality({}) = 0
  BY FS_EmptySet DEF Init, Live, NoRows
<1>3. /\ heap[p] = {} /\ stale[p] = 0 /\ pc[p] = "idle" /\ todo[p] = {} /\ victim[p] = {}
  BY DEF Init
<1>4. LockInv(p)
  BY <1>2, <1>3, Capacity1 DEF LockInv, HeapInv, SizeInv, PlaceInv, Popped, Counted
<1> QED
  BY <1>1, <1>4

LEMMA DeploymentStays == [Next]_vars => UNCHANGED <<backend, workers>>
BY DEF Next, vars, Begin, BeginStore, BeginStats, FindExpired, Find, Miss, Step, ExpireOne,
   StatsDone, Rebuild, Pop, EvictDone, MatchVictim, SkipStale, Drop, Existing, Write,
   Forget, Touch, Restart, Tick

LEMMA NextMemoryInv == TypeInv /\ MemoryInv /\ [Next]_vars => MemoryInv'
<1> SUFFICES ASSUME TypeInv, MemoryInv, [Next]_vars, backend' = "memory"
             PROVE  \E p \in Proc : workers' = {p} /\ LockInv(p)'
  BY DEF MemoryInv
<1>1. backend = "memory" /\ workers' = workers
  BY DeploymentStays
<1>2. PICK p \in Proc : workers = {p} /\ LockInv(p)
  BY <1>1 DEF MemoryInv
<1>3. CASE Begin(p)
  BY <1>1, <1>2, <1>3, BeginLock
<1>4. CASE Step(p)
  BY <1>1, <1>2, <1>4, StepLock
<1>5. CASE Restart(p)
  BY <1>1, <1>2, <1>5, RestartLock
<1>6. CASE Tick
  BY <1>1, <1>2, <1>6, TickLock
<1>7. CASE UNCHANGED vars
  <2>1. Live' = Live /\ ExpiredRows' = ExpiredRows
    BY <1>7 DEF vars, Live, ExpiredRows, Expired
  <2>2. HeapInv(p)'
    BY <1>2, <1>7, <2>1 DEF vars, LockInv, HeapInv, Popped, Counted
  <2>3. SizeInv(p)'
    BY <1>2, <1>7, <2>1 DEF vars, LockInv, SizeInv, Popped
  <2>4. PlaceInv(p)'
    BY <1>2, <1>7, <2>1 DEF vars, LockInv, PlaceInv, Same
  <2> QED
    BY <1>1, <1>2, <2>2, <2>3, <2>4 DEF LockInv
<1> QED
  BY <1>1, <1>2, <1>3, <1>4, <1>5, <1>6, <1>7 DEF Next

LEMMA MemoryAlways == Spec => [](TypeInv /\ MemoryInv)
BY InitTypeInv, NextTypeInv, InitMemoryInv, NextMemoryInv, PTL DEF Spec

LEMMA MemoryBooks == TypeInv /\ MemoryInv => StaleExact /\ HeapCovers /\ HeapBounded
<1> SUFFICES ASSUME TypeInv, MemoryInv, backend = "memory"
             PROVE  StaleExact /\ HeapCovers /\ HeapBounded
  BY DEF StaleExact, HeapCovers, HeapBounded
<1>1. PICK p \in Proc : workers = {p} /\ LockInv(p)
  BY DEF MemoryInv
<1>2. StaleExact
  BY <1>1, Sizes DEF LockInv, HeapInv, Popped, Counted, StaleExact
<1>3. HeapCovers
  BY <1>1 DEF LockInv, HeapInv, PlaceInv, HeapCovers
<1>4. HeapBounded
  BY <1>1, Sizes DEF LockInv, SizeInv, Popped, HeapBounded
<1> QED
  BY <1>2, <1>3, <1>4

(* In memory, for any number of keys and calls, any capacity and any times *)
(* spent waiting for the lock: the count of stale items is exact and every *)
(* entry has its item whenever the lock is free.                           *)
THEOREM HeapIsExact == Spec => []HeapExact
BY MemoryAlways, MemoryBooks, PTL DEF HeapExact

(* In memory the heap never reaches twice the capacity.                    *)
THEOREM HeapStaysBounded == Spec => []HeapBounded
BY MemoryAlways, MemoryBooks, PTL

-----------------------------------------------------------------------------
(* The shared file.  A worker's heap knows what the worker stored, not     *)
(* what the others did: with an empty heap it adds a row to a full file.   *)
(* That happens once per worker, for the row it adds is then in its heap   *)
(* and goes first.  So all rows but one per worker fit: some workers can   *)
(* be given one row each that their heap knows, a different one to each,   *)
(* such that the other rows, and a row more for each of those workers that *)
(* is past its eviction, are below the capacity.                           *)
Fits(C, known, W, n) ==
  \E S \in SUBSET (DOMAIN known) : \E rep \in [S -> C] :
    /\ \A p \in S : rep[p] \in known[p]
    /\ \A p, q \in S : rep[p] = rep[q] => p = q
    /\ Cardinality(C \ {rep[p] : p \in S}) + Cardinality(W \cap S) <= n

LEMMA NoLarger ==
  ASSUME NEW A, NEW B, IsFiniteSet(B), A \subseteq B
  PROVE  /\ IsFiniteSet(A) /\ Cardinality(A) \in Nat /\ Cardinality(B) \in Nat
         /\ Cardinality(A) <= Cardinality(B)
<1>1. IsFiniteSet(A) /\ Cardinality(A) <= Cardinality(B)
  BY FS_Subset
<1> QED
  BY <1>1, FS_CardinalityType

LEMMA OneLarger ==
  ASSUME NEW A, NEW B, NEW x, IsFiniteSet(B), A \subseteq B \cup {x}
  PROVE  /\ IsFiniteSet(A) /\ Cardinality(A) \in Nat /\ Cardinality(B) \in Nat
         /\ Cardinality(A) <= Cardinality(B) + 1
<1>1. /\ IsFiniteSet(B \cup {x})
      /\ Cardinality(B \cup {x}) = IF x \in B THEN Cardinality(B) ELSE Cardinality(B) + 1
  BY FS_AddElement
<1>2. Cardinality(B) \in Nat
  BY FS_CardinalityType
<1>3. Cardinality(A) <= Cardinality(B \cup {x}) /\ IsFiniteSet(A) /\ Cardinality(A) \in Nat
  BY <1>1, NoLarger
<1> QED
  BY <1>1, <1>2, <1>3

(* Rows go, items come, writers leave.                                     *)
LEMMA FitsKept ==
  ASSUME NEW C, NEW C2, NEW known, NEW known2, NEW W, NEW W2, NEW n \in Int, NEW n2 \in Int,
         IsFiniteSet(C), IsFiniteSet(W), Fits(C, known, W, n), DOMAIN known2 = DOMAIN known,
         C2 \subseteq C, \A p \in DOMAIN known : known[p] \cap C2 \subseteq known2[p],
         W2 \subseteq W, n <= n2
  PROVE  Fits(C2, known2, W2, n2)
<1>0. PICK S \in SUBSET (DOMAIN known) : \E rep \in [S -> C] :
        /\ \A p \in S : rep[p] \in known[p]
        /\ \A p, q \in S : rep[p] = rep[q] => p = q
        /\ Cardinality(C \ {rep[p] : p \in S}) + Cardinality(W \cap S) <= n
  BY Zenon DEF Fits
<1>1. PICK rep \in [S -> C] :
        /\ \A p \in S : rep[p] \in known[p]
        /\ \A p, q \in S : rep[p] = rep[q] => p = q
        /\ Cardinality(C \ {rep[p] : p \in S}) + Cardinality(W \cap S) <= n
  BY <1>0
<1> DEFINE S2 == {p \in S : rep[p] \in C2}
           rep2 == [p \in S2 |-> rep[p]]
<1>2. S2 \in SUBSET (DOMAIN known2) /\ rep2 \in [S2 -> C2] /\ \A p \in S2 : rep2[p] = rep[p]
  OBVIOUS
<1>3. C2 \ {rep2[p] : p \in S2} \subseteq C \ {rep[p] : p \in S} /\ W2 \cap S2 \subseteq W \cap S
  <2>1. ASSUME NEW k \in C2, NEW p \in S, k = rep[p] PROVE k \in {rep2[q] : q \in S2}
    BY <1>2, <2>1
  <2> QED
    BY <2>1
<1>4. IsFiniteSet(C \ {rep[p] : p \in S}) /\ IsFiniteSet(W \cap S)
  BY NoLarger
<1> HIDE DEF S2, rep2
<1>5. Cardinality(C2 \ {rep2[p] : p \in S2}) + Cardinality(W2 \cap S2) <= n2
  <2> DEFINE a == Cardinality(C \ {rep[p] : p \in S})
             b == Cardinality(W \cap S)
             a2 == Cardinality(C2 \ {rep2[p] : p \in S2})
             b2 == Cardinality(W2 \cap S2)
  <2>1. a2 <= a /\ a \in Nat /\ a2 \in Nat
    BY <1>3, <1>4, NoLarger
  <2>2. b2 <= b /\ b \in Nat /\ b2 \in Nat
    BY <1>3, <1>4, NoLarger
  <2>3. a + b <= n
    BY <1>1
  <2> HIDE DEF a, b, a2, b2
  <2>4. a2 + b2 <= n2
    BY <2>1, <2>2, <2>3
  <2> QED
    BY <2>4 DEF a2, b2
<1>6. \A p \in S2 : rep2[p] \in known2[p]
  BY <1>1, <1>2 DEF S2
<1>7. \A p, q \in S2 : rep2[p] = rep2[q] => p = q
  BY <1>1, <1>2 DEF S2
<1> QED
  BY <1>2, <1>5, <1>6, <1>7, Zenon DEF Fits

(* Few rows fit, whatever the heaps know.                                  *)
LEMMA FitsBelow ==
  ASSUME NEW C, NEW known, NEW W, NEW n \in Int, IsFiniteSet(C), Cardinality(C) <= n
  PROVE  Fits(C, known, W, n)
<1> DEFINE rep == [p \in {} |-> p]
<1>1. {} \in SUBSET (DOMAIN known) /\ rep \in [{} -> C]
  OBVIOUS
<1>2. C \ {rep[p] : p \in {}} = C /\ W \cap {} = {}
  OBVIOUS
<1>3. Cardinality({}) = 0 /\ Cardinality(C) \in Nat
  BY FS_EmptySet, FS_CardinalityType
<1>4. Cardinality(C \ {rep[p] : p \in {}}) + Cardinality(W \cap {}) <= n
  <2>1. Cardinality(C \ {rep[p] : p \in {}}) = Cardinality(C) /\ Cardinality(W \cap {}) = 0
    BY <1>2, <1>3, Zenon
  <2> QED
    BY <1>3, <2>1
<1>5. /\ \A p \in {} : rep[p] \in known[p]
      /\ \A p, q \in {} : rep[p] = rep[q] => p = q
  OBVIOUS
<1> HIDE DEF rep
<1> QED
  BY <1>1, <1>4, <1>5, Zenon DEF Fits

(* A worker comes past its eviction: with nothing in its heap at no cost,  *)
(* else at the cost of one row.                                            *)
LEMMA FitsJoins ==
  ASSUME NEW C, NEW known, NEW W, NEW n \in Int, NEW q,
         IsFiniteSet(C), IsFiniteSet(W), Fits(C, known, W, n)
  PROVE  /\ Fits(C, known, W \cup {q}, n + 1)
         /\ q \in DOMAIN known /\ known[q] \cap C = {} => Fits(C, known, W \cup {q}, n)
<1>0. PICK S \in SUBSET (DOMAIN known) : \E rep \in [S -> C] :
        /\ \A p \in S : rep[p] \in known[p]
        /\ \A p, r \in S : rep[p] = rep[r] => p = r
        /\ Cardinality(C \ {rep[p] : p \in S}) + Cardinality(W \cap S) <= n
  BY Zenon DEF Fits
<1>1. PICK rep \in [S -> C] :
        /\ \A p \in S : rep[p] \in known[p]
        /\ \A p, r \in S : rep[p] = rep[r] => p = r
        /\ Cardinality(C \ {rep[p] : p \in S}) + Cardinality(W \cap S) <= n
  BY <1>0
<1> DEFINE a == Cardinality(C \ {rep[p] : p \in S})
           b == Cardinality(W \cap S)
           b2 == Cardinality((W \cup {q}) \cap S)
<1>2. a \in Nat
  BY NoLarger
<1>3. b \in Nat /\ b2 \in Nat /\ b2 <= b + 1
  <2>1. IsFiniteSet(W \cap S) /\ (W \cup {q}) \cap S \subseteq (W \cap S) \cup {q}
    BY NoLarger
  <2> QED
    BY <2>1, OneLarger
<1>4. a + b2 <= n + 1
  BY <1>1, <1>2, <1>3
<1>5. Fits(C, known, W \cup {q}, n + 1)
  BY <1>1, <1>4, Zenon DEF Fits
<1>6. ASSUME q \in DOMAIN known, known[q] \cap C = {} PROVE Fits(C, known, W \cup {q}, n)
  <2>1. q \notin S
    BY <1>1, <1>6
  <2>2. (W \cup {q}) \cap S = W \cap S
    BY <2>1
  <2>3. a + b2 <= n
    BY <1>1, <2>2
  <2> QED
    BY <1>1, <2>3, Zenon DEF Fits
<1> QED
  BY <1>5, <1>6

(* A worker loses its items: a row more is nobody's.                       *)
LEMMA FitsLoses ==
  ASSUME NEW C, NEW known, NEW W, NEW n \in Int, NEW q,
         IsFiniteSet(C), IsFiniteSet(W), Fits(C, known, W, n)
  PROVE  Fits(C, [known EXCEPT ![q] = {}], W, n + 1)
<1>0. PICK S \in SUBSET (DOMAIN known) : \E rep \in [S -> C] :
        /\ \A p \in S : rep[p] \in known[p]
        /\ \A p, r \in S : rep[p] = rep[r] => p = r
        /\ Cardinality(C \ {rep[p] : p \in S}) + Cardinality(W \cap S) <= n
  BY Zenon DEF Fits
<1>1. PICK rep \in [S -> C] :
        /\ \A p \in S : rep[p] \in known[p]
        /\ \A p, r \in S : rep[p] = rep[r] => p = r
        /\ Cardinality(C \ {rep[p] : p \in S}) + Cardinality(W \cap S) <= n
  BY <1>0
<1> DEFINE T == S \ {q}
           rep2 == [p \in T |-> rep[p]]
           known2 == [known EXCEPT ![q] = {}]
<1>2. /\ T \in SUBSET (DOMAIN known2) /\ rep2 \in [T -> C]
      /\ \A p \in T : rep2[p] = rep[p] /\ known2[p] = known[p]
  OBVIOUS
<1>3. C \ {rep2[p] : p \in T} \subseteq (C \ {rep[p] : p \in S}) \cup {rep[q]}
  <2>1. ASSUME NEW p \in S, p # q PROVE rep[p] \in {rep2[r] : r \in T}
    BY <1>2, <2>1
  <2> QED
    BY <2>1
<1> HIDE DEF rep2, known2
<1> DEFINE a == Cardinality(C \ {rep[p] : p \in S})
           b == Cardinality(W \cap S)
           a2 == Cardinality(C \ {rep2[p] : p \in T})
           b2 == Cardinality(W \cap T)
<1>4. a2 <= a + 1 /\ a \in Nat /\ a2 \in Nat
  <2>1. IsFiniteSet(C \ {rep[p] : p \in S})
    BY NoLarger
  <2> QED
    BY <1>3, <2>1, OneLarger
<1>5. b2 <= b /\ b \in Nat /\ b2 \in Nat
  <2>1. IsFiniteSet(W \cap S) /\ W \cap T \subseteq W \cap S
    BY NoLarger
  <2> QED
    BY <2>1, NoLarger
<1>6. a2 + b2 <= n + 1
  <2>1. a + b <= n
    BY <1>1
  <2> HIDE DEF a, b, a2, b2
  <2> QED
    BY <2>1, <1>4, <1>5
<1>7. \A p \in T : rep2[p] \in known2[p]
  BY <1>1, <1>2
<1>8. \A p, r \in T : rep2[p] = rep2[r] => p = r
  BY <1>1, <1>2
<1>9. Fits(C, known2, W, n + 1)
  BY <1>2, <1>6, <1>7, <1>8, Zenon DEF Fits
<1> QED
  BY <1>9 DEF known2

(* A worker past its eviction writes a row, which becomes the row that is  *)
(* given to it; who had been given the row it replaces has none.           *)
LEMMA FitsWrites ==
  ASSUME NEW C, NEW known, NEW W, NEW n \in Int, NEW q \in DOMAIN known, NEW k,
         IsFiniteSet(C), IsFiniteSet(W), Fits(C, known, W, n), q \in W
  PROVE  Fits(C \cup {k},
              [p \in DOMAIN known |->
                 IF p = q THEN known[p] \cup {k} ELSE known[p] \ {k}],
              W \ {q}, n)
<1>0. PICK S \in SUBSET (DOMAIN known) : \E rep \in [S -> C] :
        /\ \A p \in S : rep[p] \in known[p]
        /\ \A p, r \in S : rep[p] = rep[r] => p = r
        /\ Cardinality(C \ {rep[p] : p \in S}) + Cardinality(W \cap S) <= n
  BY Zenon DEF Fits
<1>1. PICK rep \in [S -> C] :
        /\ \A p \in S : rep[p] \in known[p]
        /\ \A p, r \in S : rep[p] = rep[r] => p = r
        /\ Cardinality(C \ {rep[p] : p \in S}) + Cardinality(W \cap S) <= n
  BY <1>0
<1> DEFINE T == {p \in S : rep[p] # k} \cup {q}
           rep2 == [p \in T |-> IF p = q THEN k ELSE rep[p]]
           known2 == [p \in DOMAIN known |->
                        IF p = q THEN known[p] \cup {k} ELSE known[p] \ {k}]
           left == C \ {rep[p] : p \in S}
           left2 == (C \cup {k}) \ {rep2[p] : p \in T}
<1>2. T \in SUBSET (DOMAIN known2) /\ rep2 \in [T -> C \cup {k}]
  OBVIOUS
<1>3. /\ rep2[q] = k /\ q \in T
      /\ \A p \in T : p # q => p \in S /\ rep2[p] = rep[p] /\ rep[p] # k
      /\ \A p \in S : p # q /\ rep[p] # k => p \in T
  OBVIOUS
<1>4. /\ known2[q] = known[q] \cup {k}
      /\ \A p \in DOMAIN known : p # q => known2[p] = known[p] \ {k}
  OBVIOUS
<1> HIDE DEF T, rep2, known2
<1>5. \A p \in T : rep2[p] \in known2[p]
  BY <1>1, <1>3, <1>4
<1>6. \A p, r \in T : rep2[p] = rep2[r] => p = r
  BY <1>1, <1>3
<1>7. IsFiniteSet(left) /\ IsFiniteSet(W \cap S)
  BY NoLarger
<1>8. k \notin left2
  BY <1>3
<1>9. ASSUME NEW p \in S, p # q, rep[p] # k PROVE rep[p] \in {rep2[r] : r \in T}
  BY <1>3, <1>9
<1>10. Cardinality(left2) + Cardinality((W \ {q}) \cap T) <= n
  <2> DEFINE a == Cardinality(left)
             b == Cardinality(W \cap S)
             a2 == Cardinality(left2)
             b2 == Cardinality((W \ {q}) \cap T)
  <2>0. a + b <= n
    BY <1>1
  <2>1. CASE q \in S
    <3>1. left2 \subseteq left \cup {rep[q]}
      BY <1>8, <1>9
    <3>2. a2 <= a + 1 /\ a \in Nat /\ a2 \in Nat
      BY <1>7, <3>1, OneLarger
    <3>3. (W \ {q}) \cap T \subseteq (W \cap S) \ {q}
      BY <1>3
    <3>4. /\ IsFiniteSet((W \cap S) \ {q})
          /\ Cardinality((W \cap S) \ {q}) = IF q \in W \cap S THEN b - 1 ELSE b
      BY <1>7, FS_RemoveElement
    <3>5. b2 <= Cardinality((W \cap S) \ {q}) /\ b2 \in Nat
      BY <3>3, <3>4, NoLarger
    <3>6. b \in Nat
      BY <1>7, FS_CardinalityType
    <3>7. b2 <= b - 1
      BY <2>1, <3>4, <3>5
    <3> HIDE DEF a, b, a2, b2
    <3>8. a2 + b2 <= n
      BY <2>0, <3>2, <3>5, <3>6, <3>7
    <3> QED
      BY <3>8 DEF a2, b2
  <2>2. CASE q \notin S
    <3>1. left2 \subseteq left
      BY <1>8, <1>9, <2>2
    <3>2. a2 <= a /\ a \in Nat /\ a2 \in Nat
      BY <1>7, <3>1, NoLarger
    <3>3. (W \ {q}) \cap T \subseteq W \cap S
      BY <1>3
    <3>4. b2 <= b /\ b \in Nat /\ b2 \in Nat
      BY <1>7, <3>3, NoLarger
    <3> HIDE DEF a, b, a2, b2
    <3>5. a2 + b2 <= n
      BY <2>0, <3>2, <3>4
    <3> QED
      BY <3>5 DEF a2, b2
  <2> QED
    BY <2>1, <2>2
<1>11. Fits(C \cup {k}, known2, W \ {q}, n)
  BY <1>2, <1>5, <1>6, <1>10, Zenon DEF Fits
<1> QED
  BY <1>11 DEF known2

(* Rows that fit are no more than the bound and one for each worker.       *)
LEMMA FitsMeans ==
  ASSUME NEW C, NEW known, NEW W, NEW n \in Int, IsFiniteSet(C), IsFiniteSet(W),
         IsFiniteSet(DOMAIN known), Fits(C, known, W, n)
  PROVE  Cardinality(C) <= n + Cardinality(DOMAIN known)
<1>0. PICK S \in SUBSET (DOMAIN known) : \E rep \in [S -> C] :
        /\ \A p \in S : rep[p] \in known[p]
        /\ \A p, r \in S : rep[p] = rep[r] => p = r
        /\ Cardinality(C \ {rep[p] : p \in S}) + Cardinality(W \cap S) <= n
  BY Zenon DEF Fits
<1>1. PICK rep \in [S -> C] :
        /\ \A p \in S : rep[p] \in known[p]
        /\ \A p, r \in S : rep[p] = rep[r] => p = r
        /\ Cardinality(C \ {rep[p] : p \in S}) + Cardinality(W \cap S) <= n
  BY <1>0
<1> DEFINE given == {rep[p] : p \in S}
           left == C \ given
<1>2. IsFiniteSet(left) /\ IsFiniteSet(W \cap S) /\ IsFiniteSet(S) /\ given \subseteq C
  BY NoLarger
<1>3. IsFiniteSet(given)
  BY <1>2, NoLarger
<1>4. Cardinality(given) <= Cardinality(S) /\ Cardinality(S) <= Cardinality(DOMAIN known)
  <2>1. rep \in Surjection(S, given)
    <3>1. rep \in [S -> given]
      OBVIOUS
    <3>2. \A g \in given : \E p \in S : rep[p] = g
      OBVIOUS
    <3> QED
      BY <3>1, <3>2 DEF Surjection
  <2> QED
    BY <1>2, <2>1, FS_Surjection, NoLarger
<1>5. Cardinality(C) <= Cardinality(left) + Cardinality(given)
  <2>1. C = left \cup given /\ left \cap given = {}
    BY <1>2
  <2>2. Cardinality(left \cup given)
          = Cardinality(left) + Cardinality(given) - Cardinality(left \cap given)
    BY <1>2, <1>3, FS_Union
  <2>3. Cardinality({}) = 0
    BY FS_EmptySet
  <2>4. Cardinality(left) \in Nat /\ Cardinality(given) \in Nat
    BY <1>2, <1>3, FS_CardinalityType
  <2>5. Cardinality(C) = Cardinality(left) + Cardinality(given) - 0
    BY <2>1, <2>2, <2>3, Zenon
  <2> HIDE DEF left, given
  <2> QED
    BY <2>4, <2>5
<1>6. /\ Cardinality(W \cap S) \in Nat /\ Cardinality(left) \in Nat
      /\ Cardinality(given) \in Nat /\ Cardinality(S) \in Nat
      /\ Cardinality(DOMAIN known) \in Nat /\ Cardinality(C) \in Nat
  BY <1>2, <1>3, FS_CardinalityType
<1>7. Cardinality(left) + Cardinality(W \cap S) <= n
  BY <1>1
<1> HIDE DEF left, given
<1> QED
  BY <1>4, <1>5, <1>6, <1>7

(* The rows that no retrieval's write-back changed, the rows a worker's    *)
(* items know (none, after a failed write, until the transaction it left   *)
(* open has ended), and the workers past their eviction.                   *)
Settled == Live \ undone
Covers(p) ==
  IF txn[p] # "none" THEN {}
  ELSE {k \in Live : \E i \in heap[p] \cup victim[p] : i.key = k /\ i.at = table[k]}
Known == [p \in workers |-> Covers(p)]
Writers == {p \in workers : pc[p] \in {"existing", "write"}}
Slack == MaxEntries["sqlite"] - 1 + restarts + faults

FitsInv == backend = "sqlite" => Fits(Settled, Known, Writers, Slack)

VictimInv ==
  \A p \in Proc :
    IF pc[p] \in {"match", "drop"} THEN \E i : victim[p] = {i} ELSE victim[p] = {}

LEMMA InitVictimInv == Init => VictimInv
BY DEF Init, VictimInv

LEMMA NextVictimInv == TypeInv /\ VictimInv /\ [Next]_vars => VictimInv'
<1> SUFFICES ASSUME TypeInv, VictimInv, [Next]_vars PROVE VictimInv'
  OBVIOUS
<1> USE DEF TypeInv, TypeOK, VictimInv, Goto, Return
<1>1. ASSUME NEW p \in workers, Begin(p) PROVE VictimInv'
  BY <1>1 DEF Begin, BeginStore, BeginStats, Clean, FindExpired, Find, Miss
<1>2. ASSUME NEW p \in workers, Step(p) PROVE VictimInv'
  <2>1. CASE ExpireOne(p) \/ StatsDone(p) \/ Rebuild(p) \/ EvictDone(p)
    BY <1>2, <2>1 DEF ExpireOne, StatsDone, Rebuild, EvictDone
  <2>2. CASE Pop(p)
    <3>1. PICK i \in heap[p] : /\ victim' = [victim EXCEPT ![p] = {i}]
                               /\ pc' = [pc EXCEPT ![p] = "match"]
      BY <2>2 DEF Pop
    <3>2. p \in Proc /\ pc'[p] = "match" /\ victim'[p] = {i}
      BY <3>1
    <3>3. \A q \in Proc \ {p} : pc'[q] = pc[q] /\ victim'[q] = victim[q]
      BY <3>1
    <3> QED
      BY <3>2, <3>3
  <2>3. CASE MatchVictim(p)
    BY <1>2, <2>3 DEF MatchVictim
  <2>4. CASE SkipStale(p) \/ Drop(p)
    BY <1>2, <2>4 DEF SkipStale, Drop
  <2>5. CASE Existing(p) \/ Write(p) \/ Forget(p) \/ Touch(p)
    BY <1>2, <2>5 DEF Existing, Write, Forget, Touch
  <2> QED
    BY <1>2, <2>1, <2>2, <2>3, <2>4, <2>5 DEF Step
<1>3. ASSUME NEW p \in workers, Restart(p) PROVE VictimInv'
  BY <1>3 DEF Restart
<1>4. CASE Tick \/ UNCHANGED vars
  BY <1>4 DEF Tick, vars
<1> QED
  BY <1>1, <1>2, <1>3, <1>4 DEF Next

LEMMA FileFinite ==
  ASSUME TypeInv
  PROVE  /\ IsFiniteSet(Settled) /\ IsFiniteSet(Writers) /\ IsFiniteSet(workers)
         /\ Slack \in Int
<1>1. IsFiniteSet(Settled)
  BY LiveFinite, FS_Subset DEF Settled
<1>2. IsFiniteSet(workers)
  BY ConstantsAssumption, FS_Subset DEF TypeInv, TypeOK
<1>3. IsFiniteSet(Writers)
  BY <1>2, FS_Subset DEF Writers
<1>4. Slack \in Int
  BY ConstantsAssumption DEF Slack, TypeInv, TypeOK
<1> QED
  BY <1>1, <1>2, <1>3, <1>4

(* What is left to show of a step, in terms of the state before it.        *)
LEMMA FitsThen ==
  ASSUME NEW C, NEW known, NEW W, NEW n \in Int, TypeInv',
         IsFiniteSet(C), IsFiniteSet(W), Fits(C, known, W, n), DOMAIN known = workers',
         Settled' \subseteq C, \A p \in workers' : known[p] \cap Settled' \subseteq Covers(p)',
         Writers' \subseteq W, n <= Slack'
  PROVE  FitsInv'
<1>1. PICK C2 : C2 = Settled'
  OBVIOUS
<1>2. PICK known2 : known2 = Known'
  OBVIOUS
<1>3. PICK W2 : W2 = Writers'
  OBVIOUS
<1>4. PICK n2 : n2 = Slack'
  OBVIOUS
<1>5. n2 \in Int
  BY <1>4, ConstantsAssumption DEF Slack, TypeInv, TypeOK
<1>6. DOMAIN known2 = DOMAIN known /\ \A p \in DOMAIN known : known[p] \cap C2 \subseteq known2[p]
  BY <1>1, <1>2 DEF Known
<1>7. Fits(C2, known2, W2, n2)
  BY <1>1, <1>3, <1>4, <1>5, <1>6, FitsKept
<1> QED
  BY <1>1, <1>2, <1>3, <1>4, <1>7 DEF FitsInv, Fits

LEMMA SlackGrows ==
  ASSUME TypeInv, TypeInv'
  PROVE  /\ restarts + faults <= restarts' + faults' => Slack <= Slack'
         /\ restarts + faults < restarts' + faults' => Slack + 1 <= Slack'
<1>1. PICK m \in Nat : m = MaxEntries["sqlite"]
  BY ConstantsAssumption
<1>2. PICK r \in Nat, f \in Nat, r2 \in Nat, f2 \in Nat :
        r = restarts /\ f = faults /\ r2 = restarts' /\ f2 = faults'
  BY DEF TypeInv, TypeOK
<1>3. Slack = m - 1 + r + f /\ Slack' = m - 1 + r2 + f2
  BY <1>1, <1>2 DEF Slack
<1>4. /\ r + f <= r2 + f2 => m - 1 + r + f <= m - 1 + r2 + f2
      /\ r + f < r2 + f2 => m - 1 + r + f + 1 <= m - 1 + r2 + f2
  OBVIOUS
<1> QED
  BY <1>2, <1>3, <1>4

(* No row appears and no worker forgets a row that stays.                  *)
LEMMA FileKeeps ==
  ASSUME TypeInv, TypeInv', FitsInv, backend = "sqlite", workers' = workers,
         Settled' \subseteq Settled,
         \A p \in workers : Covers(p) \cap Settled' \subseteq Covers(p)',
         Writers' \subseteq Writers, restarts + faults <= restarts' + faults'
  PROVE  FitsInv'
<1>1. DOMAIN Known = workers /\ \A p \in workers : Known[p] = Covers(p)
  BY DEF Known
<1>2. Slack <= Slack'
  BY SlackGrows
<1>3. Fits(Settled, Known, Writers, Slack)
  BY DEF FitsInv
<1>4. PICK C : C = Settled
  OBVIOUS
<1>5. PICK known : known = Known
  OBVIOUS
<1>6. PICK W : W = Writers
  OBVIOUS
<1>7. PICK n : n = Slack
  OBVIOUS
<1> QED
  BY <1>1, <1>2, <1>3, <1>4, <1>5, <1>6, <1>7, FileFinite, FitsThen

(* A worker forgets what it knew, at the price of a mishap.                *)
LEMMA FileLoses ==
  ASSUME TypeInv, TypeInv', FitsInv, backend = "sqlite", workers' = workers, NEW q \in workers,
         Settled' \subseteq Settled,
         \A p \in workers \ {q} : Covers(p) \cap Settled' \subseteq Covers(p)',
         Writers' \subseteq Writers, restarts + faults < restarts' + faults'
  PROVE  FitsInv'
<1>1. DOMAIN Known = workers /\ \A p \in workers : Known[p] = Covers(p)
  BY DEF Known
<1>2. Slack + 1 <= Slack' /\ Slack \in Int
  BY SlackGrows, FileFinite
<1>3. Fits(Settled, Known, Writers, Slack)
  BY DEF FitsInv
<1>4. PICK C : C = Settled
  OBVIOUS
<1>5. PICK known : known = Known
  OBVIOUS
<1>6. PICK W : W = Writers
  OBVIOUS
<1>7. PICK n : n = Slack
  OBVIOUS
<1> DEFINE known2 == [known EXCEPT ![q] = {}]
<1>8. Fits(C, known2, W, n + 1)
  BY <1>2, <1>3, <1>4, <1>5, <1>6, <1>7, FileFinite, FitsLoses
<1>9. DOMAIN known2 = workers' /\ \A p \in workers' : known2[p] \cap Settled' \subseteq Covers(p)'
  BY <1>1, <1>5
<1> HIDE DEF known2
<1> QED
  BY <1>2, <1>4, <1>6, <1>7, <1>8, <1>9, FileFinite, FitsThen

LEMMA SettledKept ==
  ASSUME undone \subseteq undone', \A k \in Settled' : table'[k] = table[k]
  PROVE  Settled' \subseteq Settled
BY DEF Settled, Live

LEMMA ItemsKept ==
  ASSUME NEW p, \A k \in Settled' : table'[k] = table[k],
         heap[p] \cup victim[p] \subseteq heap'[p] \cup victim'[p],
         txn[p] = "none" => txn'[p] = "none"
  PROVE  Covers(p) \cap Settled' \subseteq Covers(p)'
<1> SUFFICES ASSUME NEW k \in Covers(p), k \in Settled' PROVE k \in Covers(p)'
  OBVIOUS
<1>1. PICK i \in heap[p] \cup victim[p] : i.key = k /\ i.at = table[k]
  BY DEF Covers
<1>2. i \in heap'[p] \cup victim'[p] /\ i.at = table'[k] /\ k \in Live'
  BY <1>1 DEF Settled
<1> QED
  BY <1>1, <1>2 DEF Covers

LEMMA RowsGo ==
  ASSUME TypeInv, NEW K, table' = table \/ table' = Without(K)
  PROVE  \A k \in Live' : table'[k] = table[k]
BY DEF Live, Without

(* A read takes no transaction from or to "none"; one that fails counts.   *)
LEMMA ReadCounts ==
  ASSUME TypeInv, NEW p \in workers, NEW fails \in BOOLEAN, Read(p, fails), restarts' = restarts
  PROVE  /\ restarts + faults <= restarts' + faults'
         /\ fails => restarts + faults < restarts' + faults'
         /\ \A q \in workers : txn[q] = "none" <=> txn'[q] = "none"
<1>1. restarts \in Nat /\ faults \in Nat /\ faults' = IF fails THEN faults + 1 ELSE faults
  BY DEF Read, Call, TypeInv, TypeOK
<1>2. \A q \in workers : txn[q] = "none" <=> txn'[q] = "none"
  BY DEF Read, connection, TypeInv, TypeOK
<1> QED
  BY <1>1, <1>2

(* A write that fails counts, or was refused in a transaction left open.   *)
LEMMA AlterCounts ==
  ASSUME TypeInv, NEW p \in workers, NEW fails \in BOOLEAN, NEW new, Alter(p, fails, new),
         restarts' = restarts
  PROVE  /\ restarts + faults <= restarts' + faults'
         /\ fails => table' = table
         /\ fails /\ txn[p] = "none" => restarts + faults < restarts' + faults'
         /\ fails /\ txn[p] # "none" => txn' = txn
         /\ ~fails => table' = new /\ txn'[p] = "none"
         /\ \A q \in workers \ {p} : txn'[q] = txn[q]
<1>1. restarts \in Nat /\ faults \in Nat /\ p \in Proc /\ txn \in [Proc -> {"none", "open", "reads"}]
  BY DEF TypeInv, TypeOK
<1>2. CASE fails
  <2>1. /\ faults' = faults + 1 \/ (txn[p] = "reads" /\ faults' = faults)
        /\ txn' = [txn EXCEPT ![p] = IF @ = "none" THEN "open" ELSE @]
        /\ table' = table
    BY <1>2 DEF Alter, Refuse, Call
  <2> QED
    BY <1>1, <1>2, <2>1
<1>3. CASE ~fails
  <2>1. faults' = faults /\ txn' = [txn EXCEPT ![p] = "none"] /\ table' = new
    BY <1>3 DEF Alter
  <2> QED
    BY <1>1, <1>3, <2>1
<1> QED
  BY <1>2, <1>3

(* A step that moves no worker past its eviction, adds no row and takes no *)
(* item from a heap.                                                       *)
LEMMA FileStep ==
  ASSUME TypeInv, TypeInv', FitsInv, backend = "sqlite", workers' = workers,
         undone \subseteq undone', \A k \in Settled' : table'[k] = table[k],
         \A p \in workers : heap[p] \cup victim[p] \subseteq heap'[p] \cup victim'[p],
         \A p \in workers : txn[p] = "none" => txn'[p] = "none",
         Writers' \subseteq Writers, restarts + faults <= restarts' + faults'
  PROVE  FitsInv'
BY SettledKept, ItemsKept, FileKeeps

(* A write fails: its worker is taken to know nothing any more.            *)
LEMMA FailFits ==
  ASSUME TypeInv, TypeInv', FitsInv, backend = "sqlite", workers' = workers, NEW p \in workers,
         NEW new, Alter(p, TRUE, new), UNCHANGED <<undone, restarts>>,
         \A q \in workers \ {p} : UNCHANGED <<heap[q], victim[q]>>, Writers' \subseteq Writers
  PROVE  FitsInv'
<1>1. /\ table' = table /\ restarts + faults <= restarts' + faults'
      /\ \A q \in workers \ {p} : txn'[q] = txn[q]
      /\ txn[p] = "none" => restarts + faults < restarts' + faults'
  BY AlterCounts
<1>2. Settled' \subseteq Settled
  BY <1>1, SettledKept
<1>3. \A q \in workers \ {p} : Covers(q) \cap Settled' \subseteq Covers(q)'
  BY <1>1, ItemsKept
<1>4. CASE txn[p] = "none"
  BY <1>1, <1>2, <1>3, <1>4, FileLoses
<1>5. CASE txn[p] # "none"
  <2>1. Covers(p) = {}
    BY <1>5 DEF Covers
  <2> QED
    BY <1>1, <1>2, <1>3, <2>1, FileKeeps
<1> QED
  BY <1>4, <1>5

LEMMA BeginFits ==
  ASSUME TypeInv, TypeInv', FitsInv, backend = "sqlite", NEW p \in workers, Begin(p)
  PROVE  FitsInv'
<1>1. /\ UNCHANGED <<workers, table, heap, victim, undone, restarts>>
      /\ pc'[p] \in {"expire", "forget", "touch", "idle"}
      /\ \A q \in workers \ {p} : pc'[q] = pc[q]
  BY DEF Begin, BeginStore, BeginStats, FindExpired, Find, Miss, Clean, Goto, TypeInv, TypeOK
<1>2. \E fails \in BOOLEAN : Read(p, fails)
  BY DEF Begin, BeginStore, BeginStats, FindExpired, Find, Miss, Clean
<1>3. Writers' \subseteq Writers
  BY <1>1 DEF Writers
<1> QED
  BY <1>1, <1>2, <1>3, ReadCounts, FileStep

(* A row goes, by its key.                                                 *)
LEMMA RowGoesFits ==
  ASSUME TypeInv, TypeInv', FitsInv, backend = "sqlite", NEW p \in workers,
         ExpireOne(p) \/ Forget(p)
  PROVE  FitsInv'
<1>1. /\ UNCHANGED <<workers, heap, victim, undone, restarts>>
      /\ pc'[p] \in {"expire", "idle"}
      /\ \A q \in workers \ {p} : pc'[q] = pc[q]
  BY DEF ExpireOne, Forget, Return, Goto, TypeInv, TypeOK
<1>2. PICK k : \E fails \in BOOLEAN : Alter(p, fails, Without({k}))
  BY Zenon DEF ExpireOne, Forget
<1>6. PICK fails \in BOOLEAN : Alter(p, fails, Without({k}))
  BY <1>2
<1>3. Writers' \subseteq Writers
  BY <1>1 DEF Writers
<1>4. CASE fails
  BY <1>1, <1>3, <1>4, <1>6, FailFits
<1>5. CASE ~fails
  <2>1. /\ table' = Without({k}) /\ restarts + faults <= restarts' + faults'
        /\ \A q \in workers : txn[q] = "none" => txn'[q] = "none"
    BY <1>1, <1>5, <1>6, AlterCounts
  <2>2. \A j \in Settled' : table'[j] = table[j]
    BY <2>1, RowsGo DEF Settled
  <2> QED
    BY <1>1, <1>3, <2>1, <2>2, FileStep
<1> QED
  BY <1>4, <1>5

(* The steps that only move items or read.                                 *)
LEMMA QuietFits ==
  ASSUME TypeInv, TypeInv', VictimInv, FitsInv, backend = "sqlite", NEW p \in workers,
         StatsDone(p) \/ Pop(p) \/ MatchVictim(p) \/ Existing(p)
  PROVE  FitsInv'
<1> USE DEF TypeInv, TypeOK, Goto, Return
<1>1. /\ UNCHANGED <<workers, table, undone, restarts>>
      /\ \A q \in workers \ {p} : UNCHANGED <<pc[q], heap[q], victim[q]>>
      /\ pc'[p] \in {"existing", "write"} => pc[p] \in {"existing", "write"}
  <2>1. UNCHANGED <<workers, table, undone, restarts>>
    BY DEF StatsDone, Pop, MatchVictim, Existing
  <2>2. \A q \in workers \ {p} : UNCHANGED <<heap[q], victim[q]>>
    BY DEF StatsDone, Pop, MatchVictim, Existing
  <2>3. pc' = [pc EXCEPT ![p] = "idle"] \/ pc' = [pc EXCEPT ![p] = "match"]
        \/ pc' = [pc EXCEPT ![p] = "drop"]
        \/ (pc[p] = "existing" /\ pc' = [pc EXCEPT ![p] = "write"])
    BY DEF StatsDone, Pop, MatchVictim, Existing
  <2> QED
    BY <2>1, <2>2, <2>3
<1>2. heap[p] \cup victim[p] \subseteq heap'[p] \cup victim'[p]
  <2>1. CASE Pop(p)
    <3>1. PICK i \in heap[p] : /\ heap' = [heap EXCEPT ![p] = @ \ {i}]
                               /\ victim' = [victim EXCEPT ![p] = {i}]
      BY <2>1 DEF Pop
    <3>2. heap'[p] = heap[p] \ {i} /\ victim'[p] = {i} /\ victim[p] = {}
      BY <2>1, <3>1 DEF Pop, VictimInv
    <3> QED
      BY <3>1, <3>2
  <2>2. CASE ~Pop(p)
    BY <2>2 DEF StatsDone, MatchVictim, Existing
  <2> QED
    BY <2>1, <2>2
<1>3. \E fails \in BOOLEAN : Read(p, fails)
  BY DEF StatsDone, Pop, MatchVictim, Existing
<1>4. Writers' \subseteq Writers
  BY <1>1 DEF Writers
<1>5. \A q \in workers : heap[q] \cup victim[q] \subseteq heap'[q] \cup victim'[q]
  BY <1>1, <1>2
<1> HIDE DEF TypeInv, TypeOK
<1>6. /\ restarts + faults <= restarts' + faults'
      /\ \A q \in workers : txn[q] = "none" => txn'[q] = "none"
  BY <1>1, <1>3, ReadCounts
<1> QED
  BY <1>1, <1>4, <1>5, <1>6, FileStep

(* The rebuilt heap knows every row; a failed read leaves it empty.        *)
LEMMA RebuildFits ==
  ASSUME TypeInv, TypeInv', VictimInv, FitsInv, backend = "sqlite", NEW p \in workers, Rebuild(p)
  PROVE  FitsInv'
<1> DEFINE full == {[key |-> k, at |-> Seen(p)[k], dup |-> 0] : k \in Shown(p)}
<1>1. /\ UNCHANGED <<workers, table, undone, restarts, victim>>
      /\ pc'[p] = "evict"
      /\ \A q \in workers \ {p} : UNCHANGED <<pc[q], heap[q], victim[q]>>
  <2>1. \A q \in workers \ {p} : UNCHANGED heap[q]
    BY DEF Rebuild, TypeInv, TypeOK
  <2> QED
    BY <2>1 DEF Rebuild, Goto, TypeInv, TypeOK
<1>2. Writers' \subseteq Writers
  BY <1>1 DEF Writers
<1>3. \A k \in Settled' : table'[k] = table[k]
  BY <1>1
<1>4. Settled' \subseteq Settled
  BY <1>1, <1>3, SettledKept
<1>5. CASE HalfStale(p)
  <2>1. PICK fails \in BOOLEAN :
          /\ Read(p, fails)
          /\ heap' = [heap EXCEPT ![p] = IF fails THEN {} ELSE full]
    BY <1>5 DEF Rebuild
  <2>2. /\ restarts + faults <= restarts' + faults'
        /\ fails => restarts + faults < restarts' + faults'
        /\ \A q \in workers : txn[q] = "none" <=> txn'[q] = "none"
    BY <1>1, <2>1, ReadCounts
  <2>3. \A q \in workers \ {p} : Covers(q) \cap Settled' \subseteq Covers(q)'
    BY <1>1, <1>3, <2>2, ItemsKept
  <2>4. CASE fails
    BY <1>1, <1>2, <1>4, <2>2, <2>3, <2>4, FileLoses
  <2>5. CASE ~fails /\ txn[p] # "none"
    <3>1. Covers(p) = {}
      BY <2>5 DEF Covers
    <3> QED
      BY <1>1, <1>2, <1>4, <2>2, <2>3, <3>1, FileKeeps
  <2>6. CASE ~fails /\ txn[p] = "none"
    <3>1. heap'[p] = full /\ txn'[p] = "none"
      BY <2>1, <2>2, <2>6 DEF TypeInv, TypeOK
    <3>2. Seen(p) = table /\ Shown(p) = Live
      BY <2>6 DEF Seen, Shown, Live
    <3>3. ASSUME NEW k \in Settled' PROVE k \in Covers(p)'
      <4>1. k \in Live /\ k \in Live' /\ table'[k] = table[k]
        BY <1>1, <3>3 DEF Settled, Live
      <4> DEFINE i == [key |-> k, at |-> table[k], dup |-> 0]
      <4>2. i \in heap'[p] /\ i.key = k /\ i.at = table'[k]
        BY <3>1, <3>2, <4>1
      <4> HIDE DEF i
      <4> QED
        BY <3>1, <4>1, <4>2 DEF Covers
    <3> QED
      BY <1>1, <1>2, <1>4, <2>2, <2>3, <3>3, FileKeeps
  <2> QED
    BY <2>4, <2>5, <2>6
<1>6. CASE ~HalfStale(p)
  <2>1. UNCHANGED <<heap, faults, txn>>
    BY <1>6 DEF Rebuild, connection
  <2>2. restarts + faults <= restarts' + faults'
    BY <1>1, <2>1 DEF TypeInv, TypeOK
  <2> QED
    BY <1>1, <1>2, <1>3, <2>1, <2>2, FileStep
<1> QED
  BY <1>5, <1>6

(* The popped item goes: it was no row's, or its row goes with it, or a    *)
(* call failed.                                                            *)
LEMMA VictimFits ==
  ASSUME TypeInv, TypeInv', VictimInv, FitsInv, backend = "sqlite", NEW p \in workers,
         SkipStale(p) \/ Drop(p)
  PROVE  FitsInv'
<1>1. /\ UNCHANGED <<workers, heap, undone, restarts>>
      /\ pc'[p] = "evict" /\ victim'[p] = {}
      /\ \A q \in workers \ {p} : UNCHANGED <<pc[q], victim[q]>>
  BY DEF SkipStale, Drop, Goto, TypeInv, TypeOK
<1>2. PICK i : victim[p] = {i}
  BY DEF SkipStale, Drop, VictimInv, TypeInv, TypeOK
<1>3. Writers' \subseteq Writers
  BY <1>1 DEF Writers
<1>4. ASSUME NEW fails \in BOOLEAN, fails \/ txn[p] # "none" \/ ~Same(i) \/ table' = Without({i.key}),
             fails => restarts + faults < restarts' + faults',
             restarts + faults <= restarts' + faults',
             table' = table \/ table' = Without({i.key}),
             \A q \in workers : txn[q] = "none" => txn'[q] = "none"
      PROVE  FitsInv'
  <2>1. \A k \in Settled' : table'[k] = table[k]
    BY <1>4, RowsGo DEF Settled
  <2>2. Settled' \subseteq Settled
    BY <1>1, <2>1, SettledKept
  <2>3. \A q \in workers \ {p} : Covers(q) \cap Settled' \subseteq Covers(q)'
    BY <1>1, <1>4, <2>1, ItemsKept
  <2>4. CASE fails
    BY <1>1, <1>3, <1>4, <2>2, <2>3, <2>4, FileLoses
  <2>5. CASE txn[p] # "none"
    <3>1. Covers(p) = {}
      BY <2>5 DEF Covers
    <3> QED
      BY <1>1, <1>3, <1>4, <2>2, <2>3, <3>1, FileKeeps
  <2>6. CASE ~fails /\ txn[p] = "none"
    <3>1. ASSUME NEW k \in Covers(p), k \in Settled' PROVE k \in Covers(p)'
      <4>1. PICK j \in heap[p] \cup {i} : j.key = k /\ j.at = table[k]
        BY <1>2, <3>1 DEF Covers
      <4>2. k \in Live' /\ table'[k] = table[k]
        BY <2>1, <3>1 DEF Settled
      <4>3. j # i
        <5>1. CASE ~Same(i)
          BY <4>1, <5>1 DEF Same
        <5>2. CASE table' = Without({i.key})
          BY <4>1, <4>2, <5>2 DEF Live, Without
        <5> QED
          BY <1>4, <2>6, <5>1, <5>2
      <4> QED
        BY <1>1, <1>4, <2>6, <4>1, <4>2, <4>3 DEF Covers
    <3> QED
      BY <1>1, <1>3, <1>4, <2>2, <2>3, <3>1, FileKeeps
  <2> QED
    BY <2>4, <2>5, <2>6
<1>5. CASE SkipStale(p)
  <2>1. PICK fails \in BOOLEAN : Read(p, fails) /\ (~fails => ~Matches(p, i))
    BY <1>2, <1>5 DEF SkipStale
  <2>2. txn[p] = "none" => (Matches(p, i) <=> Same(i))
    BY DEF Matches, Seen, Same
  <2>3. table' = table
    BY <1>5 DEF SkipStale
  <2>4. /\ fails => restarts + faults < restarts' + faults'
        /\ restarts + faults <= restarts' + faults'
        /\ \A q \in workers : txn[q] = "none" => txn'[q] = "none"
    BY <1>1, <2>1, ReadCounts
  <2> QED
    BY <1>4, <2>1, <2>2, <2>3, <2>4
<1>6. CASE Drop(p)
  <2>1. PICK fails \in BOOLEAN : Alter(p, fails, Without({i.key}))
    BY <1>2, <1>6 DEF Drop
  <2>2. CASE fails
    BY <1>1, <1>3, <2>1, <2>2, FailFits
  <2>3. CASE ~fails
    <3>1. /\ restarts + faults <= restarts' + faults' /\ table' = Without({i.key})
          /\ \A q \in workers : txn[q] = "none" => txn'[q] = "none"
      BY <1>1, <2>1, <2>3, AlterCounts
    <3> QED
      BY <1>4, <2>3, <3>1
  <2> QED
    BY <2>2, <2>3
<1> QED
  BY <1>5, <1>6

(* A worker leaves the eviction below capacity, or with nothing known, or  *)
(* because a call failed.                                                  *)
LEMMA EvictDoneFits ==
  ASSUME TypeInv, TypeInv', VictimInv, FitsInv, backend = "sqlite", NEW p \in workers, EvictDone(p)
  PROVE  FitsInv'
<1>1. /\ UNCHANGED <<workers, table, undone, restarts, heap, victim>>
      /\ pc[p] = "evict" /\ victim[p] = {}
      /\ \A q \in workers \ {p} : UNCHANGED pc[q]
  BY DEF EvictDone, Goto, VictimInv, TypeInv, TypeOK
<1>2. PICK fails \in BOOLEAN :
        /\ Read(p, fails)
        /\ ~fails => Cardinality(Shown(p)) < MaxEntries["sqlite"] \/ heap[p] = {}
  BY DEF EvictDone
<1>3. /\ restarts + faults <= restarts' + faults'
      /\ fails => restarts + faults < restarts' + faults'
      /\ \A q \in workers : txn[q] = "none" <=> txn'[q] = "none"
  BY <1>1, <1>2, ReadCounts
<1>4. /\ fails => Slack + 1 <= Slack'
      /\ Slack <= Slack'
  BY <1>3, SlackGrows
<1>5. Settled' = Settled /\ Writers' \subseteq Writers \cup {p}
  BY <1>1 DEF Settled, Live, Writers
<1>6. \A q \in workers' : Covers(q)' = Covers(q)
  BY <1>1, <1>3 DEF Covers, Live
<1>7. DOMAIN Known = workers' /\ \A q \in workers' : Known[q] = Covers(q)
  BY <1>1 DEF Known
<1>8. Fits(Settled, Known, Writers, Slack)
  BY DEF FitsInv
<1>9. PICK C : C = Settled
  OBVIOUS
<1>10. PICK known : known = Known
  OBVIOUS
<1>11. PICK W : W = Writers \cup {p}
  OBVIOUS
<1>12. PICK n : n = Slack
  OBVIOUS
<1>13. IsFiniteSet(C) /\ IsFiniteSet(W) /\ n \in Int
  BY <1>9, <1>11, <1>12, FileFinite, FS_AddElement
<1>14. /\ DOMAIN known = workers' /\ Settled' \subseteq C /\ Writers' \subseteq W
       /\ \A q \in workers' : known[q] \cap Settled' \subseteq Covers(q)'
  BY <1>5, <1>6, <1>7, <1>9, <1>10, <1>11
<1>15. CASE fails
  <2>1. Fits(C, known, W, n + 1)
    BY <1>8, <1>9, <1>10, <1>11, <1>12, FileFinite, FitsJoins
  <2>2. n + 1 <= Slack'
    BY <1>4, <1>12, <1>15
  <2> QED
    BY <1>13, <1>14, <2>1, <2>2, FitsThen
<1>16. CASE ~fails /\ (heap[p] = {} \/ txn[p] # "none")
  <2>1. p \in DOMAIN known /\ known[p] \cap C = {}
    BY <1>1, <1>7, <1>10, <1>16 DEF Covers
  <2>2. Fits(C, known, W, n)
    BY <1>8, <1>9, <1>10, <1>11, <1>12, <2>1, FileFinite, FitsJoins
  <2> QED
    BY <1>4, <1>12, <1>13, <1>14, <2>2, FitsThen
<1>17. CASE ~fails /\ Cardinality(Shown(p)) < MaxEntries["sqlite"] /\ txn[p] = "none"
  <2>0. Cardinality(Live) < MaxEntries["sqlite"]
    BY <1>17 DEF Shown, Seen, Live
  <2>1. Cardinality(C) <= Cardinality(Live) /\ Cardinality(C) \in Nat
    BY <1>9, LiveFinite, NoLarger DEF Settled
  <2>2. Cardinality(C) <= n
    <3>1. PICK m \in Nat, l \in Nat, r \in Nat, f \in Nat :
            m = MaxEntries["sqlite"] /\ l = Cardinality(Live) /\ r = restarts /\ f = faults
      BY ConstantsAssumption, LiveFinite DEF TypeInv, TypeOK
    <3>2. n = m - 1 + r + f /\ l < m /\ Cardinality(C) <= l
      BY <1>12, <2>0, <2>1, <3>1 DEF Slack
    <3> QED
      BY <2>1, <3>2
  <2>3. Fits(C, known, W, n)
    BY <1>13, <2>2, FitsBelow
  <2> QED
    BY <1>4, <1>12, <1>13, <1>14, <2>3, FitsThen
<1> QED
  BY <1>2, <1>15, <1>16, <1>17

(* What a call set(k, entry) that wrote its row does to the rows.          *)
LEMMA FileSet ==
  ASSUME TypeInv, NEW p \in workers, NEW k \in Key, NEW t \in Nat, Set(p, k, t),
         restarts' = restarts
  PROVE  \/ \E new : Alter(p, TRUE, new)
         \/ /\ table'[k] \in {t, Absent}
            /\ \A j \in Live' \ {k} : table'[j] = table[j]
            /\ restarts + faults <= restarts' + faults'
            /\ txn'[p] = "none" \/ restarts + faults < restarts' + faults'
            /\ \A q \in workers \ {p} : txn'[q] = txn[q]
<1>0. p \in Proc /\ table \in [Key -> Nat \cup {Absent}] /\ restarts \in Nat /\ faults \in Nat
      /\ txn \in [Proc -> {"none", "open", "reads"}] /\ workers \subseteq Proc
  BY DEF TypeInv, TypeOK
<1>1. NewRows(k, t)[k] = t /\ \A j \in Key \ {k} : NewRows(k, t)[j] = table[j]
  BY <1>0 DEF NewRows
<1>2. /\ Purged(NewRows(k, t))[k] \in {t, Absent}
      /\ \A j \in Key \ {k} : Purged(NewRows(k, t))[j] \in {table[j], Absent}
  BY <1>1 DEF Purged
<1>3. CASE \E fails \in BOOLEAN : Alter(p, fails, NewRows(k, t))
  BY <1>1, <1>3, AlterCounts DEF Live
<1>4. CASE Alter(p, FALSE, Purged(NewRows(k, t)))
  BY <1>2, <1>4, AlterCounts DEF Live
<1>5. CASE PurgeFails(p, k, t)
  <2>1. /\ table' = NewRows(k, t) /\ faults' = faults + 1
        /\ txn' = [txn EXCEPT ![p] = "open"]
    BY <1>5 DEF PurgeFails
  <2>2. table'[k] = t /\ \A j \in Live' \ {k} : table'[j] = table[j]
    BY <1>1, <2>1 DEF Live
  <2>3. restarts + faults < restarts' + faults' /\ restarts + faults <= restarts' + faults'
    BY <1>0, <2>1
  <2>4. \A q \in workers \ {p} : txn'[q] = txn[q]
    BY <1>0, <2>1
  <2> QED
    BY <2>2, <2>3, <2>4
<1> QED
  BY <1>0, <1>3, <1>4, <1>5, SetCases

(* A write makes its row the one that is given to the writer.              *)
LEMMA WriteFits ==
  ASSUME TypeInv, TypeInv', VictimInv, FitsInv, backend = "sqlite", NEW p \in workers, Write(p)
  PROVE  FitsInv'
<1> DEFINE k == job[p].key
           t == job[p].at
<1>0. p \in Proc
  BY DEF TypeInv, TypeOK
<1>1. /\ pc[p] = "write" /\ pc'[p] = "idle" /\ victim[p] = {}
      /\ UNCHANGED <<workers, undone, restarts, victim>>
      /\ \A q \in workers \ {p} : UNCHANGED pc[q]
  BY <1>0 DEF Write, Return, Goto, VictimInv, TypeInv, TypeOK
<1>2. k \in Key /\ t \in Nat
  BY <1>0, <1>1 DEF TypeInv, JobTyped, StoreJob
<1>3. /\ \A q \in Proc \ {p} : heap'[q] = heap[q]
      /\ heap[p] \subseteq heap'[p]
      /\ \E i \in heap'[p] : i.key = k /\ i.at = t
  <2>1. PICK d \in 0 .. stored :
          heap' = [heap EXCEPT ![p] = @ \cup {[key |-> k, at |-> t, dup |-> d]}]
    BY DEF Write, Push
  <2> DEFINE i == [key |-> k, at |-> t, dup |-> d]
  <2>2. heap'[p] = heap[p] \cup {i} /\ i.key = k /\ i.at = t
    BY <1>0, <2>1 DEF TypeInv, TypeOK
  <2>3. \A q \in Proc \ {p} : heap'[q] = heap[q]
    BY <2>1 DEF TypeInv, TypeOK
  <2> HIDE DEF i
  <2> QED
    BY <2>2, <2>3
<1> HIDE DEF k, t
<1>4. Writers' \subseteq Writers \ {p} /\ p \in Writers
  BY <1>1 DEF Writers
<1>5. \A q \in workers \ {p} : UNCHANGED <<heap[q], victim[q]>>
  BY <1>1, <1>3 DEF TypeInv, TypeOK
<1>6. \/ \E new : Alter(p, TRUE, new)
      \/ /\ table'[k] \in {t, Absent}
         /\ \A j \in Live' \ {k} : table'[j] = table[j]
         /\ restarts + faults <= restarts' + faults'
         /\ txn'[p] = "none" \/ restarts + faults < restarts' + faults'
         /\ \A q \in workers \ {p} : txn'[q] = txn[q]
  <2>1. Set(p, k, t)
    BY DEF Write, k, t
  <2> QED
    BY <1>1, <1>2, <2>1, FileSet
<1>7. CASE \E new : Alter(p, TRUE, new)
  BY <1>1, <1>4, <1>5, <1>7, FailFits
<1>8. CASE /\ table'[k] \in {t, Absent}
           /\ \A j \in Live' \ {k} : table'[j] = table[j]
           /\ restarts + faults <= restarts' + faults'
           /\ txn'[p] = "none" \/ restarts + faults < restarts' + faults'
           /\ \A q \in workers \ {p} : txn'[q] = txn[q]
  <2>1. Settled' \subseteq Settled \cup {k}
    BY <1>1, <1>8 DEF Settled, Live
  <2>2. \A q \in workers : q # p \/ txn'[p] = "none" =>
          (Covers(q) \ {k}) \cap Settled' \subseteq Covers(q)'
    <3> SUFFICES ASSUME NEW q \in workers, NEW j \in Covers(q), j # k, j \in Settled',
                        q # p \/ txn'[p] = "none"
                 PROVE  j \in Covers(q)'
      OBVIOUS
    <3>0. txn'[q] = "none" /\ heap[q] \cup victim[q] \subseteq heap'[q] \cup victim'[q]
      BY <1>1, <1>3, <1>5, <1>8 DEF Covers
    <3>1. PICK i \in heap[q] \cup victim[q] : i.key = j /\ i.at = table[j]
      BY DEF Covers
    <3>2. j \in Live' /\ table'[j] = table[j]
      BY <1>8 DEF Settled
    <3> QED
      BY <3>0, <3>1, <3>2 DEF Covers
  <2>3. txn'[p] = "none" /\ k \in Settled' => k \in Covers(p)'
    <3> SUFFICES ASSUME txn'[p] = "none", k \in Settled' PROVE k \in Covers(p)'
      OBVIOUS
    <3>1. k \in Live' /\ table'[k] = t
      BY <1>8 DEF Settled, Live
    <3> QED
      BY <1>3, <3>1 DEF Covers
  <2>4. DOMAIN Known = workers /\ \A q \in workers : Known[q] = Covers(q)
    BY DEF Known
  <2>5. Fits(Settled, Known, Writers, Slack)
    BY DEF FitsInv
  <2>6. PICK C : C = Settled
    OBVIOUS
  <2>7. PICK known : known = Known
    OBVIOUS
  <2>8. PICK W : W = Writers
    OBVIOUS
  <2>9. PICK n : n = Slack
    OBVIOUS
  <2> DEFINE known2 == [q \in DOMAIN known |->
                          IF q = p THEN known[q] \cup {k} ELSE known[q] \ {k}]
  <2>10. Fits(C \cup {k}, known2, W \ {p}, n)
    <3>1. p \in DOMAIN known /\ p \in W
      BY <1>4, <2>4, <2>7, <2>8
    <3>2. IsFiniteSet(C) /\ IsFiniteSet(W) /\ n \in Int
      BY <2>6, <2>8, <2>9, FileFinite
    <3>3. Fits(C, known, W, n)
      BY <2>5, <2>6, <2>7, <2>8, <2>9
    <3> QED
      BY <3>1, <3>2, <3>3, FitsWrites, Zenon
  <2>11. \A q \in workers : known2[q] = IF q = p THEN Covers(q) \cup {k} ELSE Covers(q) \ {k}
    BY <2>4, <2>7
  <2>12. DOMAIN known2 = workers'
    BY <1>1, <2>4, <2>7
  <2> HIDE DEF known2
  <2>13. IsFiniteSet(C \cup {k}) /\ IsFiniteSet(W \ {p}) /\ n \in Int
    BY <2>6, <2>8, <2>9, FileFinite, FS_AddElement, FS_RemoveElement
  <2>14. Settled' \subseteq C \cup {k} /\ Writers' \subseteq W \ {p}
    BY <1>4, <2>1, <2>6, <2>8
  <2>15. CASE txn'[p] = "none"
    <3>1. \A q \in workers' : known2[q] \cap Settled' \subseteq Covers(q)'
      BY <1>1, <2>2, <2>3, <2>11, <2>15
    <3>2. n <= Slack'
      BY <1>8, <2>9, SlackGrows
    <3> QED
      BY <2>10, <2>12, <2>13, <2>14, <3>1, <3>2, FitsThen
  <2>16. CASE txn'[p] # "none"
    <3> DEFINE known3 == [known2 EXCEPT ![p] = {}]
    <3>1. Fits(C \cup {k}, known3, W \ {p}, n + 1)
      BY <2>10, <2>13, FitsLoses
    <3>2. DOMAIN known3 = workers'
      BY <2>12
    <3>3. \A q \in workers' : known3[q] \cap Settled' \subseteq Covers(q)'
      BY <1>1, <2>2, <2>11, <2>12
    <3>4. n + 1 <= Slack' /\ n + 1 \in Int
      BY <1>8, <2>9, <2>13, <2>16, SlackGrows
    <3> HIDE DEF known3
    <3> QED
      BY <2>13, <2>14, <3>1, <3>2, <3>3, <3>4, FitsThen
  <2> QED
    BY <2>15, <2>16
<1> QED
  BY <1>6, <1>7, <1>8

(* A write-back that brings a row back or changes it is counted in undone. *)
LEMMA TouchFits ==
  ASSUME TypeInv, TypeInv', FitsInv, backend = "sqlite", NEW p \in workers, Touch(p)
  PROVE  FitsInv'
<1> DEFINE k == job[p].key
           t == job[p].at
<1>0. p \in Proc
  BY DEF TypeInv, TypeOK
<1>1. /\ pc[p] = "touch" /\ pc'[p] = "idle"
      /\ UNCHANGED <<workers, restarts, heap, victim>>
      /\ \A q \in workers \ {p} : UNCHANGED pc[q]
      /\ undone' = IF table'[k] \in {table[k], Absent} THEN undone ELSE undone \cup {k}
  BY <1>0 DEF Touch, Return, Goto, TypeInv, TypeOK
<1>2. k \in Key /\ t \in Nat
  BY <1>0, <1>1 DEF TypeInv, JobTyped, LookJob
<1>3. Set(p, k, t)
  BY DEF Touch
<1> HIDE DEF k, t
<1>4. undone \subseteq undone' /\ Writers' \subseteq Writers
  BY <1>1 DEF Writers
<1>5. CASE \E new : Alter(p, TRUE, new)
  <2>1. table' = table
    BY <1>1, <1>5, AlterCounts
  <2>2. undone' = undone
    BY <1>1, <2>1
  <2> QED
    BY <1>1, <1>4, <1>5, <2>2, FailFits
<1>6. CASE ~\E new : Alter(p, TRUE, new)
  <2>1. /\ \A j \in Live' \ {k} : table'[j] = table[j]
        /\ restarts + faults <= restarts' + faults'
        /\ txn'[p] = "none" \/ restarts + faults < restarts' + faults'
        /\ \A q \in workers \ {p} : txn'[q] = txn[q]
    BY <1>1, <1>2, <1>3, <1>6, FileSet
  <2>2. \A j \in Settled' : table'[j] = table[j]
    BY <1>1, <2>1 DEF Settled, Live
  <2>3. Settled' \subseteq Settled
    BY <1>4, <2>2, SettledKept
  <2>4. \A q \in workers \ {p} : Covers(q) \cap Settled' \subseteq Covers(q)'
    BY <1>1, <2>1, <2>2, ItemsKept
  <2>5. CASE txn'[p] = "none"
    <3>1. Covers(p) \cap Settled' \subseteq Covers(p)'
      BY <1>1, <2>2, <2>5, ItemsKept
    <3> QED
      BY <1>1, <1>4, <2>1, <2>3, <2>4, <3>1, FileKeeps
  <2>6. CASE txn'[p] # "none"
    BY <1>1, <1>4, <2>1, <2>3, <2>4, <2>6, FileLoses
  <2> QED
    BY <2>5, <2>6
<1> QED
  BY <1>5, <1>6

LEMMA RestartFits ==
  ASSUME TypeInv, TypeInv', FitsInv, backend = "sqlite", NEW p \in workers, Restart(p)
  PROVE  FitsInv'
<1>1. /\ UNCHANGED <<workers, undone, faults>> /\ restarts' = restarts + 1
      /\ pc'[p] = "idle" /\ table' = Without(ExpiredRows)
      /\ \A q \in workers \ {p} : UNCHANGED <<pc[q], heap[q], victim[q], txn[q]>>
  BY DEF Restart, Return, Goto, TypeInv, TypeOK
<1>2. \A k \in Settled' : table'[k] = table[k]
  BY <1>1, RowsGo DEF Settled
<1>3. Settled' \subseteq Settled
  BY <1>1, <1>2, SettledKept
<1>4. \A q \in workers \ {p} : Covers(q) \cap Settled' \subseteq Covers(q)'
  BY <1>1, <1>2, ItemsKept
<1>5. Writers' \subseteq Writers
  BY <1>1 DEF Writers
<1>6. restarts + faults < restarts' + faults'
  BY <1>1 DEF TypeInv, TypeOK
<1> QED
  BY <1>1, <1>3, <1>4, <1>5, <1>6, FileLoses

LEMMA InitFitsInv == Init => FitsInv
<1> SUFFICES ASSUME Init PROVE Fits(Settled, Known, Writers, Slack)
  BY DEF FitsInv
<1>1. Settled = {} /\ IsFiniteSet({}) /\ Cardinality({}) = 0
  BY FS_EmptySet DEF Init, Settled, Live, NoRows
<1>2. Slack \in Int /\ 0 <= Slack
  <2>1. MaxEntries["sqlite"] \in Nat \ {0} /\ restarts = 0 /\ faults = 0
    BY ConstantsAssumption DEF Init
  <2> QED
    BY <2>1 DEF Slack
<1> QED
  BY <1>1, <1>2, FitsBelow

LEMMA NextFitsInv == TypeInv /\ TypeInv' /\ VictimInv /\ FitsInv /\ [Next]_vars => FitsInv'
<1> SUFFICES ASSUME TypeInv, TypeInv', VictimInv, FitsInv, [Next]_vars, backend' = "sqlite"
             PROVE  FitsInv'
  BY DEF FitsInv
<1>0. backend = "sqlite"
  BY DeploymentStays
<1>1. ASSUME NEW p \in workers, Begin(p) PROVE FitsInv'
  BY <1>0, <1>1, BeginFits
<1>2. ASSUME NEW p \in workers, Step(p) PROVE FitsInv'
  BY <1>0, <1>2, RowGoesFits, QuietFits, RebuildFits, VictimFits, EvictDoneFits, WriteFits,
     TouchFits
  DEF Step
<1>3. ASSUME NEW p \in workers, Restart(p) PROVE FitsInv'
  BY <1>0, <1>3, RestartFits
<1>4. CASE Tick \/ UNCHANGED vars
  <2>1. UNCHANGED <<workers, table, heap, victim, undone, restarts, faults, pc, txn>>
    BY <1>4 DEF Tick, vars, connection
  <2>2. Writers' \subseteq Writers /\ restarts + faults <= restarts' + faults'
    BY <2>1 DEF Writers, TypeInv, TypeOK
  <2> QED
    BY <1>0, <2>1, <2>2, FileStep
<1> QED
  BY <1>1, <1>2, <1>3, <1>4 DEF Next

LEMMA FileAlways == Spec => [](TypeInv /\ VictimInv /\ FitsInv)
<1>1. Init => TypeInv /\ VictimInv /\ FitsInv
  BY InitTypeInv, InitVictimInv, InitFitsInv
<1>2. TypeInv /\ VictimInv /\ FitsInv /\ [Next]_vars => (TypeInv /\ VictimInv /\ FitsInv)'
  BY NextTypeInv, NextVictimInv, NextFitsInv
<1> QED
  BY <1>1, <1>2, PTL DEF Spec

LEMMA FewRows == TypeInv /\ MemoryInv /\ FitsInv => CapacityKept
<1> SUFFICES ASSUME TypeInv, MemoryInv, FitsInv PROVE CapacityKept
  OBVIOUS
<1>1. CASE backend = "memory"
  <2>1. Cardinality(Live) <= MaxEntries["memory"]
    BY <1>1 DEF MemoryInv, LockInv, SizeInv
  <2> QED
    BY <1>1, <2>1, Capacity1, LiveFinite DEF CapacityKept
<1>2. CASE backend = "sqlite"
  <2>1. Cardinality(Settled) <= Slack + Cardinality(workers)
    <3>1. DOMAIN Known = workers
      BY DEF Known
    <3>2. Fits(Settled, Known, Writers, Slack)
      BY <1>2 DEF FitsInv
    <3> QED
      BY <3>1, <3>2, FileFinite, FitsMeans
  <2>2. IsFiniteSet(undone) /\ IsFiniteSet(Settled) /\ IsFiniteSet(workers)
    BY ConstantsAssumption, FS_Subset, FileFinite DEF TypeInv, TypeOK
  <2>3. Cardinality(Live) <= Cardinality(Settled) + Cardinality(undone)
    <3>1. Live \subseteq Settled \cup undone
      BY DEF Settled
    <3>2. /\ IsFiniteSet(Settled \cup undone)
          /\ Cardinality(Settled \cup undone) =
               Cardinality(Settled) + Cardinality(undone) - Cardinality(Settled \cap undone)
      BY <2>2, FS_Union
    <3>3. Settled \cap undone = {} /\ Cardinality({}) = 0
      BY FS_EmptySet DEF Settled
    <3>4. Cardinality(Live) <= Cardinality(Settled \cup undone)
      BY <3>1, <3>2, NoLarger
    <3>5. Cardinality(Settled) \in Nat /\ Cardinality(undone) \in Nat /\ Cardinality(Live) \in Nat
      BY <2>2, LiveFinite, FS_CardinalityType
    <3>6. Cardinality(Settled \cap undone) = 0
      BY <3>3, Zenon
    <3> QED
      BY <3>2, <3>4, <3>5, <3>6
  <2>4. PICK s \in Nat, u \in Nat, w \in Nat, l \in Nat :
          /\ s = Cardinality(Settled) /\ u = Cardinality(undone)
          /\ w = Cardinality(workers) /\ l = Cardinality(Live)
    BY <2>2, LiveFinite, FS_CardinalityType
  <2>5. PICK m \in Nat, r \in Nat, f \in Nat :
          m = MaxEntries["sqlite"] /\ r = restarts /\ f = faults
    BY ConstantsAssumption DEF TypeInv, TypeOK
  <2>6. s <= (m - 1 + r + f) + w /\ l <= s + u
    BY <2>1, <2>3, <2>4, <2>5 DEF Slack
  <2>7. l <= m + (w - 1 + r + f + u)
    BY <2>6
  <2> QED
    BY <1>2, <2>4, <2>5, <2>7 DEF CapacityKept
<1> QED
  BY <1>1, <1>2 DEF TypeInv, TypeOK

(* For any number of workers, keys and calls and any capacity: a store in  *)
(* memory never exceeds its capacity, and a shared file does by one row at *)
(* most for every further worker, every restart, every failed call and     *)
(* every row a retrieval's write-back changed.                             *)
THEOREM CapacityHolds == Spec => []CapacityKept
BY MemoryAlways, FileAlways, FewRows, PTL

(* The clock stands still but for its ticks.                               *)
LEMMA ClockStep == [Next]_vars => Tick \/ clock' = clock
<1>1. ASSUME NEW p, Begin(p) PROVE clock' = clock
  BY <1>1 DEF Begin, BeginStore, BeginStats, FindExpired, Find, Miss
<1>2. ASSUME NEW p, Step(p) PROVE clock' = clock
  BY <1>2 DEF Step, ExpireOne, StatsDone, Rebuild, Pop, EvictDone, MatchVictim, SkipStale, Drop,
     Existing, Write, Forget, Touch
<1>3. ASSUME NEW p, Restart(p) PROVE clock' = clock
  BY <1>3 DEF Restart
<1> QED
  BY <1>1, <1>2, <1>3 DEF Next, vars

-----------------------------------------------------------------------------
(* The refinement.  A store() stamps its entry with a time that has passed *)
(* when it is written.                                                     *)
StampInv == \A p \in Proc : job[p] \in StoreJob => job[p].at <= clock

LEMMA InitStampInv == Init => StampInv
BY DEF Init, StampInv, NoJob, StoreJob

LEMMA NextStampInv == TypeInv /\ StampInv /\ [Next]_vars => StampInv'
<1> SUFFICES ASSUME TypeInv, StampInv, [Next]_vars PROVE StampInv'
  OBVIOUS
<1> USE DEF StampInv
<1>0. workers \subseteq Proc
  BY DEF TypeInv, TypeOK
<1>1. clock \in Nat /\ (clock' = clock \/ clock' = clock + 1)
  BY ClockStep DEF TypeInv, TypeOK, Tick
<1>2. ASSUME UNCHANGED job PROVE StampInv'
  BY <1>1, <1>2 DEF StoreJob
<1>3. ASSUME NEW p \in Proc, Return(p) PROVE StampInv'
  BY <1>1, <1>3 DEF Return, NoJob, StoreJob, TypeInv, TypeOK
<1>4. ASSUME NEW p \in Proc, Begin(p) PROVE StampInv'
  <2>1. CASE BeginStore(p)
    <3>1. PICK k \in Key, t \in (clock - Bound[backend].wait) .. clock :
            /\ t >= 0
            /\ job' = [job EXCEPT ![p] = [op |-> "store", key |-> k, at |-> t]]
      BY <2>1 DEF BeginStore
    <3> QED
      BY <1>1, <2>1, <3>1 DEF BeginStore, StoreJob, TypeInv, TypeOK
  <2>2. CASE BeginStats(p)
    BY <1>1, <2>2 DEF BeginStats, StoreJob, TypeInv, TypeOK
  <2>3. CASE FindExpired(p)
    BY <1>1, <2>3 DEF FindExpired, StoreJob, TypeInv, TypeOK
  <2>4. CASE Find(p)
    BY <1>1, <2>4 DEF Find, StoreJob, TypeInv, TypeOK
  <2>5. CASE Miss(p)
    BY <1>2, <2>5 DEF Miss
  <2> QED
    BY <1>4, <2>1, <2>2, <2>3, <2>4, <2>5 DEF Begin
<1>5. ASSUME NEW p \in Proc, Step(p) PROVE StampInv'
  BY <1>2, <1>3, <1>5 DEF Step, ExpireOne, StatsDone, Rebuild, Pop, EvictDone, MatchVictim,
     SkipStale, Drop, Existing, Write, Forget, Touch
<1>6. ASSUME NEW p \in Proc, Restart(p) PROVE StampInv'
  BY <1>3, <1>6 DEF Restart
<1> QED
  BY <1>0, <1>2, <1>4, <1>5, <1>6 DEF Next, vars, Tick

(* BoundedStore counts with the Cardinality it extends FiniteSets for.         *)
LEMMA SameCardinality == \A S : Bounded!Cardinality(S) = Cardinality(S)
BY Zenon DEF Bounded!Cardinality, Cardinality, Bounded!IsFiniteSet, IsFiniteSet

(* An expired row that goes is an Expire of the cache.                     *)
LEMMA ExpireRefines ==
  ASSUME TypeOK, backend = "memory", UNCHANGED <<backend, clock>>,
         NEW k \in ExpiredRows, table' = Without({k})
  PROVE  Bounded!Expire({k}) /\ k \in Key
<1>1. k \in Key /\ table[k] # Absent /\ clock - table[k] > TTL
  BY DEF ExpiredRows, Live, Expired
<1>2. MemoryRows = table /\ MemoryRows' = Without({k})
  BY DEF MemoryRows
<1> QED
  BY <1>1, <1>2 DEF Bounded!Expire, Bounded!Overdue, Bounded!Absent, Absent, Without

LEMMA DropRefines ==
  ASSUME TypeInv, backend = "memory", NEW p \in Proc, LockInv(p), Drop(p)
  PROVE  \E k \in Key : Bounded!Evict(k)
<1>1. PICK i \in victim[p] : table' = Without({i.key})
  BY MemoryAlter DEF Drop
<1>2. /\ victim[p] = {i} /\ table[i.key] = i.at /\ i \in Item
      /\ \A j \in heap[p] : i.at <= j.at
      /\ UNCHANGED <<backend, clock>>
  BY <1>1 DEF Drop, LockInv, PlaceInv, Same, TypeInv, TypeOK
<1>3. i.key \in Key /\ i.at \in Nat /\ i.key \in Live
  BY <1>2 DEF Item, Live, Absent
<1>4. \A k \in Live : table[i.key] <= table[k]
  BY <1>2, <1>3 DEF LockInv, HeapInv
<1>5. Cardinality(Live) >= MaxEntries["memory"]
  BY DEF Drop, LockInv, SizeInv
<1>6. MemoryRows = table /\ MemoryRows' = Without({i.key}) /\ Bounded!Present = Live
  BY <1>1, <1>2 DEF MemoryRows, Bounded!Present, Bounded!Absent, Live, Absent
<1>7. Without({i.key}) = [table EXCEPT ![i.key] = Absent]
  BY DEF Without, TypeInv, TypeOK
<1>8. MemoryRows' = [MemoryRows EXCEPT ![i.key] = Bounded!Absent]
  BY <1>6, <1>7 DEF Bounded!Absent, Absent
<1>9. \A k \in Bounded!Present : MemoryRows[i.key] <= MemoryRows[k]
  BY <1>4, <1>6
<1>10. /\ i.key \in Bounded!Present
       /\ Cardinality(Bounded!Present) >= MaxEntries["memory"]
  BY <1>3, <1>5, <1>6
<1>11. Bounded!Evict(i.key)
  BY <1>2, <1>8, <1>9, <1>10, SameCardinality DEF Bounded!Evict
<1> QED
  BY <1>3, <1>11

LEMMA WriteRefines ==
  ASSUME TypeInv, StampInv, backend = "memory", NEW p \in Proc, LockInv(p), Write(p)
  PROVE  \E k \in Key, t \in 0 .. clock : Bounded!Put(k, t)
<1> DEFINE k == job[p].key
           t == job[p].at
<1>1. /\ Set(p, k, t) /\ UNCHANGED <<backend, clock>>
      /\ Cardinality(Live) < MaxEntries["memory"]
  BY DEF Write, LockInv, SizeInv
<1>2. k \in Key /\ t \in Nat /\ t <= clock
  BY DEF Write, TypeInv, JobTyped, StampInv, StoreJob
<1> HIDE DEF k, t
<1>3. MemoryRows = table /\ MemoryRows' = [table EXCEPT ![k] = t] /\ Bounded!Present = Live
  BY <1>1, <1>2, RowSet DEF MemoryRows, Bounded!Present, Bounded!Absent, Live, Absent
<1>4. Cardinality(Live \ {k}) <= Cardinality(Live) /\ Cardinality(Live \ {k}) \in Nat
  <2>1. IsFiniteSet(Live \ {k})
    BY LiveFinite, FS_Subset
  <2> QED
    BY <2>1, LiveFinite, FS_Subset, FS_CardinalityType
<1>5. Bounded!Put(k, t)
  <2>1. Cardinality(Bounded!Present \ {k}) < MaxEntries["memory"]
    BY <1>1, <1>3, <1>4, LiveFinite, Capacity1
  <2>2. MemoryRows' = [MemoryRows EXCEPT ![k] = t]
    BY <1>3
  <2> QED
    BY <1>1, <2>1, <2>2, SameCardinality DEF Bounded!Put
<1>6. t \in 0 .. clock
  BY <1>2 DEF TypeInv, TypeOK
<1> QED
  BY <1>2, <1>5, <1>6

LEMMA StepRefines ==
  ASSUME TypeInv, StampInv, backend = "memory", NEW p \in Proc, LockInv(p), Step(p)
  PROVE  [Bounded!Next]_<<MemoryRows, clock>>
<1>0. UNCHANGED <<backend, clock>>
  BY DEF Step, ExpireOne, StatsDone, Rebuild, Pop, EvictDone, MatchVictim, SkipStale, Drop,
     Existing, Write, Forget, Touch
<1>1. ASSUME UNCHANGED table PROVE UNCHANGED <<MemoryRows, clock>>
  BY <1>0, <1>1 DEF MemoryRows
<1>2. CASE ExpireOne(p)
  <2>1. PICK k \in todo[p] : table' = Without({k})
    BY <1>2, MemoryAlter DEF ExpireOne
  <2>2. k \in ExpiredRows
    BY <1>2, <2>1 DEF ExpireOne, LockInv, PlaceInv
  <2>3. Bounded!Expire({k}) /\ {k} \in SUBSET Key
    BY <1>0, <2>1, <2>2, ExpireRefines DEF TypeInv
  <2> QED
    BY <2>3 DEF Bounded!Next
<1>3. CASE Forget(p)
  <2>1. table' = Without({job[p].key})
    BY <1>3, MemoryAlter DEF Forget
  <2>2. job[p].key \in ExpiredRows
    BY <1>3 DEF Forget, LockInv, PlaceInv
  <2>3. Bounded!Expire({job[p].key}) /\ {job[p].key} \in SUBSET Key
    BY <1>0, <2>1, <2>2, ExpireRefines DEF TypeInv
  <2> QED
    BY <2>3 DEF Bounded!Next
<1>4. CASE Drop(p)
  BY <1>4, DropRefines DEF Bounded!Next
<1>5. CASE Write(p)
  BY <1>5, WriteRefines DEF Bounded!Next
<1>6. CASE Touch(p)
  BY <1>1, <1>6, TouchIsQuiet
<1>7. CASE StatsDone(p) \/ Rebuild(p) \/ Pop(p) \/ EvictDone(p) \/ MatchVictim(p)
           \/ SkipStale(p) \/ Existing(p)
  BY <1>1, <1>7 DEF StatsDone, Rebuild, Pop, EvictDone, MatchVictim, SkipStale, Existing
<1> QED
  BY <1>2, <1>3, <1>4, <1>5, <1>6, <1>7 DEF Step

(* A shared file is no part of the abstract cache's state.                 *)
LEMMA FileRefines ==
  ASSUME TypeInv, backend # "memory", [Next]_vars
  PROVE  [Bounded!Next]_<<MemoryRows, clock>>
<1>1. UNCHANGED MemoryRows
  BY DeploymentStays DEF MemoryRows
<1>2. CASE Tick
  BY <1>1, <1>2 DEF Tick, Bounded!Next, Bounded!Tick
<1>3. CASE ~Tick
  BY <1>1, <1>3, ClockStep
<1> QED
  BY <1>2, <1>3

LEMMA NextRefines ==
  TypeInv /\ MemoryInv /\ StampInv /\ [Next]_vars => [Bounded!Next]_<<MemoryRows, clock>>
<1> SUFFICES ASSUME TypeInv, MemoryInv, StampInv, [Next]_vars, backend = "memory"
             PROVE  [Bounded!Next]_<<MemoryRows, clock>>
  BY FileRefines
<1>1. PICK p \in Proc : workers = {p} /\ LockInv(p)
  BY DEF MemoryInv
<1>2. backend' = backend
  BY DeploymentStays
<1>3. CASE Begin(p)
  BY <1>2, <1>3 DEF Begin, BeginStore, BeginStats, FindExpired, Find, Miss, MemoryRows
<1>4. CASE Step(p)
  BY <1>1, <1>4, StepRefines
<1>5. CASE Restart(p)
  <2>1. MemoryRows' = [k \in Key |-> Absent] /\ clock' = clock
    BY <1>2, <1>5 DEF Restart, MemoryRows, NoRows
  <2> QED
    BY <2>1 DEF Bounded!Next, Bounded!Lose, Bounded!Absent, Absent
<1>6. CASE Tick
  BY <1>2, <1>6 DEF Tick, MemoryRows, Bounded!Next, Bounded!Tick
<1>7. CASE UNCHANGED vars
  BY <1>7 DEF vars, MemoryRows
<1> QED
  BY <1>1, <1>3, <1>4, <1>5, <1>6, <1>7 DEF Next

(* In memory the store implements the cache of BoundedStore, for any capacity  *)
(* and any number of keys: what a step of the locked code does to the rows *)
(* is to store an entry below capacity, to drop one that is too old or, of *)
(* a full cache, the oldest.                                               *)
THEOREM BoundedRefinement == Spec => BoundedRefined
<1>1. Init => Bounded!Init
  BY DEF Init, MemoryRows, NoRows, Bounded!Init, Bounded!Absent, Absent
<1> QED
  BY <1>1, MemoryAlways, InitStampInv, NextStampInv, NextRefines, PTL
  DEF Spec, BoundedRefined, Bounded!Spec
=============================================================================
