---------------------------- MODULE UserMemoryProofs ----------------------------
(***************************************************************************)
(* Theorems about UserMemory for any number of threads and processes, any  *)
(* MEMORY.md and any number of calls, exceptions and killed processes.     *)
(***************************************************************************)
EXTENDS UserMemory, FiniteSetTheorems, TLAPS

LEMMA Moved ==
    ASSUME DOMAIN call = Threads, NEW t \in Threads, NEW c, Goto(t, c)
    PROVE  /\ DOMAIN call' = Threads /\ call'[t] = c
           /\ \A u \in Threads : u # t => call'[u] = call[u]
BY DEF Goto

--------------------------------------------------------------------------------
(* Permanent rows stay.  What a thread is about to delete by id cannot     *)
(* have become permanent: an id names one row, and a later row gets an id  *)
(* that none ever had.                                                     *)

IdsOK ==
    /\ lastId \in Nat
    /\ \A r \in rows : r.id \in 1 .. lastId
    /\ \A r, s \in rows : r.id = s.id => r = s

DoomedOK ==
    \A t \in Threads : call[t].at = "delete" =>
        \A i \in call[t].ids : i \in 1 .. lastId /\ \A r \in rows : r.id = i => r.level # "permanent"

LinesOK ==
    \A t \in Threads :
        /\ call[t].at = "lines" => call[t].line \in 1 .. Len(Lines) + 1
        /\ call[t].at = "insert" => call[t].line \in 1 .. Len(Lines)

IdInv == DOMAIN call = Threads /\ IdsOK /\ DoomedOK /\ LinesOK

(* Rows are added under new ids only, one way or the other.                *)
Grows == /\ lastId' \in Nat /\ lastId' >= lastId /\ rows \subseteq rows'
         /\ \A r \in rows' \ rows : r.id \in lastId + 1 .. lastId'
         /\ \A r, s \in rows' \ rows : r.id = s.id => r = s

LEMMA InsertGrows ==
    ASSUME IdsOK, NEW c, NEW level, NEW by, Insert(c, level, by)
    PROVE  Grows
<1>1. /\ lastId' = lastId + 1
      /\ rows' = rows \cup {[id |-> lastId + 1, content |-> c, level |-> level, by |-> by]}
  BY DEF Insert, FreeId
<1> QED
  BY <1>1 DEF Grows, IdsOK

(* Of two positions the later one has the larger rank.                     *)
LEMMA Ranks ==
    ASSUME NEW n \in Nat, NEW new \in SUBSET (1 .. n)
    PROVE  /\ Cardinality(new) \in Nat
           /\ \A j \in new : Cardinality({k \in new : k <= j}) \in 1 .. Cardinality(new)
           /\ \A i, j \in new : Cardinality({k \in new : k <= i}) = Cardinality({k \in new : k <= j}) => i = j
<1> DEFINE upto(j) == {k \in new : k <= j}
<1>1. IsFiniteSet(new) /\ Cardinality(new) \in Nat
  <2>1. IsFiniteSet(1 .. n)
    BY FS_Interval
  <2> QED
    BY <2>1, FS_Subset, FS_CardinalityType
<1>2. \A j \in new : IsFiniteSet(upto(j)) /\ Cardinality(upto(j)) \in Nat
  <2> TAKE j \in new
  <2>1. upto(j) \subseteq new
    OBVIOUS
  <2> QED
    BY <1>1, <2>1, FS_Subset, FS_CardinalityType
<1>3. \A j \in new : Cardinality(upto(j)) \in 1 .. Cardinality(new)
  <2> TAKE j \in new
  <2>1. upto(j) \subseteq new /\ j \in upto(j)
    OBVIOUS
  <2>2. Cardinality(upto(j)) <= Cardinality(new)
    BY <1>1, <2>1, FS_Subset
  <2>3. Cardinality(upto(j)) # 0
    BY <1>2, <2>1, FS_EmptySet
  <2> QED
    BY <1>1, <1>2, <2>2, <2>3
<1>4. ASSUME NEW i \in new, NEW j \in new, i < j
      PROVE  Cardinality(upto(i)) < Cardinality(upto(j))
  <2>1. upto(i) \subseteq upto(j) /\ j \in upto(j) /\ j \notin upto(i)
    <3>1. \A k \in new : k \in Int
      OBVIOUS
    <3>2. ASSUME NEW k \in upto(i) PROVE k \in upto(j)
      BY <1>4, <3>1
    <3>3. j \in upto(j) /\ j \notin upto(i)
      BY <1>4, <3>1
    <3> QED
      BY <3>2, <3>3
  <2> HIDE DEF upto
  <2> QED
    BY <1>2, <2>1, FS_Subset
<1> QED
  BY <1>1, <1>2, <1>3, <1>4

LEMMA MigrateGrows ==
    ASSUME IdsOK, NEW t \in Threads, Migrate(t), call[t].line \in 1 .. Len(Lines)
    PROVE  Grows
<1> DEFINE new == Fresh(call[t].line)
           rank(j) == Cardinality({k \in new : k <= j})
<1>1. Len(Lines) \in Nat /\ new \subseteq 1 .. Len(Lines)
  BY UserMemoryAssumption DEF Fresh
<1>2. /\ rows' = rows \cup {[id |-> lastId + rank(j), content |-> Lines[j],
                              level |-> "auto", by |-> "migration"] : j \in new}
      /\ lastId' = lastId + Cardinality(new)
  BY DEF Migrate
<1>3. /\ Cardinality(new) \in Nat
      /\ \A j \in new : rank(j) \in 1 .. Cardinality(new)
      /\ \A i, j \in new : rank(i) = rank(j) => i = j
  BY <1>1, Ranks
<1> HIDE DEF new, rank
<1>4. lastId' \in Nat /\ lastId' >= lastId /\ rows \subseteq rows'
  BY <1>2, <1>3 DEF IdsOK
<1>5. ASSUME NEW r \in rows' \ rows
      PROVE  \E j \in new : r = [id |-> lastId + rank(j), content |-> Lines[j],
                                  level |-> "auto", by |-> "migration"]
  BY <1>2
<1>6. \A r \in rows' \ rows : r.id \in lastId + 1 .. lastId'
  <2> TAKE r \in rows' \ rows
  <2>1. PICK j \in new : r.id = lastId + rank(j)
    BY <1>5
  <2>2. rank(j) \in 1 .. Cardinality(new)
    BY <1>3
  <2> QED
    BY <1>2, <1>3, <2>1, <2>2 DEF IdsOK
<1>7. ASSUME NEW r \in rows' \ rows, NEW s \in rows' \ rows, r.id = s.id PROVE r = s
  <2>1. PICK i \in new : r = [id |-> lastId + rank(i), content |-> Lines[i],
                              level |-> "auto", by |-> "migration"]
    BY <1>5
  <2>2. PICK j \in new : s = [id |-> lastId + rank(j), content |-> Lines[j],
                              level |-> "auto", by |-> "migration"]
    BY <1>5
  <2>3. rank(i) \in Nat /\ rank(j) \in Nat /\ lastId + rank(i) = lastId + rank(j)
    BY <1>3, <1>7, <2>1, <2>2
  <2>4. i = j
    BY <1>3, <2>3 DEF IdsOK
  <2> QED
    BY <2>1, <2>2, <2>4
<1> QED
  BY <1>4, <1>6, <1>7 DEF Grows

LEMMA InitIds == Init => IdInv
BY DEF Init, IdInv, IdsOK, DoomedOK, LinesOK, Idle

(* A call that neither inserts nor deletes: where it goes to keeps the     *)
(* locals sound.                                                           *)
Elsewhere(t) ==
    /\ rows' = rows /\ lastId' = lastId
    /\ \/ call' = call
       \/ \E c : /\ Goto(t, c)
                 /\ c.at = "lines" => c.line \in 1 .. Len(Lines) + 1
                 /\ c.at = "insert" => c.line \in 1 .. Len(Lines)
                 /\ c.at = "delete" => \A i \in c.ids : \E r \in rows : r.id = i /\ r.level # "permanent"

LEMMA ElsewhereIds ==
    ASSUME IdInv, NEW t \in Threads, Elsewhere(t)
    PROVE  IdInv'
<1>1. CASE call' = call
  BY <1>1 DEF Elsewhere, IdInv, IdsOK, DoomedOK, LinesOK
<1>2. ASSUME NEW c, Goto(t, c),
             c.at = "lines" => c.line \in 1 .. Len(Lines) + 1,
             c.at = "insert" => c.line \in 1 .. Len(Lines),
             c.at = "delete" => \A i \in c.ids : \E r \in rows : r.id = i /\ r.level # "permanent"
      PROVE  IdInv'
  <2>1. /\ DOMAIN call' = Threads /\ call'[t] = c
        /\ \A u \in Threads : u # t => call'[u] = call[u]
    BY <1>2, Moved DEF IdInv
  <2>2. IdsOK' /\ rows' = rows /\ lastId' = lastId
    BY DEF Elsewhere, IdInv, IdsOK
  <2>3. ASSUME c.at = "delete", NEW i \in c.ids
        PROVE  i \in 1 .. lastId /\ \A r \in rows : r.id = i => r.level # "permanent"
    <3>1. PICK r \in rows : r.id = i /\ r.level # "permanent"
      BY <1>2, <2>3
    <3> QED
      BY <3>1 DEF IdInv, IdsOK
  <2>4. DoomedOK'
    BY <2>1, <2>2, <2>3 DEF IdInv, DoomedOK
  <2>5. LinesOK'
    BY <1>2, <2>1 DEF IdInv, LinesOK
  <2> QED
    BY <2>1, <2>2, <2>4, <2>5 DEF IdInv
<1> QED
  BY <1>1, <1>2 DEF Elsewhere

(* A call that inserts goes to no place with locals to keep sound.         *)
LEMMA GrowsIds ==
    ASSUME IdInv, Grows, NEW t \in Threads, NEW c,
           call' = call \/ Goto(t, c), c.at \notin {"lines", "insert", "delete"}
    PROVE  IdInv'
<1>1. DOMAIN call' = Threads
      /\ \A u \in Threads : call'[u] = call[u] \/ call'[u] = c
  BY Moved DEF IdInv
<1>2. IdsOK'
  <2>1. lastId' \in Nat /\ lastId \in Nat
    BY DEF Grows, IdInv, IdsOK
  <2>2. \A r \in rows' : (r \in rows /\ r.id \in 1 .. lastId) \/ (r \notin rows /\ r.id \in lastId + 1 .. lastId')
    BY DEF Grows, IdInv, IdsOK
  <2>3. \A r \in rows' : r.id \in 1 .. lastId'
    BY <2>1, <2>2 DEF Grows
  <2>4. ASSUME NEW r \in rows', NEW s \in rows', r.id = s.id PROVE r = s
    <3>1. r \in rows <=> s \in rows
      BY <2>1, <2>2, <2>4
    <3>2. CASE r \in rows
      BY <2>4, <3>1, <3>2 DEF IdInv, IdsOK
    <3>3. CASE r \notin rows
      BY <2>4, <3>1, <3>3 DEF Grows
    <3> QED
      BY <3>2, <3>3
  <2> QED
    BY <2>1, <2>3, <2>4 DEF IdsOK
<1>3. DoomedOK'
  <2> SUFFICES ASSUME NEW u \in Threads, call'[u].at = "delete", NEW i \in call'[u].ids
               PROVE  i \in 1 .. lastId' /\ \A r \in rows' : r.id = i => r.level # "permanent"
    BY DEF DoomedOK
  <2>1. call'[u] = call[u]
    BY <1>1
  <2>2. i \in 1 .. lastId /\ \A r \in rows : r.id = i => r.level # "permanent"
    BY <2>1 DEF IdInv, DoomedOK
  <2>3. \A r \in rows' \ rows : r.id # i
    BY <2>2 DEF Grows, IdInv, IdsOK
  <2> QED
    BY <2>2, <2>3 DEF Grows, IdInv, IdsOK
<1>4. LinesOK'
  BY <1>1 DEF IdInv, LinesOK
<1> QED
  BY <1>1, <1>2, <1>3, <1>4 DEF IdInv

LEMMA DeleteIds ==
    ASSUME IdInv, NEW t \in Threads, Delete(t)
    PROVE  IdInv'
<1>1. /\ DOMAIN call' = Threads /\ call'[t] = Idle
      /\ \A u \in Threads : u # t => call'[u] = call[u]
  BY Moved DEF IdInv, Delete
<1>2. rows' \subseteq rows /\ lastId' = lastId
  BY DEF Delete
<1> QED
  BY <1>1, <1>2 DEF IdInv, IdsOK, DoomedOK, LinesOK, Idle

(* Each call is of one of the three kinds.                                 *)
Writes(t) == /\ Grows
             /\ \E c : (call' = call \/ Goto(t, c)) /\ c.at \notin {"lines", "insert", "delete"}

LEMMA Kinds ==
    ASSUME IdInv, NEW t \in Threads, Call(t)
    PROVE  Elsewhere(t) \/ Writes(t) \/ Delete(t)
<1>1. CASE CheckFlag(t)
  <2>1. 1 \in 1 .. Len(Lines) + 1
    BY UserMemoryAssumption
  <2>2. CASE flag
    BY <1>1, <2>2 DEF CheckFlag, Elsewhere, table
  <2>3. CASE ~flag
    BY <1>1, <2>1, <2>3 DEF CheckFlag, Elsewhere, table
  <2> QED
    BY <2>2, <2>3
<1>2. CASE CheckLine(t)
  <2> DEFINE i == call[t].line
  <2>1. Len(Lines) \in Nat /\ i \in 1 .. Len(Lines) + 1
    BY <1>2, UserMemoryAssumption DEF CheckLine, IdInv, LinesOK
  <2>2. rows' = rows /\ lastId' = lastId
    BY <1>2 DEF CheckLine, table
  <2>3. CASE i > Len(Lines)
    BY <1>2, <2>2, <2>3 DEF CheckLine, Elsewhere
  <2>4. CASE i <= Len(Lines) /\ Lines[i] \in Stored
    <3>1. Goto(t, [at |-> "lines", line |-> i + 1])
      BY <1>2, <2>1, <2>4 DEF CheckLine
    <3>2. i + 1 \in 1 .. Len(Lines) + 1
      BY <2>1, <2>4
    <3> QED
      BY <2>2, <3>1, <3>2 DEF Elsewhere
  <2>5. CASE i <= Len(Lines) /\ Lines[i] \notin Stored
    <3>1. Goto(t, [at |-> "insert", line |-> i])
      BY <1>2, <2>1, <2>5 DEF CheckLine
    <3>2. i \in 1 .. Len(Lines)
      BY <2>1, <2>5
    <3> QED
      BY <2>2, <3>1, <3>2 DEF Elsewhere
  <2> QED
    BY <2>1, <2>3, <2>4, <2>5
<1>3. CASE Migrate(t)
  BY <1>3, MigrateGrows DEF IdInv, LinesOK, Writes, Migrate
<1>4. CASE Select(t)
  <2>1. rows' = rows /\ lastId' = lastId
    BY <1>4 DEF Select, table
  <2>2. PICK doomed \in SUBSET {r \in rows : r.level # "permanent"} :
          Goto(t, [at |-> "delete", ids |-> {r.id : r \in doomed}])
    BY <1>4 DEF Select
  <2> QED
    BY <2>1, <2>2 DEF Elsewhere
<1>5. CASE Delete(t)
  BY <1>5
<1>6. CASE Add(t)
  <2>1. Grows
    BY <1>6, InsertGrows DEF Add, IdInv
  <2>2. call' = call /\ Idle.at \notin {"lines", "insert", "delete"}
    BY <1>6 DEF Add, Idle
  <2> QED
    BY <2>1, <2>2 DEF Writes
<1>7. CASE Save(t)
  BY <1>7, InsertGrows DEF Save, IdInv, Writes, Idle
<1>8. CASE AddMemory(t)
  <2>1. CASE call[t].memories = {} /\ Goto(t, Idle) /\ UNCHANGED <<rows, lastId, bounds>>
    BY <2>1 DEF Elsewhere, Idle
  <2>2. ASSUME NEW c \in call[t].memories, Goto(t, [call[t] EXCEPT !.memories = @ \ {c}]),
               Insert(c, "auto", "review") \/ UNCHANGED <<rows, lastId>>
        PROVE  Elsewhere(t) \/ Writes(t)
    <3> DEFINE d == [call[t] EXCEPT !.memories = @ \ {c}]
    <3>1. d.at = "add"
      BY <1>8 DEF AddMemory
    <3> HIDE DEF d
    <3>2. CASE Insert(c, "auto", "review")
      BY <2>2, <3>1, <3>2, InsertGrows DEF IdInv, Writes, d
    <3>3. CASE UNCHANGED <<rows, lastId>>
      BY <2>2, <3>1, <3>3 DEF Elsewhere, d
    <3> QED
      BY <2>2, <3>2, <3>3
  <2> QED
    BY <1>8, <2>1, <2>2 DEF AddMemory
<1>9. CASE OpenProfile(t)
  <2>1. [call[t] EXCEPT !.at = "write"].at = "write"
    BY <1>9 DEF OpenProfile
  <2> QED
    BY <1>9, <2>1 DEF OpenProfile, Elsewhere, table
<1>10. CASE CheckProfile(t)
  <2>1. CASE exists
    BY <1>10, <2>1 DEF CheckProfile, Elsewhere, table, Idle
  <2>2. CASE ~exists
    BY <1>10, <2>2 DEF CheckProfile, Elsewhere, table
  <2> QED
    BY <2>1, <2>2
<1>11. CASE SetFlag(t)
  BY <1>11 DEF SetFlag, Elsewhere, table, Idle
<1>12. CASE MigrationRaises(t)
  BY <1>12 DEF MigrationRaises, Elsewhere, table, Idle
<1>13. CASE CreateProfile(t)
  BY <1>13 DEF CreateProfile, Elsewhere, table, Idle
<1>14. CASE ReadProfile(t)
  <2>1. rows' = rows /\ lastId' = lastId
    BY <1>14 DEF ReadProfile, table
  <2>2. PICK r \in Reviews :
          Goto(t, IF r.facts \subseteq user THEN [at |-> "list", memories |-> r.memories]
                  ELSE [at |-> "open", facts |-> user \cup r.facts, memories |-> r.memories])
    BY <1>14 DEF ReadProfile
  <2>3. CASE r.facts \subseteq user
    BY <2>1, <2>2, <2>3 DEF Elsewhere
  <2>4. CASE ~(r.facts \subseteq user)
    BY <2>1, <2>2, <2>4 DEF Elsewhere
  <2> QED
    BY <2>3, <2>4
<1>15. CASE ReadProfileFails(t)
  BY <1>15 DEF ReadProfileFails, Elsewhere, table, Idle
<1>16. CASE WriteProfile(t)
  BY <1>16 DEF WriteProfile, Elsewhere, table, Idle
<1>17. CASE WriteProfileFails(t)
  BY <1>17 DEF WriteProfileFails, Elsewhere, table, Idle
<1>18. CASE ListMemories(t)
  BY <1>18 DEF ListMemories, Elsewhere, table, Idle
<1>19. CASE Propose(t)
  BY <1>19 DEF Propose, Elsewhere, table, Idle
<1>20. CASE Ask(t)
  BY <1>20 DEF Ask, Elsewhere, table, Idle
<1>21. CASE Answer(t)
  BY <1>21 DEF Answer, Elsewhere, table, Idle
<1>22. CASE Clear(t)
  <2>1. CASE call[t].yes
    BY <1>22, <2>1 DEF Clear, Elsewhere, table
  <2>2. CASE ~call[t].yes
    BY <1>22, <2>2 DEF Clear, Elsewhere, table, Idle
  <2> QED
    BY <2>1, <2>2
<1>23. CASE SaveFails(t)
  BY <1>23 DEF SaveFails, Elsewhere, table, Idle
<1> QED
  BY <1>1, <1>2, <1>3, <1>4, <1>5, <1>6, <1>7, <1>8, <1>9, <1>10, <1>11, <1>12, <1>13, <1>14, <1>15, <1>16, <1>17, <1>18, <1>19, <1>20, <1>21, <1>22, <1>23 DEF Call

LEMMA CrashIds ==
    ASSUME IdInv, NEW p \in Procs, Crash(p)
    PROVE  IdInv'
<1>1. /\ DOMAIN call' = Threads /\ rows' = rows /\ lastId' = lastId
      /\ \A u \in Threads : call'[u] = call[u] \/ call'[u] = Idle
  BY DEF Crash, table
<1> QED
  BY <1>1 DEF IdInv, IdsOK, DoomedOK, LinesOK, Idle

LEMMA NextIds == IdInv /\ [Next]_vars => IdInv'
<1> SUFFICES ASSUME IdInv, [Next]_vars PROVE IdInv'
  OBVIOUS
<1>1. CASE UNCHANGED vars
  BY <1>1 DEF vars, table, IdInv, IdsOK, DoomedOK, LinesOK
<1>2. ASSUME NEW t \in Threads, Call(t) PROVE IdInv'
  BY <1>2, Kinds, ElsewhereIds, GrowsIds, DeleteIds DEF Writes
<1>3. ASSUME NEW p \in Procs, Crash(p) PROVE IdInv'
  BY <1>3, CrashIds
<1> QED
  BY <1>1, <1>2, <1>3 DEF Next, Quiet

(* An id names one row and is not given again, and what a thread is about  *)
(* to delete by id is not permanent (builtin_provider.py, delete_entry     *)
(* and prune_weak read the level before their DELETE).                     *)
THEOREM IdsHold == Spec => []IdInv
<1> QED
  BY InitIds, NextIds, PTL DEF Spec

(* A permanent memory is never deleted.                                    *)
THEOREM PermanentsStay == Spec => PermanentStays
<1>1. ASSUME IdInv, [Next]_vars, NEW r \in rows, r.level = "permanent" PROVE r \in rows'
  <2>1. CASE UNCHANGED vars
    BY <2>1 DEF vars, table
  <2>2. ASSUME NEW t \in Threads, Call(t) PROVE r \in rows'
    <3>1. CASE Elsewhere(t)
      BY <3>1 DEF Elsewhere
    <3>2. CASE Writes(t)
      BY <3>2 DEF Writes, Grows
    <3>3. CASE Delete(t)
      BY <1>1, <3>3 DEF Delete, IdInv, DoomedOK
    <3> QED
      BY <1>1, <2>2, <3>1, <3>2, <3>3, Kinds
  <2>3. ASSUME NEW p \in Procs, Crash(p) PROVE r \in rows'
    BY <2>3 DEF Crash, table
  <2> QED
    BY <1>1, <2>1, <2>2, <2>3 DEF Next, Quiet
<1>2. IdInv /\ [Next]_vars => [\A r \in rows : r.level = "permanent" => r \in rows']_vars
  BY <1>1
<1> QED
  BY <1>2, IdsHold, PTL DEF Spec, PermanentStays

--------------------------------------------------------------------------------
(* Facts stay in USER.md.  While two never rewrite the file at once, what  *)
(* a thread read is what the file says until it opens it, and nothing that *)
(* was in the file is missing from what it will write.                     *)

Undisturbed == events \cap {"rewrites", "unread", "cut"} = {}

OneRewrites == \A t, u \in Threads : Rewriting(t) /\ Rewriting(u) => t = u

ProfileOK ==
    /\ OneRewrites /\ user \subseteq kept
    /\ ~exists => kept = {}
    /\ \A t \in Threads : /\ call[t].at = "create" => ~exists
                          /\ call[t].at = "open" => user \subseteq call[t].facts
                          /\ call[t].at = "write" => exists /\ kept \subseteq call[t].facts
    /\ (\A t \in Threads : call[t].at # "write") => kept \subseteq user

FactInv == DOMAIN call = Threads /\ (Undisturbed => ProfileOK)

LEMMA InitFacts == Init => FactInv
BY DEF Init, FactInv, Undisturbed, ProfileOK, OneRewrites, Rewriting, Idle

LEMMA WhatObserved ==
    ASSUME Observe, Undisturbed'
    PROVE  /\ Undisturbed /\ OneRewrites' /\ kept' = kept \cup user'
           /\ \A t \in Threads :
                 /\ ~(call[t] = Idle /\ call'[t].at = "open" /\ faults' = faults + 1)
                 /\ call[t].at = "write" /\ call'[t].at # "write" => user' = call[t].facts
<1>1. /\ kept' = kept \cup user'
      /\ events \subseteq events'
      /\ Two(Rewriting)' => "rewrites" \in events'
      /\ (\E t \in Threads : call[t] = Idle /\ call'[t].at = "open" /\ faults' = faults + 1) => "unread" \in events'
      /\ (\E t \in Threads : call[t].at = "write" /\ call'[t].at # "write" /\ user' # call[t].facts) => "cut" \in events'
  BY DEF Observe
<1>2. Undisturbed /\ ~Two(Rewriting)'
  BY <1>1 DEF Undisturbed
<1>3. OneRewrites'
  BY <1>2 DEF Two, OneRewrites, Rewriting
<1> QED
  BY <1>1, <1>2, <1>3 DEF Undisturbed

(* A call that leaves the file alone and does not begin to rewrite it.     *)
OffProfile(t) ==
    /\ exists' = exists /\ user' = user /\ ~Rewriting(t)
    /\ call' = call \/ \E c : Goto(t, c) /\ c.at \notin {"open", "write", "create"}

LEMMA OffProfileFacts ==
    ASSUME FactInv, Undisturbed, NEW t \in Threads, OffProfile(t), kept' = kept \cup user', OneRewrites'
    PROVE  ProfileOK'
<1>1. ProfileOK
  BY DEF FactInv
<1>2. CASE call' = call
  BY <1>1, <1>2 DEF OffProfile, ProfileOK, Rewriting
<1>3. ASSUME NEW c, Goto(t, c), c.at \notin {"open", "write", "create"} PROVE ProfileOK'
  <2>1. call'[t] = c /\ \A u \in Threads : u # t => call'[u] = call[u]
    BY <1>3, Moved DEF FactInv
  <2> QED
    BY <1>1, <1>3, <2>1 DEF OffProfile, ProfileOK, Rewriting
<1> QED
  BY <1>2, <1>3 DEF OffProfile

(* The calls that do not touch the file.                                   *)
LEMMA OffProfileKinds ==
    ASSUME DOMAIN call = Threads, NEW t \in Threads, Call(t)
    PROVE  \/ OffProfile(t)
           \/ CheckProfile(t) \/ CreateProfile(t) \/ ReadProfile(t) \/ ReadProfileFails(t)
           \/ OpenProfile(t) \/ WriteProfile(t) \/ WriteProfileFails(t)
<1>1. CASE CheckFlag(t)
  <2>1. CASE flag
    BY <1>1, <2>1 DEF CheckFlag, OffProfile, files, Rewriting, Idle, Enter
  <2>2. CASE ~(flag)
    BY <1>1, <2>2 DEF CheckFlag, OffProfile, files, Rewriting, Idle, Enter
  <2> QED
    BY <2>1, <2>2
<1>2. CASE CheckLine(t)
  <2>1. exists' = exists /\ user' = user /\ ~Rewriting(t)
    BY <1>2 DEF CheckLine, files, Rewriting
  <2>2. \E c : Goto(t, c) /\ c.at \in {"flag", "lines", "insert"}
    <3> DEFINE i == call[t].line
    <3>1. CASE i > Len(Lines)
      BY <1>2, <3>1 DEF CheckLine
    <3>2. CASE ~(i > Len(Lines)) /\ Lines[i] \in Stored
      BY <1>2, <3>2 DEF CheckLine
    <3>3. CASE ~(i > Len(Lines)) /\ Lines[i] \notin Stored
      BY <1>2, <3>3 DEF CheckLine
    <3> QED
      BY <3>1, <3>2, <3>3
  <2> QED
    BY <2>1, <2>2 DEF OffProfile
<1>3. CASE Migrate(t)
  BY <1>3 DEF Migrate, OffProfile, files, Rewriting, Idle
<1>4. CASE SetFlag(t)
  BY <1>4 DEF SetFlag, OffProfile, files, Rewriting, Idle
<1>5. CASE MigrationRaises(t)
  BY <1>5 DEF MigrationRaises, OffProfile, files, Rewriting, Idle
<1>6. CASE ListMemories(t)
  BY <1>6 DEF ListMemories, OffProfile, files, Rewriting, Idle
<1>7. CASE AddMemory(t)
  <2>1. exists' = exists /\ user' = user /\ call[t].at = "add" /\ ~Rewriting(t)
    BY <1>7 DEF AddMemory, files, Rewriting
  <2>2. CASE Goto(t, Idle)
    BY <2>1, <2>2 DEF OffProfile, Idle
  <2>3. ASSUME NEW c \in call[t].memories, Goto(t, [call[t] EXCEPT !.memories = @ \ {c}])
        PROVE  OffProfile(t)
    <3>1. [call[t] EXCEPT !.memories = @ \ {c}].at = "add"
      BY <2>1
    <3> QED
      BY <2>1, <2>3, <3>1 DEF OffProfile
  <2> QED
    BY <1>7, <2>2, <2>3 DEF AddMemory
<1>8. CASE Add(t)
  BY <1>8 DEF Add, OffProfile, files, Rewriting, Idle, Enter
<1>9. CASE Select(t)
  BY <1>9 DEF Select, OffProfile, files, Rewriting, Idle, Enter
<1>10. CASE Delete(t)
  BY <1>10 DEF Delete, OffProfile, files, Rewriting, Idle
<1>11. CASE Propose(t)
  BY <1>11 DEF Propose, OffProfile, files, Rewriting, Idle, Enter
<1>12. CASE Ask(t)
  BY <1>12 DEF Ask, OffProfile, files, Rewriting, Idle
<1>13. CASE Answer(t)
  BY <1>13 DEF Answer, OffProfile, files, Rewriting, Idle, Enter
<1>14. CASE Clear(t)
  <2>1. CASE call[t].yes
    BY <1>14, <2>1 DEF Clear, OffProfile, files, Rewriting, Idle
  <2>2. CASE ~(call[t].yes)
    BY <1>14, <2>2 DEF Clear, OffProfile, files, Rewriting, Idle
  <2> QED
    BY <2>1, <2>2
<1>15. CASE Save(t)
  BY <1>15 DEF Save, OffProfile, files, Rewriting, Idle
<1>16. CASE SaveFails(t)
  BY <1>16 DEF SaveFails, OffProfile, files, Rewriting, Idle
<1> QED
  BY <1>1, <1>2, <1>3, <1>4, <1>5, <1>6, <1>7, <1>8, <1>9, <1>10, <1>11, <1>12, <1>13, <1>14, <1>15, <1>16 DEF Call

LEMMA NextFacts == FactInv /\ [Next]_vars => FactInv'
<1> SUFFICES ASSUME FactInv, [Next]_vars PROVE FactInv'
  OBVIOUS
<1>1. CASE UNCHANGED vars
  BY <1>1 DEF vars, files, FactInv, Undisturbed, ProfileOK, OneRewrites, Rewriting
<1>2. ASSUME NEW t \in Threads, Call(t), Observe PROVE FactInv'
  <2>1. DOMAIN call' = Threads
    BY <1>2 DEF FactInv, Call, CheckFlag, CheckLine, Migrate, SetFlag, MigrationRaises, CheckProfile,
        CreateProfile, ReadProfile, ReadProfileFails, OpenProfile, WriteProfile, WriteProfileFails,
        ListMemories, AddMemory, Add, Select, Delete, Propose, Ask, Answer, Clear, Save, SaveFails, Goto
  <2> SUFFICES ASSUME Undisturbed' PROVE ProfileOK'
    BY <2>1 DEF FactInv
  <2>2. /\ Undisturbed /\ OneRewrites' /\ kept' = kept \cup user'
        /\ ~(call[t] = Idle /\ call'[t].at = "open" /\ faults' = faults + 1)
        /\ call[t].at = "write" /\ call'[t].at # "write" => user' = call[t].facts
    BY <1>2, WhatObserved
  <2>3. ProfileOK
    BY <2>2 DEF FactInv
  <2>4. DOMAIN call = Threads
    BY DEF FactInv
  <2>5. ASSUME Rewriting(t) PROVE \A u \in Threads : u # t => ~Rewriting(u)
    BY <2>3, <2>5 DEF ProfileOK, OneRewrites
  <2>6. CASE OffProfile(t)
    BY <2>2, <2>6, OffProfileFacts
  <2>7. CASE CheckProfile(t)
    <3>1. exists' = exists /\ user' = user /\ call[t].at = "profile"
      BY <2>7 DEF CheckProfile, files
    <3>2. PICK c : Goto(t, c) /\ c = (IF ~exists THEN [at |-> "create"] ELSE Idle)
      BY <2>7 DEF CheckProfile
    <3>3. call'[t] = c /\ \A u \in Threads : u # t => call'[u] = call[u]
      BY <2>4, <3>2, Moved
    <3>4. (c.at = "create" /\ ~exists) \/ c.at = "idle"
      BY <3>2 DEF Idle
    <3> QED
      BY <2>2, <2>3, <3>1, <3>3, <3>4 DEF ProfileOK
  <2>8. CASE CreateProfile(t)
    <3>1. exists' = TRUE /\ user' = {} /\ call[t].at = "create" /\ Goto(t, Idle)
      BY <2>8 DEF CreateProfile
    <3>2. call'[t] = Idle /\ \A u \in Threads : u # t => call'[u] = call[u]
      BY <2>4, <3>1, Moved
    <3>3. kept = {} /\ kept' = {}
      BY <2>2, <2>3, <3>1 DEF ProfileOK
    <3> QED
      BY <2>2, <2>5, <3>1, <3>2, <3>3 DEF ProfileOK, Rewriting, Idle
  <2>9. CASE ReadProfile(t)
    <3>1. exists' = exists /\ user' = user /\ call[t] = Idle
      BY <2>9 DEF ReadProfile, Enter, files
    <3>2. PICK r \in Reviews :
            Goto(t, IF r.facts \subseteq user THEN [at |-> "list", memories |-> r.memories]
                    ELSE [at |-> "open", facts |-> user \cup r.facts, memories |-> r.memories])
      BY <2>9 DEF ReadProfile
    <3>3. \A u \in Threads : u # t => call'[u] = call[u]
      BY <2>4, <3>2, Moved
    <3>4. call'[t].at = "list" \/ (call'[t].at = "open" /\ call'[t].facts = user \cup r.facts)
      <4>1. call'[t] = IF r.facts \subseteq user THEN [at |-> "list", memories |-> r.memories]
                       ELSE [at |-> "open", facts |-> user \cup r.facts, memories |-> r.memories]
        BY <2>4, <3>2, Moved
      <4>2. CASE r.facts \subseteq user
        BY <4>1, <4>2
      <4>3. CASE ~(r.facts \subseteq user)
        BY <4>1, <4>3
      <4> QED
        BY <4>2, <4>3
    <3> QED
      BY <2>2, <2>3, <3>1, <3>3, <3>4 DEF ProfileOK, Idle
  <2>10. CASE ReadProfileFails(t)
    <3>1. PICK r \in Reviews : Goto(t, [at |-> "open", facts |-> r.facts, memories |-> r.memories])
      BY <2>10 DEF ReadProfileFails
    <3>2. call'[t].at = "open"
      BY <2>4, <3>1, Moved
    <3> QED
      BY <2>2, <2>10, <3>2 DEF ReadProfileFails
  <2>11. CASE OpenProfile(t)
    <3> DEFINE d == [call[t] EXCEPT !.at = "write"]
    <3>1. exists' = TRUE /\ user' = {} /\ call[t].at = "open" /\ Goto(t, d)
      BY <2>11 DEF OpenProfile
    <3>2. d.at = "write" /\ d.facts = call[t].facts
      BY <3>1
    <3> HIDE DEF d
    <3>3. call'[t] = d /\ \A u \in Threads : u # t => call'[u] = call[u]
      BY <2>4, <3>1, Moved
    <3>4. \A u \in Threads : call[u].at # "write"
      BY <2>5, <3>1 DEF Rewriting
    <3>5. kept' = kept /\ kept \subseteq call[t].facts
      BY <2>2, <2>3, <3>1, <3>4 DEF ProfileOK
    <3>6. \A u \in Threads : u # t => call'[u].at \notin {"open", "write", "create"}
      BY <2>5, <3>1, <3>3 DEF Rewriting
    <3>7. call'[t].at = "write" /\ call'[t].facts = call[t].facts
      BY <3>2, <3>3
    <3>8. \A u \in Threads :
             /\ call'[u].at = "create" => ~exists'
             /\ call'[u].at = "open" => user' \subseteq call'[u].facts
             /\ call'[u].at = "write" => exists' /\ kept' \subseteq call'[u].facts
      BY <3>1, <3>5, <3>6, <3>7
    <3>9. OneRewrites' /\ user' \subseteq kept' /\ exists'
      BY <2>2, <3>1
    <3>10. ~(\A u \in Threads : call'[u].at # "write")
      BY <3>7
    <3> QED
      BY <3>8, <3>9, <3>10 DEF ProfileOK
  <2>12. CASE WriteProfile(t)
    <3>1. user' = call[t].facts /\ exists' = exists /\ call[t].at = "write"
          /\ Goto(t, [at |-> "list", memories |-> call[t].memories])
      BY <2>12 DEF WriteProfile
    <3>2. call'[t].at = "list" /\ \A u \in Threads : u # t => call'[u] = call[u]
      BY <2>4, <3>1, Moved
    <3>3. kept' = user' /\ exists'
      BY <2>2, <2>3, <3>1 DEF ProfileOK
    <3> QED
      BY <2>2, <2>5, <3>1, <3>2, <3>3 DEF ProfileOK, Rewriting
  <2>13. CASE WriteProfileFails(t)
    <3>1. user' = user /\ exists' = exists /\ Rewriting(t) /\ Goto(t, Idle)
      BY <2>13 DEF WriteProfileFails, files, Rewriting
    <3>2. call'[t] = Idle /\ \A u \in Threads : u # t => call'[u] = call[u]
      BY <2>4, <3>1, Moved
    <3>3. CASE call[t].at = "write"
      <4>1. user' = call[t].facts
        BY <2>2, <3>2, <3>3 DEF Idle
      <4> QED
        BY <2>2, <2>3, <2>5, <3>1, <3>2, <3>3, <4>1 DEF ProfileOK, Rewriting, Idle
    <3>4. CASE call[t].at # "write"
      <4>1. kept' = kept /\ \A u \in Threads : call[u].at # "write"
        BY <2>2, <2>3, <2>5, <3>1, <3>4 DEF ProfileOK, Rewriting
      <4> QED
        BY <2>2, <2>3, <3>1, <3>2, <4>1 DEF ProfileOK, Idle
    <3> QED
      BY <3>3, <3>4
  <2> QED
    BY <1>2, <2>4, <2>6, <2>7, <2>8, <2>9, <2>10, <2>11, <2>12, <2>13, OffProfileKinds
<1>3. ASSUME NEW p \in Procs, Crash(p), Observe PROVE FactInv'
  <2>1. DOMAIN call' = Threads /\ exists' = exists /\ user' = user
        /\ \A u \in Threads : call'[u] = call[u] \/ call'[u] = Idle
    BY <1>3 DEF Crash, files
  <2> SUFFICES ASSUME Undisturbed' PROVE ProfileOK'
    BY <2>1 DEF FactInv
  <2>2. /\ Undisturbed /\ OneRewrites' /\ kept' = kept \cup user'
        /\ \A u \in Threads : call[u].at = "write" /\ call'[u].at # "write" => user' = call[u].facts
    BY <1>3, WhatObserved
  <2>3. ProfileOK
    BY <2>2 DEF FactInv
  <2>4. kept' = kept
    BY <2>1, <2>2, <2>3 DEF ProfileOK
  <2>5. (\A u \in Threads : call'[u].at # "write") => kept \subseteq user
    BY <2>1, <2>2, <2>3 DEF ProfileOK
  <2> QED
    BY <2>1, <2>2, <2>3, <2>4, <2>5 DEF ProfileOK, Idle
<1> QED
  BY <1>1, <1>2, <1>3 DEF Next, Quiet

(* Nothing that was in USER.md is lost but by two writers at once, a file  *)
(* that cannot be read, or a write cut short.                              *)
THEOREM FactsAreKept == Spec => []FactsKept
<1>1. FactInv => FactsKept
  <2> SUFFICES ASSUME FactInv, Undisturbed
               PROVE  kept \subseteq user \cup UNION {call[t].facts : t \in {u \in Threads : call[u].at = "write"}}
    BY DEF FactsKept, Undisturbed
  <2>1. ProfileOK
    BY DEF FactInv
  <2>2. CASE \A t \in Threads : call[t].at # "write"
    BY <2>1, <2>2 DEF ProfileOK
  <2>3. ASSUME NEW t \in Threads, call[t].at = "write"
        PROVE  kept \subseteq UNION {call[v].facts : v \in {u \in Threads : call[u].at = "write"}}
    BY <2>1, <2>3 DEF ProfileOK
  <2> QED
    BY <2>2, <2>3
<1> QED
  BY <1>1, InitFacts, NextFacts, PTL DEF Spec

--------------------------------------------------------------------------------
(* The slot serves one thread of its process at a time, or the event says  *)
(* so: what this thread asked last is what waits.                          *)

SlotInv ==
    /\ DOMAIN call = Threads /\ DOMAIN asked = Threads /\ DOMAIN pending = Procs
    /\ home \in [Threads -> Procs]
    /\ "shared" \notin events =>
          /\ ~Shared
          /\ \A t \in Threads : asked[t] # None => pending[home[t]] = asked[t]

LEMMA InitSlot == Init => SlotInv
BY DEF Init, SlotInv, Shared, Asking, Idle

OffSlot(t) ==
    /\ home' = home /\ pending' = pending /\ asked' = asked /\ DOMAIN call' = Threads

LEMMA OffSlotKinds ==
    ASSUME DOMAIN call = Threads, NEW t \in Threads, Call(t)
    PROVE  OffSlot(t) \/ Propose(t) \/ Ask(t) \/ Clear(t)
<1>1. CASE CheckFlag(t)
  BY <1>1 DEF CheckFlag, OffSlot, Goto
<1>2. CASE CheckLine(t)
  BY <1>2 DEF CheckLine, OffSlot, Goto
<1>3. CASE Migrate(t)
  BY <1>3 DEF Migrate, OffSlot, Goto
<1>4. CASE SetFlag(t)
  BY <1>4 DEF SetFlag, OffSlot, Goto
<1>5. CASE MigrationRaises(t)
  BY <1>5 DEF MigrationRaises, OffSlot, Goto
<1>6. CASE CheckProfile(t)
  BY <1>6 DEF CheckProfile, OffSlot, Goto
<1>7. CASE CreateProfile(t)
  BY <1>7 DEF CreateProfile, OffSlot, Goto
<1>8. CASE ReadProfile(t)
  BY <1>8 DEF ReadProfile, OffSlot, Goto
<1>9. CASE ReadProfileFails(t)
  BY <1>9 DEF ReadProfileFails, OffSlot, Goto
<1>10. CASE OpenProfile(t)
  BY <1>10 DEF OpenProfile, OffSlot, Goto
<1>11. CASE WriteProfile(t)
  BY <1>11 DEF WriteProfile, OffSlot, Goto
<1>12. CASE WriteProfileFails(t)
  BY <1>12 DEF WriteProfileFails, OffSlot, Goto
<1>13. CASE ListMemories(t)
  BY <1>13 DEF ListMemories, OffSlot, Goto
<1>14. CASE AddMemory(t)
  BY <1>14 DEF AddMemory, OffSlot, Goto
<1>15. CASE Add(t)
  BY <1>15 DEF Add, OffSlot, Goto
<1>16. CASE Select(t)
  BY <1>16 DEF Select, OffSlot, Goto
<1>17. CASE Delete(t)
  BY <1>17 DEF Delete, OffSlot, Goto
<1>18. CASE Save(t)
  BY <1>18 DEF Save, OffSlot, Goto
<1>19. CASE SaveFails(t)
  BY <1>19 DEF SaveFails, OffSlot, Goto
<1>20. CASE Answer(t)
  BY <1>20 DEF Answer, OffSlot, Goto
<1> QED
  BY <1>1, <1>2, <1>3, <1>4, <1>5, <1>6, <1>7, <1>8, <1>9, <1>10, <1>11, <1>12, <1>13, <1>14, <1>15, <1>16, <1>17, <1>18, <1>19, <1>20 DEF Call

LEMMA NextSlot == SlotInv /\ [Next]_vars => SlotInv'
<1> SUFFICES ASSUME SlotInv, [Next]_vars PROVE SlotInv'
  OBVIOUS
<1> USE DEF SlotInv
<1>1. CASE UNCHANGED vars
  BY <1>1 DEF vars, Shared, Asking
<1>2. ASSUME Observe PROVE events \subseteq events' /\ (Shared' => "shared" \in events')
  BY <1>2 DEF Observe
<1>3. ASSUME NEW t \in Threads, Call(t), Observe PROVE SlotInv'
  <2>1. CASE OffSlot(t)
    BY <1>2, <1>3, <2>1 DEF OffSlot
  <2>2. ASSUME home' = home,
               NEW q, pending' = [pending EXCEPT ![home[t]] = q],
               NEW a, asked' = [asked EXCEPT ![t] = a], a # None => a = q,
               NEW c, Goto(t, c),
               Asking(t) \/ Asking(t)'
        PROVE  SlotInv'
    <3>1. /\ DOMAIN asked' = Threads /\ DOMAIN pending' = Procs /\ DOMAIN call' = Threads
          /\ home' \in [Threads -> Procs]
      BY <2>2 DEF Goto
    <3> SUFFICES ASSUME "shared" \notin events', NEW u \in Threads, asked'[u] # None
                 PROVE  pending'[home[u]] = asked'[u]
      BY <1>2, <1>3, <2>2, <3>1
    <3>2. "shared" \notin events /\ ~Shared /\ ~Shared'
      BY <1>2, <1>3
    <3>3. asked'[t] = a /\ pending'[home[t]] = q
      BY <2>2
    <3>4. CASE u = t
      BY <2>2, <3>3, <3>4
    <3>5. CASE u # t
      <4>1. asked'[u] = asked[u] /\ asked[u] # None /\ pending[home[u]] = asked[u]
        BY <2>2, <3>2, <3>5
      <4>2. home[u] # home[t]
        <5>1. Asking(u) /\ Asking(u)'
          BY <4>1 DEF Asking
        <5> QED
          BY <2>2, <3>2, <3>5, <5>1 DEF Shared
      <4>3. pending'[home[u]] = pending[home[u]]
        BY <2>2, <4>2
      <4> QED
        BY <4>1, <4>3
    <3> QED
      BY <3>4, <3>5
  <2>3. CASE Propose(t)
    <3>1. PICK c : Goto(t, [at |-> "propose", content |-> c])
      BY <2>3 DEF Propose
    <3>2. Asking(t)'
      BY <3>1, Moved DEF Asking
    <3> QED
      BY <2>2, <2>3, <3>1, <3>2 DEF Propose
  <2>4. CASE Ask(t)
    BY <2>2, <2>4 DEF Ask, Asking
  <2>5. CASE Clear(t)
    <3>1. PICK c : Goto(t, c)
      BY <2>5 DEF Clear
    <3>2. Asking(t)
      BY <2>5 DEF Clear, Asking
    <3> QED
      BY <2>2, <2>5, <3>1, <3>2 DEF Clear
  <2> QED
    BY <1>3, <2>1, <2>3, <2>4, <2>5, OffSlotKinds
<1>4. ASSUME NEW p \in Procs, Crash(p), Observe PROVE SlotInv'
  <2>1. /\ home' = home /\ DOMAIN call' = Threads
        /\ pending' = [pending EXCEPT ![p] = None]
        /\ asked' = [t \in Threads |-> IF home[t] = p THEN None ELSE asked[t]]
    BY <1>4 DEF Crash
  <2> QED
    BY <1>2, <1>4, <2>1
<1> QED
  BY <1>1, <1>3, <1>4 DEF Next, Quiet

(* The proposal a user was asked about is the one that waits, while the    *)
(* slot of the process serves one thread.                                  *)
THEOREM QuestionsWait == Spec => []QuestionWaits
<1>1. SlotInv => QuestionWaits
  BY DEF SlotInv, QuestionWaits
<1> QED
  BY <1>1, InitSlot, NextSlot, PTL DEF Spec

--------------------------------------------------------------------------------
(* The migration is done once.  While migrations do not overlap and the    *)
(* one that commits leaves its flag, a thread that is still checking lines *)
(* is the first to migrate any.                                            *)

Steady == events \cap {"migrations", "unflagged"} = {}

OneMigrates == \A t, u \in Threads : Migrating(t) /\ Migrating(u) => t = u

MigrationOK ==
    /\ OneMigrates
    /\ \A t \in Threads : call[t].at \in {"lines", "insert"} => moved = {}
    /\ moved # {} => flag \/ \E t \in Threads : call[t].at = "flag"

RowsMoved == \A r \in rows : r.by = "migration" => r.content \in moved

MoveInv == DOMAIN call = Threads /\ RowsMoved /\ (Steady => MigrationOK)

LEMMA InitMove == Init => MoveInv
BY DEF Init, MoveInv, RowsMoved, Steady, MigrationOK, OneMigrates, Migrating, Idle

LEMMA MigrationObserved ==
    ASSUME Observe
    PROVE  /\ moved' = moved \cup {r.content : r \in {q \in rows' : q.by = "migration"}}
           /\ RowsMoved'
           /\ Steady' => /\ Steady /\ OneMigrates'
                         /\ \A t \in Threads : call[t].at = "flag" /\ call'[t].at # "flag" => flag'
<1>1. /\ moved' = moved \cup {r.content : r \in {q \in rows' : q.by = "migration"}}
      /\ events \subseteq events'
      /\ Two(Migrating)' => "migrations" \in events'
      /\ (\E t \in Threads : call[t].at = "flag" /\ call'[t].at # "flag" /\ ~flag') => "unflagged" \in events'
  BY DEF Observe
<1>2. RowsMoved'
  BY <1>1 DEF RowsMoved
<1>3. ASSUME Steady' PROVE Steady /\ ~Two(Migrating)'
  BY <1>1, <1>3 DEF Steady
<1>4. ASSUME Steady' PROVE OneMigrates'
  BY <1>3, <1>4 DEF Two, OneMigrates, Migrating
<1> QED
  BY <1>1, <1>2, <1>3, <1>4 DEF Steady

NoneMigrated == \A r \in rows' \ rows : r.by # "migration"

LEMMA NothingMoves ==
    ASSUME MoveInv, Observe, NoneMigrated
    PROVE  moved' = moved
<1>1. moved' = moved \cup {r.content : r \in {q \in rows' : q.by = "migration"}}
  BY MigrationObserved
<1>2. \A q \in rows' : q.by = "migration" => q.content \in moved
  BY DEF NoneMigrated, MoveInv, RowsMoved
<1> QED
  BY <1>1, <1>2

(* A call that is no migration.                                            *)
OffMigration(t) ==
    /\ flag' = flag /\ NoneMigrated /\ ~Migrating(t)
    /\ call' = call \/ \E c : Goto(t, c) /\ c.at \notin {"lines", "insert", "flag"}

LEMMA OffMigrationKinds ==
    ASSUME DOMAIN call = Threads, NEW t \in Threads, Call(t)
    PROVE  \/ OffMigration(t)
           \/ CheckFlag(t) \/ CheckLine(t) \/ Migrate(t) \/ SetFlag(t) \/ MigrationRaises(t)
<1>1. CASE CheckProfile(t)
  <2>1. CASE exists
    BY <1>1, <2>1 DEF CheckProfile, OffMigration, NoneMigrated, table, files, Migrating, Idle
  <2>2. CASE ~(exists)
    BY <1>1, <2>2 DEF CheckProfile, OffMigration, NoneMigrated, table, files, Migrating, Idle
  <2> QED
    BY <2>1, <2>2
<1>2. CASE CreateProfile(t)
  BY <1>2 DEF CreateProfile, OffMigration, NoneMigrated, table, files, Migrating, Idle
<1>3. CASE ReadProfile(t)
  <2>1. flag' = flag /\ NoneMigrated /\ ~Migrating(t)
    BY <1>3 DEF ReadProfile, Enter, NoneMigrated, table, files, Migrating, Idle
  <2>2. PICK r \in Reviews :
          Goto(t, IF r.facts \subseteq user THEN [at |-> "list", memories |-> r.memories]
                  ELSE [at |-> "open", facts |-> user \cup r.facts, memories |-> r.memories])
    BY <1>3 DEF ReadProfile
  <2>3. CASE r.facts \subseteq user
    BY <2>1, <2>2, <2>3 DEF OffMigration
  <2>4. CASE ~(r.facts \subseteq user)
    BY <2>1, <2>2, <2>4 DEF OffMigration
  <2> QED
    BY <2>3, <2>4
<1>4. CASE ReadProfileFails(t)
  BY <1>4 DEF ReadProfileFails, OffMigration, NoneMigrated, table, files, Migrating, Idle
<1>5. CASE OpenProfile(t)
  <2>1. [call[t] EXCEPT !.at = "write"].at = "write"
    BY <1>5 DEF OpenProfile
  <2> QED
    BY <1>5, <2>1 DEF OpenProfile, OffMigration, NoneMigrated, table, Migrating
<1>6. CASE WriteProfile(t)
  BY <1>6 DEF WriteProfile, OffMigration, NoneMigrated, table, files, Migrating, Idle
<1>7. CASE WriteProfileFails(t)
  BY <1>7 DEF WriteProfileFails, OffMigration, NoneMigrated, table, files, Migrating, Idle
<1>8. CASE ListMemories(t)
  BY <1>8 DEF ListMemories, OffMigration, NoneMigrated, table, files, Migrating, Idle
<1>9. CASE AddMemory(t)
  <2>1. flag' = flag /\ call[t].at = "add" /\ ~Migrating(t)
    BY <1>9 DEF AddMemory, files, Migrating
  <2>2. NoneMigrated
    <3>1. rows' = rows \/ \E c : Insert(c, "auto", "review")
      BY <1>9 DEF AddMemory
    <3> QED
      BY <3>1 DEF NoneMigrated, Insert
  <2>3. CASE Goto(t, Idle)
    BY <2>1, <2>2, <2>3 DEF OffMigration, Idle
  <2>4. ASSUME NEW c \in call[t].memories, Goto(t, [call[t] EXCEPT !.memories = @ \ {c}])
        PROVE  OffMigration(t)
    <3>1. [call[t] EXCEPT !.memories = @ \ {c}].at = "add"
      BY <2>1
    <3> QED
      BY <2>1, <2>2, <2>4, <3>1 DEF OffMigration
  <2> QED
    BY <1>9, <2>3, <2>4 DEF AddMemory
<1>10. CASE Add(t)
  BY <1>10 DEF Add, OffMigration, NoneMigrated, table, files, Migrating, Idle, Enter, Insert
<1>11. CASE Select(t)
  BY <1>11 DEF Select, OffMigration, NoneMigrated, table, files, Migrating, Idle, Enter
<1>12. CASE Delete(t)
  BY <1>12 DEF Delete, OffMigration, NoneMigrated, table, files, Migrating, Idle
<1>13. CASE Propose(t)
  BY <1>13 DEF Propose, OffMigration, NoneMigrated, table, files, Migrating, Idle, Enter
<1>14. CASE Ask(t)
  BY <1>14 DEF Ask, OffMigration, NoneMigrated, table, files, Migrating, Idle
<1>15. CASE Answer(t)
  BY <1>15 DEF Answer, OffMigration, NoneMigrated, table, files, Migrating, Idle, Enter
<1>16. CASE Clear(t)
  <2>1. CASE call[t].yes
    BY <1>16, <2>1 DEF Clear, OffMigration, NoneMigrated, table, files, Migrating, Idle
  <2>2. CASE ~(call[t].yes)
    BY <1>16, <2>2 DEF Clear, OffMigration, NoneMigrated, table, files, Migrating, Idle
  <2> QED
    BY <2>1, <2>2
<1>17. CASE Save(t)
  BY <1>17 DEF Save, OffMigration, NoneMigrated, table, files, Migrating, Idle, Insert
<1>18. CASE SaveFails(t)
  BY <1>18 DEF SaveFails, OffMigration, NoneMigrated, table, files, Migrating, Idle
<1> QED
  BY <1>1, <1>2, <1>3, <1>4, <1>5, <1>6, <1>7, <1>8, <1>9, <1>10, <1>11, <1>12, <1>13, <1>14, <1>15, <1>16, <1>17, <1>18 DEF Call

LEMMA NextMove == MoveInv /\ [Next]_vars => MoveInv'
<1> SUFFICES ASSUME MoveInv, [Next]_vars PROVE MoveInv'
  OBVIOUS
<1>1. CASE UNCHANGED vars
  BY <1>1 DEF vars, table, files, MoveInv, RowsMoved, Steady, MigrationOK, OneMigrates, Migrating
<1>2. ASSUME NEW t \in Threads, Call(t), Observe PROVE MoveInv'
  <2>1. DOMAIN call = Threads
    BY DEF MoveInv
  <2>2. DOMAIN call' = Threads
    BY <1>2, <2>1 DEF Call, CheckFlag, CheckLine, Migrate, SetFlag, MigrationRaises, CheckProfile,
        CreateProfile, ReadProfile, ReadProfileFails, OpenProfile, WriteProfile, WriteProfileFails,
        ListMemories, AddMemory, Add, Select, Delete, Propose, Ask, Answer, Clear, Save, SaveFails, Goto
  <2> SUFFICES ASSUME Steady' PROVE MigrationOK'
    BY <1>2, <2>2, MigrationObserved DEF MoveInv
  <2>3. /\ Steady /\ OneMigrates'
        /\ call[t].at = "flag" /\ call'[t].at # "flag" => flag'
    BY <1>2, MigrationObserved
  <2>4. MigrationOK
    BY <2>3 DEF MoveInv
  <2>5. CASE OffMigration(t)
    <3>1. moved' = moved /\ flag' = flag
      BY <1>2, <2>5, NothingMoves DEF OffMigration
    <3>2. ASSUME NEW u \in Threads
          PROVE  call'[u] = call[u] \/ (call[u].at # "flag" /\ call'[u].at \notin {"lines", "insert", "flag"})
      <4>1. CASE call' = call
        BY <4>1
      <4>2. ASSUME NEW c, Goto(t, c), c.at \notin {"lines", "insert", "flag"}
            PROVE  call'[u] = call[u] \/ (call[u].at # "flag" /\ call'[u].at \notin {"lines", "insert", "flag"})
        BY <2>1, <2>5, <4>2, Moved DEF OffMigration, Migrating
      <4> QED
        BY <2>5, <4>1, <4>2 DEF OffMigration
    <3> QED
      BY <2>3, <2>4, <3>1, <3>2 DEF MigrationOK
  <2>6. CASE CheckFlag(t)
    <3>1. flag' = flag /\ NoneMigrated /\ call[t] = Idle
      BY <2>6 DEF CheckFlag, Enter, NoneMigrated, table, files
    <3>2. moved' = moved
      BY <1>2, <3>1, NothingMoves
    <3>3. \A u \in Threads : u # t => call'[u] = call[u]
      BY <2>1, <2>6, Moved DEF CheckFlag
    <3>4. CASE flag
      <4>1. call'[t].at = "profile"
        BY <2>1, <2>6, <3>4, Moved DEF CheckFlag
      <4> QED
        BY <2>3, <2>4, <3>1, <3>2, <3>3, <3>4, <4>1 DEF MigrationOK
    <3>5. CASE ~flag
      <4>1. call'[t].at = "lines"
        BY <2>1, <2>6, <3>5, Moved DEF CheckFlag
      <4>2. ASSUME NEW u \in Threads, call[u].at = "flag" PROVE FALSE
        <5>1. u # t /\ call'[u].at = "flag"
          BY <3>1, <3>3, <4>2 DEF Idle
        <5> QED
          BY <2>3, <4>1, <5>1 DEF OneMigrates, Migrating
      <4>3. moved = {}
        BY <2>4, <3>5, <4>2 DEF MigrationOK
      <4> QED
        BY <2>3, <3>2, <4>3 DEF MigrationOK
    <3> QED
      BY <3>4, <3>5
  <2>7. CASE CheckLine(t)
    <3>1. NoneMigrated /\ call[t].at = "lines"
      BY <2>7 DEF CheckLine, NoneMigrated, table
    <3>2. moved' = moved /\ moved = {}
      BY <1>2, <2>4, <3>1, NothingMoves DEF MigrationOK
    <3> QED
      BY <2>3, <3>2 DEF MigrationOK
  <2>8. CASE Migrate(t)
    <3>1. call[t].at = "insert" /\ call'[t].at = "flag" /\ \A u \in Threads : u # t => call'[u] = call[u]
      BY <2>1, <2>8, Moved DEF Migrate
    <3>2. \A u \in Threads : u # t => call[u].at \notin {"lines", "insert"}
      BY <2>4, <3>1 DEF MigrationOK, OneMigrates, Migrating
    <3> QED
      BY <2>3, <3>1, <3>2 DEF MigrationOK
  <2>9. CASE SetFlag(t)
    <3>1. NoneMigrated /\ flag' /\ call'[t].at = "profile" /\ \A u \in Threads : u # t => call'[u] = call[u]
      BY <2>1, <2>9, Moved DEF SetFlag, NoneMigrated, table
    <3>2. moved' = moved
      BY <1>2, <3>1, NothingMoves
    <3> QED
      BY <2>3, <2>4, <3>1, <3>2 DEF MigrationOK
  <2>10. CASE MigrationRaises(t)
    <3>1. NoneMigrated /\ flag' = flag /\ call'[t].at = "profile" /\ \A u \in Threads : u # t => call'[u] = call[u]
      BY <2>1, <2>10, Moved DEF MigrationRaises, NoneMigrated, table, files
    <3>2. moved' = moved
      BY <1>2, <3>1, NothingMoves
    <3>3. call[t].at = "flag" => flag'
      BY <2>3, <3>1
    <3> QED
      BY <2>3, <2>4, <3>1, <3>2, <3>3 DEF MigrationOK
  <2> QED
    BY <1>2, <2>1, <2>5, <2>6, <2>7, <2>8, <2>9, <2>10, OffMigrationKinds
<1>3. ASSUME NEW p \in Procs, Crash(p), Observe PROVE MoveInv'
  <2>1. DOMAIN call' = Threads /\ flag' = flag /\ NoneMigrated
        /\ \A u \in Threads : call'[u] = call[u] \/ call'[u] = Idle
    BY <1>3 DEF Crash, files, table, NoneMigrated
  <2> SUFFICES ASSUME Steady' PROVE MigrationOK'
    BY <1>3, <2>1, MigrationObserved DEF MoveInv
  <2>2. /\ Steady /\ OneMigrates' /\ moved' = moved
        /\ \A u \in Threads : call[u].at = "flag" /\ call'[u].at # "flag" => flag'
    BY <1>3, <2>1, MigrationObserved, NothingMoves
  <2>3. MigrationOK
    BY <2>2 DEF MoveInv
  <2> QED
    BY <2>1, <2>2, <2>3 DEF MigrationOK, Idle
<1> QED
  BY <1>1, <1>2, <1>3 DEF Next, Quiet

(* What a migration has inserted none inserts again, unless two run at     *)
(* once or one leaves no flag.                                             *)
THEOREM MigratesOnce == Spec => MigratedOnce
<1>1. ASSUME MoveInv, [Next]_vars, NEW r \in rows' \ rows, r.by = "migration", r.content \in moved
      PROVE  ~Steady
  <2>1. CASE UNCHANGED vars
    BY <1>1, <2>1 DEF vars, table
  <2>2. ASSUME NEW t \in Threads, Call(t) PROVE ~Steady
    <3>1. CASE Migrate(t)
      BY <1>1, <3>1 DEF Migrate, MoveInv, MigrationOK
    <3>2. CASE NoneMigrated
      BY <1>1, <3>2 DEF NoneMigrated
    <3>3. CASE CheckFlag(t) \/ CheckLine(t) \/ SetFlag(t) \/ MigrationRaises(t)
      BY <1>1, <3>3 DEF CheckFlag, CheckLine, SetFlag, MigrationRaises, table
    <3> QED
      BY <1>1, <2>2, <3>1, <3>2, <3>3, OffMigrationKinds DEF OffMigration, MoveInv
  <2>3. ASSUME NEW p \in Procs, Crash(p) PROVE ~Steady
    BY <1>1, <2>3 DEF Crash, table
  <2> QED
    BY <1>1, <2>1, <2>2, <2>3 DEF Next, Quiet
<1>2. MoveInv /\ [Next]_vars =>
        [\A r \in rows' \ rows : r.by = "migration" /\ r.content \in moved
            => events \cap {"migrations", "unflagged"} # {}]_vars
  BY <1>1 DEF Steady
<1> QED
  BY <1>2, InitMove, NextMove, PTL DEF Spec, MigratedOnce

--------------------------------------------------------------------------------
(* What the user confirmed is saved.  A confirmation is in the hands of    *)
(* the thread that answered it, through the emptying of the slot and up to *)
(* the insert: what is owed and in nobody's hands was lost to a failed     *)
(* save or to a killed process.                                            *)

Holds(t)  == call[t].at = "save" \/ (call[t].at = "clear" /\ call[t].yes)
InHand    == {call[t].content : t \in {u \in Threads : Holds(u)}}
Forgotten == owed \ InHand

ConfirmInv ==
    /\ DOMAIN call = Threads /\ IsFiniteSet(owed) /\ faults \in Nat /\ crashes \in Nat
    /\ Cardinality(Forgotten) <= faults + crashes * Cardinality(Threads)

LEMMA InitConfirm == Init => ConfirmInv
<1> SUFFICES ASSUME Init PROVE ConfirmInv
  OBVIOUS
<1>1. owed = {} /\ faults = 0 /\ crashes = 0 /\ DOMAIN call = Threads
  BY DEF Init
<1>2. Forgotten = {}
  BY <1>1 DEF Forgotten
<1>3. Cardinality(Threads) \in Nat
  BY UserMemoryAssumption, FS_CardinalityType
<1> QED
  BY <1>1, <1>2, <1>3, FS_EmptySet DEF ConfirmInv

(* A thread's step forgets nothing but what it held itself.                *)
LEMMA OthersHold ==
    ASSUME DOMAIN call = Threads, NEW t \in Threads, call' = call \/ \E c : Goto(t, c)
    PROVE  /\ DOMAIN call' = Threads
           /\ InHand \subseteq InHand' \cup {call[t].content}
           /\ ~Holds(t) \/ (Holds(t)' /\ call'[t].content = call[t].content) => InHand \subseteq InHand'
<1>1. DOMAIN call' = Threads /\ \A u \in Threads : u # t => call'[u] = call[u]
  BY DEF Goto
<1>2. ASSUME NEW u \in Threads, Holds(u), u # t PROVE call[u].content \in InHand'
  <2>1. Holds(u)' /\ call'[u].content = call[u].content
    BY <1>1, <1>2 DEF Holds
  <2> QED
    BY <2>1 DEF InHand
<1>3. ASSUME Holds(t)', call'[t].content = call[t].content PROVE call[t].content \in InHand'
  BY <1>3 DEF InHand
<1> QED
  BY <1>1, <1>2, <1>3 DEF InHand

LEMMA NoMoreForgotten ==
    ASSUME ConfirmInv, DOMAIN call' = Threads, IsFiniteSet(owed)', Forgotten' \subseteq Forgotten,
           crashes' = crashes, faults' = faults \/ faults' = faults + 1
    PROVE  ConfirmInv'
<1>1. IsFiniteSet(Forgotten)
  BY FS_Subset DEF ConfirmInv, Forgotten
<1>2. Cardinality(Forgotten') <= Cardinality(Forgotten)
  BY <1>1, FS_Subset
<1>3. Cardinality(Forgotten') \in Nat /\ Cardinality(Forgotten) \in Nat
  BY <1>1, FS_Subset, FS_CardinalityType
<1>4. Cardinality(Threads) \in Nat
  BY UserMemoryAssumption, FS_CardinalityType
<1>5. crashes * Cardinality(Threads) \in Nat
  BY <1>4 DEF ConfirmInv
<1> QED
  BY <1>2, <1>3, <1>5 DEF ConfirmInv

(* A call that has nothing to do with a confirmation, or discards one.     *)
OffConfirm(t) ==
    /\ owed' = owed /\ crashes' = crashes /\ (faults' = faults \/ faults' = faults + 1) /\ ~Holds(t)
    /\ call' = call \/ \E c : Goto(t, c)

LEMMA OffConfirmKinds ==
    ASSUME DOMAIN call = Threads, NEW t \in Threads, Call(t)
    PROVE  \/ OffConfirm(t)
           \/ Answer(t) \/ Clear(t) \/ Save(t) \/ SaveFails(t)
<1> USE DEF OffConfirm, bounds, Holds, Enter, Fails, Idle
<1>1. CASE CheckFlag(t)
  BY <1>1 DEF CheckFlag
<1>2. CASE CheckLine(t)
  BY <1>2 DEF CheckLine
<1>3. CASE Migrate(t)
  BY <1>3 DEF Migrate
<1>4. CASE SetFlag(t)
  BY <1>4 DEF SetFlag
<1>5. CASE MigrationRaises(t)
  BY <1>5 DEF MigrationRaises
<1>6. CASE CheckProfile(t)
  BY <1>6 DEF CheckProfile
<1>7. CASE CreateProfile(t)
  BY <1>7 DEF CreateProfile
<1>8. CASE ReadProfile(t)
  BY <1>8 DEF ReadProfile
<1>9. CASE ReadProfileFails(t)
  BY <1>9 DEF ReadProfileFails
<1>10. CASE OpenProfile(t)
  BY <1>10 DEF OpenProfile
<1>11. CASE WriteProfile(t)
  BY <1>11 DEF WriteProfile
<1>12. CASE WriteProfileFails(t)
  BY <1>12 DEF WriteProfileFails
<1>13. CASE ListMemories(t)
  BY <1>13 DEF ListMemories
<1>14. CASE AddMemory(t)
  BY <1>14 DEF AddMemory
<1>15. CASE Add(t)
  BY <1>15 DEF Add
<1>16. CASE Select(t)
  BY <1>16 DEF Select
<1>17. CASE Delete(t)
  BY <1>17 DEF Delete
<1>18. CASE Propose(t)
  BY <1>18 DEF Propose
<1>19. CASE Ask(t)
  BY <1>19 DEF Ask
<1> QED
  BY <1>1, <1>2, <1>3, <1>4, <1>5, <1>6, <1>7, <1>8, <1>9, <1>10, <1>11, <1>12, <1>13, <1>14, <1>15, <1>16, <1>17, <1>18, <1>19 DEF Call

(* How sets grow by one element, and images are no larger than their set.  *)
LEMMA OneMoreAtMost ==
    ASSUME NEW A, NEW B, NEW x, IsFiniteSet(B), A \subseteq B \cup {x}
    PROVE  IsFiniteSet(A) /\ Cardinality(A) <= Cardinality(B) + 1
<1>1. IsFiniteSet(B \cup {x}) /\ Cardinality(B \cup {x}) = IF x \in B THEN Cardinality(B) ELSE Cardinality(B) + 1
  BY FS_AddElement
<1>2. Cardinality(B) \in Nat
  BY FS_CardinalityType
<1>3. IsFiniteSet(A) /\ Cardinality(A) <= Cardinality(B \cup {x})
  BY <1>1, FS_Subset
<1>4. Cardinality(A) \in Nat
  BY <1>3, FS_CardinalityType
<1> QED
  BY <1>1, <1>2, <1>3, <1>4

LEMMA ImageIsSmaller ==
    ASSUME NEW S, IsFiniteSet(S), NEW f, DOMAIN f = S
    PROVE  IsFiniteSet({f[x] : x \in S}) /\ Cardinality({f[x] : x \in S}) <= Cardinality(S)
<1> DEFINE g == [x \in S |-> f[x]]
           T == {f[x] : x \in S}
<1>1. g \in [S -> T] /\ \A y \in T : \E x \in S : g[x] = y
  OBVIOUS
<1>2. g \in Surjection(S, T)
  BY <1>1 DEF Surjection
<1> QED
  BY <1>2, FS_Surjection

LEMMA AtMostOneEach ==
    ASSUME IsFiniteSet(Threads)
    PROVE  /\ IsFiniteSet({call[t].content : t \in Threads})
           /\ Cardinality({call[t].content : t \in Threads}) <= Cardinality(Threads)
<1> DEFINE f == [t \in Threads |-> call[t].content]
<1>1. {f[t] : t \in Threads} = {call[t].content : t \in Threads}
  OBVIOUS
<1>2. DOMAIN f = Threads
  OBVIOUS
<1> HIDE DEF f
<1> QED
  BY <1>1, <1>2, ImageIsSmaller

LEMMA NextConfirm == ConfirmInv /\ [Next]_vars => ConfirmInv'
<1> SUFFICES ASSUME ConfirmInv, [Next]_vars PROVE ConfirmInv'
  OBVIOUS
<1>1. CASE UNCHANGED vars
  BY <1>1 DEF vars, bounds, ConfirmInv, Forgotten, InHand, Holds
<1>2. ASSUME NEW t \in Threads, Call(t) PROVE ConfirmInv'
  <2>1. CASE OffConfirm(t)
    <3>1. DOMAIN call' = Threads /\ InHand \subseteq InHand'
      BY <2>1, OthersHold DEF OffConfirm, ConfirmInv
    <3> QED
      BY <2>1, <3>1, NoMoreForgotten DEF OffConfirm, Forgotten, ConfirmInv
  <2>2. CASE Answer(t)
    <3> DEFINE c == pending[home[t]]
    <3>1. PICK yes \in BOOLEAN :
              /\ Goto(t, [at |-> "clear", content |-> c, yes |-> yes])
              /\ owed' = IF yes THEN owed \cup {c} ELSE owed
      BY <2>2 DEF Answer
    <3> HIDE DEF c
    <3>2. ~Holds(t) /\ crashes' = crashes /\ faults' = faults
      BY <2>2 DEF Answer, Enter, Holds, Idle
    <3>3. DOMAIN call' = Threads /\ InHand \subseteq InHand'
      BY <3>1, <3>2, OthersHold DEF ConfirmInv
    <3>4. yes => c \in InHand'
      <4>1. call'[t] = [at |-> "clear", content |-> c, yes |-> yes]
        BY <3>1, Moved DEF ConfirmInv
      <4> QED
        BY <4>1 DEF InHand, Holds
    <3>5. IsFiniteSet(owed)'
      BY <3>1, FS_AddElement DEF ConfirmInv
    <3>6. Forgotten' \subseteq Forgotten
      BY <3>1, <3>3, <3>4 DEF Forgotten
    <3> QED
      BY <3>2, <3>3, <3>5, <3>6, NoMoreForgotten
  <2>3. CASE Clear(t)
    <3>1. PICK c : /\ Goto(t, c)
                   /\ call[t].yes => c.at = "save" /\ c.content = call[t].content
      BY <2>3 DEF Clear
    <3>2. owed' = owed /\ crashes' = crashes /\ faults' = faults /\ call[t].at = "clear"
      BY <2>3 DEF Clear, bounds
    <3>3. call'[t] = c
      BY <3>1, Moved DEF ConfirmInv
    <3>4. ~Holds(t) \/ (Holds(t)' /\ call'[t].content = call[t].content)
      BY <3>1, <3>2, <3>3 DEF Holds
    <3>5. DOMAIN call' = Threads /\ InHand \subseteq InHand'
      BY <3>1, <3>4, OthersHold DEF ConfirmInv
    <3> QED
      BY <3>2, <3>5, NoMoreForgotten DEF Forgotten, ConfirmInv
  <2>4. CASE Save(t)
    <3>1. Goto(t, Idle) /\ owed' = owed \ {call[t].content} /\ crashes' = crashes /\ faults' = faults
      BY <2>4 DEF Save, bounds
    <3>2. DOMAIN call' = Threads /\ InHand \subseteq InHand' \cup {call[t].content}
      BY <3>1, OthersHold DEF ConfirmInv
    <3>3. IsFiniteSet(owed)'
      BY <3>1, FS_Subset DEF ConfirmInv
    <3> QED
      BY <3>1, <3>2, <3>3, NoMoreForgotten DEF Forgotten
  <2>5. CASE SaveFails(t)
    <3>1. Goto(t, Idle) /\ owed' = owed /\ crashes' = crashes /\ faults' = faults + 1
      BY <2>5 DEF SaveFails, Fails
    <3>2. DOMAIN call' = Threads /\ InHand \subseteq InHand' \cup {call[t].content}
      BY <3>1, OthersHold DEF ConfirmInv
    <3>3. Forgotten' \subseteq Forgotten \cup {call[t].content}
      BY <3>1, <3>2 DEF Forgotten
    <3>4. IsFiniteSet(Forgotten)
      BY FS_Subset DEF ConfirmInv, Forgotten
    <3>5. Cardinality(Forgotten') <= Cardinality(Forgotten) + 1
      BY <3>3, <3>4, OneMoreAtMost
    <3>6. Cardinality(Forgotten') \in Nat /\ Cardinality(Forgotten) \in Nat
      <4>1. IsFiniteSet(Forgotten')
        BY <3>1, FS_Subset DEF ConfirmInv, Forgotten
      <4> QED
        BY <3>4, <4>1, FS_CardinalityType
    <3>7. crashes * Cardinality(Threads) \in Nat
      BY UserMemoryAssumption, FS_CardinalityType DEF ConfirmInv
    <3> QED
      BY <3>1, <3>2, <3>5, <3>6, <3>7 DEF ConfirmInv
  <2> QED
    BY <1>2, <2>1, <2>2, <2>3, <2>4, <2>5, OffConfirmKinds DEF ConfirmInv
<1>3. ASSUME NEW p \in Procs, Crash(p) PROVE ConfirmInv'
  <2> DEFINE killed == {call[t].content : t \in Threads}
             n == Cardinality(Threads)
  <2>1. /\ DOMAIN call' = Threads /\ owed' = owed /\ faults' = faults /\ crashes' = crashes + 1
        /\ \A u \in Threads : call'[u] = call[u] \/ call'[u] = Idle
    BY <1>3 DEF Crash
  <2>2. Forgotten' \subseteq Forgotten \cup killed
    <3>1. ASSUME NEW u \in Threads, Holds(u) PROVE call[u].content \in InHand' \cup killed
      BY <3>1
    <3>2. InHand \subseteq InHand' \cup killed
      BY <3>1 DEF InHand
    <3> QED
      BY <2>1, <3>2 DEF Forgotten
  <2>3. IsFiniteSet(killed) /\ Cardinality(killed) <= n
    BY UserMemoryAssumption, AtMostOneEach
  <2>4. IsFiniteSet(Forgotten)
    BY FS_Subset DEF ConfirmInv, Forgotten
  <2>5. n \in Nat /\ Cardinality(killed) \in Nat /\ Cardinality(Forgotten) \in Nat
    BY <2>3, <2>4, UserMemoryAssumption, FS_CardinalityType
  <2> HIDE DEF killed, n
  <2>6. IsFiniteSet(Forgotten \cup killed) /\ Cardinality(Forgotten \cup killed) <= Cardinality(Forgotten) + Cardinality(killed)
    <3>1. /\ IsFiniteSet(Forgotten \cup killed)
          /\ Cardinality(Forgotten \cup killed) =
                 Cardinality(Forgotten) + Cardinality(killed) - Cardinality(Forgotten \cap killed)
      BY <2>3, <2>4, FS_Union
    <3>2. IsFiniteSet(Forgotten \cap killed)
      BY <2>4, FS_Intersection
    <3>3. Cardinality(Forgotten \cap killed) \in Nat
      BY <3>2, FS_CardinalityType
    <3> QED
      BY <2>5, <3>1, <3>3
  <2>7. Cardinality(Forgotten') <= Cardinality(Forgotten \cup killed) /\ IsFiniteSet(Forgotten')
    BY <2>2, <2>6, FS_Subset
  <2>8. Cardinality(Forgotten') \in Nat /\ Cardinality(Forgotten \cup killed) \in Nat
    BY <2>6, <2>7, FS_CardinalityType
  <2>9. crashes * n \in Nat /\ (crashes + 1) * n = crashes * n + n
    BY <2>5 DEF ConfirmInv
  <2>10. Cardinality(Forgotten) <= faults + crashes * n /\ faults \in Nat
    BY DEF ConfirmInv, n
  <2>11. Cardinality(Forgotten') <= faults + (crashes + 1) * n
    BY <2>3, <2>5, <2>6, <2>7, <2>8, <2>9, <2>10
  <2> QED
    BY <2>1, <2>11 DEF ConfirmInv, n
<1> QED
  BY <1>1, <1>2, <1>3 DEF Next, Quiet

(* What a user confirmed is stored, but for one content per failed save    *)
(* and one per thread and killed process (core/agent.py,                   *)
(* _handle_memory_confirm), however threads share the slot.                *)
THEOREM ConfirmedAreSaved == Spec => []ConfirmedSaved
<1>1. ConfirmInv => ConfirmedSaved
  <2> SUFFICES ASSUME ConfirmInv PROVE ConfirmedSaved
    OBVIOUS
  <2> DEFINE lost == owed \ {call[t].content : t \in {u \in Threads : call[u].at \in {"clear", "save"}}}
  <2>1. lost \subseteq Forgotten
    BY DEF Forgotten, InHand, Holds
  <2>2. IsFiniteSet(Forgotten) /\ IsFiniteSet(lost)
    BY FS_Subset DEF ConfirmInv, Forgotten
  <2>3. Cardinality(lost) <= Cardinality(Forgotten)
    BY <2>1, <2>2, FS_Subset
  <2>4. Cardinality(lost) \in Nat /\ Cardinality(Forgotten) \in Nat
    BY <2>2, FS_CardinalityType
  <2>5. crashes * Cardinality(Threads) \in Nat
    BY UserMemoryAssumption, FS_CardinalityType DEF ConfirmInv
  <2> QED
    BY <2>3, <2>4, <2>5 DEF ConfirmInv, ConfirmedSaved
<1> QED
  BY <1>1, InitConfirm, NextConfirm, PTL DEF Spec

--------------------------------------------------------------------------------
(* Overlapping migrations leave few duplicates.  While nothing is deleted, *)
(* every id ever given is in the table, and what a migration has found     *)
(* stored stays stored.  The first one to commit stores all the lines;     *)
(* after it each one that was about to insert adds the line it looked at,  *)
(* and none begins to insert any more.                                     *)

Whole     == \A i \in 1 .. lastId : \E r \in rows : r.id = i
Migrated  == {r \in rows : r.by = "migration"}
Inserting == {t \in Threads : call[t].at = "insert"}

ChecksPassed ==
    \A t \in Threads : call[t].at \in {"lines", "insert"} =>
        \A j \in DOMAIN Lines : j < call[t].line => Lines[j] \in Stored

SurplusInv ==
    Whole => /\ ChecksPassed
             /\ Migrated # {} =>
                    /\ \A j \in DOMAIN Lines : Lines[j] \in Stored
                    /\ Cardinality(Migrated) + Cardinality(Inserting) < Len(Lines) + Cardinality(Threads)

LEMMA IdsUsed ==
    ASSUME IdsOK
    PROVE  IsFiniteSet(rows) /\ (Cardinality(rows) = lastId => Whole)
<1> DEFINE f == [r \in rows |-> r.id]
<1>1. lastId \in Nat /\ f \in [rows -> 1 .. lastId] /\ \A r, s \in rows : f[r] = f[s] => r = s
  BY DEF IdsOK
<1>2. f \in Injection(rows, 1 .. lastId)
  BY <1>1 DEF Injection, IsInjective
<1>3. IsFiniteSet(1 .. lastId) /\ Cardinality(1 .. lastId) = lastId
  BY <1>1, FS_Interval
<1>4. IsFiniteSet(rows) /\ (Cardinality(rows) = Cardinality(1 .. lastId) <=> f \in Surjection(rows, 1 .. lastId))
  BY <1>2, <1>3, FS_Injection
<1>5. f \in Surjection(rows, 1 .. lastId) => Whole
  BY DEF Surjection, Whole
<1> QED
  BY <1>3, <1>4, <1>5

LEMMA InitSurplus == Init => SurplusInv
BY DEF Init, SurplusInv, ChecksPassed, Migrated, Idle

(* A table that is whole after a step was whole before and lost no row.    *)
LEMMA WasWhole ==
    ASSUME IdInv, Whole', NEW t \in Threads, Call(t)
    PROVE  Whole /\ rows \subseteq rows'
<1>1. CASE Elsewhere(t)
  BY <1>1 DEF Elsewhere, Whole
<1>2. CASE Writes(t)
  <2>1. /\ lastId \in Nat /\ lastId' \in Nat /\ lastId' >= lastId /\ rows \subseteq rows'
        /\ \A r \in rows' \ rows : r.id \in lastId + 1 .. lastId'
    BY <1>2 DEF Writes, Grows, IdInv, IdsOK
  <2>2. ASSUME NEW i \in 1 .. lastId PROVE \E r \in rows : r.id = i
    <3>1. PICK r \in rows' : r.id = i
      BY <2>1 DEF Whole
    <3> QED
      BY <2>1, <3>1
  <2> QED
    BY <2>1, <2>2 DEF Whole
<1>3. CASE Delete(t)
  <2>1. rows' \subseteq rows /\ lastId' = lastId
    BY <1>3 DEF Delete
  <2>2. ASSUME NEW r \in rows PROVE r \in rows'
    <3>1. r.id \in 1 .. lastId
      BY DEF IdInv, IdsOK
    <3>2. PICK s \in rows' : s.id = r.id
      BY <2>1, <3>1 DEF Whole
    <3> QED
      BY <2>1, <3>2 DEF IdInv, IdsOK
  <2> QED
    BY <2>1, <2>2 DEF Whole
<1> QED
  BY <1>1, <1>2, <1>3, Kinds

(* A step that migrates nothing and begins no insert.                      *)
LEMMA NoSurplus ==
    ASSUME IdInv, SurplusInv, Whole, rows \subseteq rows', NoneMigrated, Inserting' \subseteq Inserting, ChecksPassed'
    PROVE  SurplusInv'
<1>1. Migrated' = Migrated /\ Stored \subseteq Stored'
  BY DEF NoneMigrated, Migrated, Stored
<1>2. IsFiniteSet(Inserting) /\ IsFiniteSet(Inserting')
  BY UserMemoryAssumption, FS_Subset DEF Inserting
<1>3. Cardinality(Inserting') <= Cardinality(Inserting)
  BY <1>2, FS_Subset
<1>4. Cardinality(Inserting) \in Nat /\ Cardinality(Inserting') \in Nat /\ Cardinality(Migrated) \in Nat
  <2>1. IsFiniteSet(Migrated)
    BY IdsUsed, FS_Subset DEF IdInv, Migrated
  <2> QED
    BY <1>2, <2>1, FS_CardinalityType
<1>5. Len(Lines) \in Nat /\ Cardinality(Threads) \in Nat
  BY UserMemoryAssumption, FS_CardinalityType
<1>6. ASSUME Migrated' # {}
      PROVE  /\ \A j \in DOMAIN Lines : Lines[j] \in Stored'
             /\ Cardinality(Migrated') + Cardinality(Inserting') < Len(Lines) + Cardinality(Threads)
  <2>1. /\ \A j \in DOMAIN Lines : Lines[j] \in Stored
        /\ Cardinality(Migrated) + Cardinality(Inserting) < Len(Lines) + Cardinality(Threads)
    BY <1>1, <1>6 DEF SurplusInv
  <2> QED
    BY <1>1, <1>3, <1>4, <1>5, <2>1
<1> QED
  BY <1>6 DEF SurplusInv

LEMMA MigrateSurplus ==
    ASSUME IdInv, SurplusInv, Whole, NEW t \in Threads, Migrate(t), rows \subseteq rows'
    PROVE  SurplusInv'
<1> DEFINE i == call[t].line
           new == Fresh(i)
           rank(j) == Cardinality({k \in new : k <= j})
           f == [j \in new |-> [id |-> lastId + rank(j), content |-> Lines[j],
                                level |-> "auto", by |-> "migration"]]
           added == {f[j] : j \in new}
<1>1. call[t].at = "insert" /\ i \in 1 .. Len(Lines) /\ Len(Lines) \in Nat /\ DOMAIN Lines = 1 .. Len(Lines)
  BY UserMemoryAssumption DEF Migrate, IdInv, LinesOK
<1>2. new \subseteq 1 .. Len(Lines) /\ i \in new /\ \A j \in DOMAIN Lines : j > i => j \in new \/ Lines[j] \in Stored
  BY <1>1 DEF Fresh
<1>3. /\ DOMAIN call' = Threads /\ call'[t].at = "flag"
      /\ \A u \in Threads : u # t => call'[u] = call[u]
  BY Moved DEF Migrate, IdInv
<1>4. rows' = rows \cup added /\ \A j \in new : f[j].by = "migration" /\ f[j].content = Lines[j]
  <2>1. rows' = rows \cup {[id |-> lastId + rank(j), content |-> Lines[j],
                            level |-> "auto", by |-> "migration"] : j \in new}
    BY DEF Migrate
  <2> HIDE DEF new, rank
  <2>2. \A j \in new : f[j] = [id |-> lastId + rank(j), content |-> Lines[j],
                               level |-> "auto", by |-> "migration"]
    OBVIOUS
  <2> QED
    BY <2>1, <2>2
<1>5. DOMAIN f = new
  OBVIOUS
<1>6. IsFiniteSet(new) /\ Cardinality(new) <= Len(Lines)
  <2>1. IsFiniteSet(1 .. Len(Lines)) /\ Cardinality(1 .. Len(Lines)) = Len(Lines)
    <3>1. 1 \in Int /\ Len(Lines) \in Int
      BY <1>1
    <3>2. /\ IsFiniteSet(1 .. Len(Lines))
          /\ Cardinality(1 .. Len(Lines)) = IF 1 > Len(Lines) THEN 0 ELSE Len(Lines) - 1 + 1
      BY <3>1, FS_Interval
    <3> QED
      BY <1>1, <3>2
  <2> QED
    BY <1>2, <2>1, FS_Subset
<1> HIDE DEF f
<1>7. IsFiniteSet(added) /\ Cardinality(added) <= Cardinality(new)
  BY <1>5, <1>6, ImageIsSmaller
<1>8. Inserting' = Inserting \ {t} /\ t \in Inserting
  BY <1>1, <1>3 DEF Inserting
<1>9. IsFiniteSet(Inserting) /\ Cardinality(Inserting) <= Cardinality(Threads)
  BY UserMemoryAssumption, FS_Subset DEF Inserting
<1>10. Cardinality(Inserting') = Cardinality(Inserting) - 1
  BY <1>8, <1>9, FS_RemoveElement
<1>11. IsFiniteSet(Migrated)
  BY IdsUsed, FS_Subset DEF IdInv, Migrated
<1>12. /\ Cardinality(Threads) \in Nat /\ Cardinality(Inserting) \in Nat /\ Cardinality(added) \in Nat
       /\ Cardinality(new) \in Nat /\ Cardinality(Migrated) \in Nat
  BY UserMemoryAssumption, <1>6, <1>7, <1>9, <1>11, FS_CardinalityType
<1>13. Stored \subseteq Stored' /\ \A j \in new : Lines[j] \in Stored'
  <2>1. \A j \in new : f[j] \in rows'
    BY <1>4
  <2> QED
    BY <1>4, <2>1 DEF Stored
<1>14. \A j \in DOMAIN Lines : Lines[j] \in Stored'
  <2> SUFFICES ASSUME NEW j \in DOMAIN Lines PROVE Lines[j] \in Stored'
    OBVIOUS
  <2>1. j < i => Lines[j] \in Stored
    BY <1>1 DEF SurplusInv, ChecksPassed
  <2> QED
    BY <1>1, <1>2, <1>13, <2>1
<1>15. ChecksPassed'
  BY <1>14 DEF ChecksPassed
<1>16. Migrated' \subseteq Migrated \cup added
  BY <1>4 DEF Migrated
<1>17. Cardinality(Migrated') + Cardinality(Inserting') < Len(Lines) + Cardinality(Threads)
  <2>1. CASE Migrated = {}
    <3>1. IsFiniteSet(Migrated') /\ Cardinality(Migrated') <= Cardinality(added)
      BY <1>7, <1>16, <2>1, FS_Subset
    <3>2. Cardinality(Migrated') \in Nat
      BY <3>1, FS_CardinalityType
    <3> HIDE DEF added, new
    <3> QED
      BY <1>1, <1>6, <1>7, <1>9, <1>10, <1>12, <3>1, <3>2
  <2>2. CASE Migrated # {}
    <3>1. /\ \A j \in DOMAIN Lines : Lines[j] \in Stored
          /\ Cardinality(Migrated) + Cardinality(Inserting) < Len(Lines) + Cardinality(Threads)
      BY <2>2 DEF SurplusInv
    <3>2. new = {i}
      BY <1>1, <3>1 DEF Fresh
    <3>3. Migrated' \subseteq Migrated \cup {f[i]}
      BY <1>16, <3>2
    <3>4. IsFiniteSet(Migrated') /\ Cardinality(Migrated') <= Cardinality(Migrated) + 1
      BY <1>11, <3>3, OneMoreAtMost
    <3>5. Cardinality(Migrated') \in Nat
      BY <3>4, FS_CardinalityType
    <3> QED
      BY <1>1, <1>10, <1>12, <3>1, <3>4, <3>5
  <2> QED
    BY <2>1, <2>2
<1> QED
  BY <1>14, <1>15, <1>17 DEF SurplusInv

LEMMA NextSurplus == IdInv /\ SurplusInv /\ [Next]_vars => SurplusInv'
<1> SUFFICES ASSUME IdInv, SurplusInv, [Next]_vars, Whole' PROVE SurplusInv'
  BY DEF SurplusInv
<1>1. CASE UNCHANGED vars
  BY <1>1 DEF vars, table, SurplusInv, Whole, ChecksPassed, Migrated, Inserting, Stored
<1>2. ASSUME NEW t \in Threads, Call(t) PROVE SurplusInv'
  <2>1. Whole /\ rows \subseteq rows' /\ DOMAIN call = Threads
    BY <1>2, WasWhole DEF IdInv
  <2>2. ChecksPassed /\ Stored \subseteq Stored'
    BY <2>1 DEF SurplusInv, Stored
  <2>3. ASSUME NEW c, Goto(t, c) \/ call' = call, NoneMigrated, c.at # "insert",
               c.at = "lines" => \A j \in DOMAIN Lines : j < c.line => Lines[j] \in Stored
        PROVE  SurplusInv'
    <3>1. \A u \in Threads : call'[u] = call[u] \/ call'[u] = c
      BY <2>1, <2>3, Moved
    <3>2. ChecksPassed'
      BY <2>2, <2>3, <3>1 DEF ChecksPassed
    <3>3. Inserting' \subseteq Inserting
      BY <2>3, <3>1 DEF Inserting
    <3> QED
      BY <2>1, <2>3, <3>2, <3>3, NoSurplus
  <2>4. CASE OffMigration(t)
    <3>1. CASE call' = call
      <4>1. Idle.at = "idle"
        BY DEF Idle
      <4> QED
        BY <2>3, <2>4, <3>1, <4>1 DEF OffMigration
    <3>2. ASSUME NEW c, Goto(t, c), c.at \notin {"lines", "insert", "flag"} PROVE SurplusInv'
      BY <2>3, <2>4, <3>2 DEF OffMigration
    <3> QED
      BY <2>4, <3>1, <3>2 DEF OffMigration
  <2>5. CASE CheckFlag(t)
    <3>1. NoneMigrated
      BY <2>5 DEF CheckFlag, NoneMigrated, table
    <3>2. \A j \in DOMAIN Lines : ~(j < 1)
      BY UserMemoryAssumption
    <3>3. CASE flag
      BY <2>3, <2>5, <3>1, <3>3 DEF CheckFlag
    <3>4. CASE ~flag
      BY <2>3, <2>5, <3>1, <3>2, <3>4 DEF CheckFlag
    <3> QED
      BY <3>3, <3>4
  <2>6. CASE CheckLine(t)
    <3> DEFINE i == call[t].line
    <3>1. /\ NoneMigrated /\ call[t].at = "lines" /\ rows' = rows
          /\ i \in 1 .. Len(Lines) + 1 /\ Len(Lines) \in Nat /\ DOMAIN Lines = 1 .. Len(Lines)
      BY <2>6, UserMemoryAssumption DEF CheckLine, NoneMigrated, table, IdInv, LinesOK
    <3>2. \A j \in DOMAIN Lines : j < i => Lines[j] \in Stored
      BY <2>2, <3>1 DEF ChecksPassed
    <3>3. CASE i > Len(Lines)
      BY <2>3, <2>6, <3>1, <3>3 DEF CheckLine
    <3>4. CASE i <= Len(Lines) /\ Lines[i] \in Stored
      <4>1. Goto(t, [at |-> "lines", line |-> i + 1])
        BY <2>6, <3>1, <3>4 DEF CheckLine
      <4>2. \A j \in DOMAIN Lines : j < i + 1 => Lines[j] \in Stored
        <5>1. \A j \in DOMAIN Lines : j < i + 1 => j < i \/ j = i
          BY <3>1
        <5> QED
          BY <3>2, <3>4, <5>1
      <4> QED
        BY <2>3, <3>1, <4>1, <4>2
    <3>5. CASE i <= Len(Lines) /\ Lines[i] \notin Stored
      <4>1. Goto(t, [at |-> "insert", line |-> i])
        BY <2>6, <3>1, <3>5 DEF CheckLine
      <4>2. /\ call'[t] = [at |-> "insert", line |-> i]
            /\ \A u \in Threads : u # t => call'[u] = call[u]
        BY <2>1, <4>1, Moved
      <4>3. Migrated = {} /\ Migrated' = {}
        BY <2>1, <3>1, <3>5 DEF SurplusInv, Migrated
      <4>4. ChecksPassed'
        BY <2>2, <3>2, <4>2 DEF ChecksPassed
      <4> QED
        BY <4>3, <4>4 DEF SurplusInv
    <3> QED
      BY <3>1, <3>3, <3>4, <3>5
  <2>7. CASE Migrate(t)
    BY <2>1, <2>7, MigrateSurplus
  <2>8. CASE SetFlag(t)
    BY <2>3, <2>8 DEF SetFlag, NoneMigrated
  <2>9. CASE MigrationRaises(t)
    BY <2>3, <2>9 DEF MigrationRaises, NoneMigrated, table
  <2> QED
    BY <1>2, <2>1, <2>4, <2>5, <2>6, <2>7, <2>8, <2>9, OffMigrationKinds
<1>3. ASSUME NEW p \in Procs, Crash(p) PROVE SurplusInv'
  <2>1. /\ rows' = rows /\ lastId' = lastId
        /\ \A u \in Threads : call'[u] = call[u] \/ call'[u].at = "idle"
    BY <1>3 DEF Crash, table, Idle
  <2>2. Whole /\ NoneMigrated /\ Stored' = Stored
    BY <2>1 DEF Whole, NoneMigrated, Stored
  <2>3. ChecksPassed' /\ Inserting' \subseteq Inserting
    BY <2>1, <2>2 DEF SurplusInv, ChecksPassed, Inserting
  <2> QED
    BY <2>1, <2>2, <2>3, NoSurplus
<1> QED
  BY <1>1, <1>2, <1>3 DEF Next, Quiet

(* While nothing is deleted, migrations of MEMORY.md leave one row too     *)
(* many per thread but the first at most (builtin_provider.py,             *)
(* migrate_from_md), for any MEMORY.md and any number of threads.          *)
THEOREM FewDuplicates == Spec => []SurplusBounded
<1>1. IdInv /\ SurplusInv => SurplusBounded
  <2> SUFFICES ASSUME IdInv, SurplusInv, Cardinality(rows) = lastId
               PROVE  Cardinality(Migrated) < Len(Lines) + Cardinality(Threads)
    BY DEF SurplusBounded, Migrated
  <2>1. Whole /\ IsFiniteSet(Migrated) /\ IsFiniteSet(Inserting)
    BY IdsUsed, UserMemoryAssumption, FS_Subset DEF IdInv, Migrated, Inserting
  <2>2. /\ Cardinality(Migrated) \in Nat /\ Cardinality(Inserting) \in Nat
        /\ Cardinality(Threads) \in Nat /\ Len(Lines) \in Nat
    BY <2>1, UserMemoryAssumption, FS_CardinalityType
  <2>3. Cardinality(Threads) # 0
    BY UserMemoryAssumption, FS_EmptySet
  <2>4. CASE Migrated = {}
    BY <2>2, <2>3, <2>4, FS_EmptySet
  <2>5. CASE Migrated # {}
    BY <2>1, <2>2, <2>5 DEF SurplusInv
  <2> QED
    BY <2>4, <2>5
<1> QED
  BY <1>1, InitSurplus, NextSurplus, IdsHold, PTL DEF Spec

--------------------------------------------------------------------------------
(* The types.  What a thread has in hand is of the kind its place asks     *)
(* for; the ids it is about to delete were given already.                  *)

BoundsOK == calls \in 0 .. MaxCalls /\ faults \in 0 .. MaxFaults /\ crashes \in 0 .. MaxCrashes

PlainTypes ==
    /\ home \in [Threads -> Procs] /\ flag \in BOOLEAN /\ exists \in BOOLEAN /\ user \subseteq Facts
    /\ pending \in [Procs -> Contents \cup {None}] /\ asked \in [Threads -> Contents \cup {None}]
    /\ owed \subseteq Contents

RowTypes == \A r \in rows : RowOK(r)

CoreTypes == PlainTypes /\ RowTypes /\ BoundsOK /\ call \in [Threads -> Calls]

HistoryTypes == moved \subseteq Contents /\ kept \subseteq Facts /\ events \subseteq Events

LEMMA InitTypes == Init => CoreTypes /\ HistoryTypes
<1> SUFFICES ASSUME Init PROVE CoreTypes /\ HistoryTypes
  OBVIOUS
<1>1. Idle \in Calls
  BY DEF Idle, Calls
<1>2. BoundsOK
  BY UserMemoryAssumption DEF Init, BoundsOK
<1>3. PlainTypes /\ HistoryTypes /\ RowTypes
  BY DEF Init, PlainTypes, HistoryTypes, RowTypes
<1>4. call \in [Threads -> Calls]
  BY <1>1 DEF Init
<1> QED
  BY <1>2, <1>3, <1>4 DEF CoreTypes

(* Where a call can be, and what it then has in hand.                      *)
LEMMA Places ==
    /\ Idle \in Calls /\ [at |-> "flag"] \in Calls /\ [at |-> "profile"] \in Calls /\ [at |-> "create"] \in Calls
    /\ \A i \in 1 .. Len(Lines) + 1 : /\ [at |-> "lines", line |-> i] \in Calls
                                      /\ [at |-> "insert", line |-> i] \in Calls
    /\ \A f \in SUBSET Facts, m \in SUBSET Contents :
          /\ [at |-> "open", facts |-> f, memories |-> m] \in Calls
          /\ [at |-> "write", facts |-> f, memories |-> m] \in Calls
    /\ \A m \in SUBSET Contents : /\ [at |-> "list", memories |-> m] \in Calls
                                  /\ [at |-> "add", memories |-> m] \in Calls
    /\ \A d \in SUBSET (1 .. lastId) : [at |-> "delete", ids |-> d] \in Calls
    /\ \A c \in Contents : /\ [at |-> "propose", content |-> c] \in Calls
                           /\ [at |-> "save", content |-> c] \in Calls
                           /\ \A yes \in BOOLEAN : [at |-> "clear", content |-> c, yes |-> yes] \in Calls
<1>1. \A c \in Contents, yes \in BOOLEAN : [at |-> "clear", content |-> c, yes |-> yes] \in Calls
  BY Zenon DEF Calls
<1>2. Idle \in Calls /\ [at |-> "flag"] \in Calls /\ [at |-> "profile"] \in Calls /\ [at |-> "create"] \in Calls
  BY DEF Calls, Idle
<1>3. \A i \in 1 .. Len(Lines) + 1 : /\ [at |-> "lines", line |-> i] \in Calls
                                     /\ [at |-> "insert", line |-> i] \in Calls
  BY DEF Calls
<1>4. \A f \in SUBSET Facts, m \in SUBSET Contents :
          /\ [at |-> "open", facts |-> f, memories |-> m] \in Calls
          /\ [at |-> "write", facts |-> f, memories |-> m] \in Calls
  BY DEF Calls
<1>5. \A m \in SUBSET Contents : /\ [at |-> "list", memories |-> m] \in Calls
                                 /\ [at |-> "add", memories |-> m] \in Calls
  BY DEF Calls
<1>6. \A d \in SUBSET (1 .. lastId) : [at |-> "delete", ids |-> d] \in Calls
  BY DEF Calls
<1>7. \A c \in Contents : /\ [at |-> "propose", content |-> c] \in Calls
                          /\ [at |-> "save", content |-> c] \in Calls
  BY DEF Calls
<1> QED
  BY <1>1, <1>2, <1>3, <1>4, <1>5, <1>6, <1>7

LEMMA InPlace ==
    ASSUME NEW c \in Calls
    PROVE  /\ c.at \in {"open", "write"} =>
                /\ c.facts \subseteq Facts /\ c.memories \subseteq Contents
                /\ c = [at |-> c.at, facts |-> c.facts, memories |-> c.memories]
           /\ c.at \in {"list", "add"} =>
                c.memories \subseteq Contents /\ c = [at |-> c.at, memories |-> c.memories]
           /\ c.at \in {"propose", "save", "clear"} => c.content \in Contents
<1>1. CASE c \in [at : {"idle", "flag", "profile", "create"}]
  BY <1>1
<1>2. CASE c \in [at : {"lines", "insert"}, line : 1 .. Len(Lines) + 1]
  BY <1>2
<1>3. CASE c \in [at : {"open", "write"}, facts : SUBSET Facts, memories : SUBSET Contents]
  BY <1>3
<1>4. CASE c \in [at : {"list", "add"}, memories : SUBSET Contents]
  BY <1>4
<1>5. CASE c \in [at : {"delete"}, ids : SUBSET (1 .. lastId)]
  BY <1>5
<1>6. CASE c \in [at : {"propose", "save"}, content : Contents]
  BY <1>6
<1>7. CASE c \in [at : {"clear"}, content : Contents, yes : BOOLEAN]
  <2>1. c.at = "clear" /\ c.content \in Contents
    BY <1>7
  <2> QED
    BY <2>1
<1> QED
  BY <1>1, <1>2, <1>3, <1>4, <1>5, <1>6, <1>7, Zenon DEF Calls

LEMMA CallsGrow ==
    ASSUME lastId \in Nat, lastId' \in Nat, lastId' >= lastId
    PROVE  Calls \subseteq Calls'
<1>1. [at : {"delete"}, ids : SUBSET (1 .. lastId)] \subseteq [at : {"delete"}, ids : SUBSET (1 .. lastId')]
  BY SMT
<1> QED
  BY <1>1, Zenon DEF Calls

LEMMA CallTyped ==
    ASSUME IdInv, CoreTypes, lastId' \in Nat, lastId' >= lastId,
           NEW t \in Threads, call' = call \/ \E c \in Calls' : Goto(t, c)
    PROVE  call' \in [Threads -> Calls']
<1>1. Calls \subseteq Calls'
  BY CallsGrow DEF IdInv, IdsOK
<1>2. call \in [Threads -> Calls]
  BY DEF CoreTypes
<1>3. call \in [Threads -> Calls']
  BY <1>1, <1>2
<1> QED
  BY <1>3 DEF Goto

LEMMA BoundsKept ==
    ASSUME BoundsOK, NEW t, bounds' = bounds \/ Enter(t) \/ Fails \/ ReadProfileFails(t)
    PROVE  BoundsOK'
BY UserMemoryAssumption DEF BoundsOK, bounds, Enter, Fails, ReadProfileFails

LEMMA RowsTyped ==
    ASSUME IdInv, RowTypes,
           \/ rows' \subseteq rows /\ lastId' = lastId
           \/ \E c \in Contents, level \in {"auto", "permanent"}, by \in {"review", "tool", "user"} :
                 Insert(c, level, by)
    PROVE  RowTypes' /\ lastId' \in Nat /\ lastId' >= lastId
<1>1. CASE rows' \subseteq rows /\ lastId' = lastId
  BY <1>1 DEF RowTypes, RowOK, IdInv, IdsOK
<1>2. ASSUME NEW c \in Contents, NEW level \in {"auto", "permanent"}, NEW by \in {"review", "tool", "user"},
             Insert(c, level, by)
      PROVE  RowTypes' /\ lastId' \in Nat /\ lastId' >= lastId
  <2>1. Grows /\ lastId \in Nat
    BY <1>2, InsertGrows DEF IdInv, IdsOK
  <2>2. IdsOK'
    BY <1>2 DEF Insert, FreeId, IdInv, IdsOK
  <2>3. \A r \in rows' : r \in rows \/ r = [id |-> lastId + 1, content |-> c, level |-> level, by |-> by]
    BY <1>2 DEF Insert, FreeId
  <2>4. \A r \in rows' : r.id \in 1 .. lastId'
    BY <2>2 DEF IdsOK
  <2>5. RowTypes'
    BY <2>3, <2>4 DEF RowTypes, RowOK
  <2> QED
    BY <2>1, <2>5 DEF Grows
<1> QED
  BY <1>1, <1>2

(* What every call does about the types.                                   *)
Typed(t) ==
    /\ PlainTypes' /\ RowTypes' /\ lastId' \in Nat /\ lastId' >= lastId
    /\ bounds' = bounds \/ Enter(t) \/ Fails \/ ReadProfileFails(t)
    /\ call' = call \/ \E c \in Calls' : Goto(t, c)

LEMMA MigrateTyped ==
    ASSUME IdInv, CoreTypes, NEW t \in Threads, Migrate(t)
    PROVE  Typed(t)
<1> DEFINE new == Fresh(call[t].line)
           rank(j) == Cardinality({k \in new : k <= j})
<1>1. call[t].at = "insert" /\ call[t].line \in 1 .. Len(Lines) /\ Len(Lines) \in Nat
  BY UserMemoryAssumption DEF Migrate, IdInv, LinesOK
<1>2. Grows /\ lastId' \in Nat /\ lastId' >= lastId
  BY <1>1, MigrateGrows DEF IdInv, Grows
<1>3. new \subseteq 1 .. Len(Lines) /\ \A j \in new : Lines[j] \in Contents
  BY <1>1, UserMemoryAssumption DEF Fresh
<1>4. rows' = rows \cup {[id |-> lastId + rank(j), content |-> Lines[j],
                          level |-> "auto", by |-> "migration"] : j \in new}
  BY DEF Migrate
<1>5. \A r \in rows' : r.id \in 1 .. lastId'
  BY <1>2 DEF Grows, IdInv, IdsOK
<1> HIDE DEF new, rank
<1>6. ASSUME NEW r \in rows', r \notin rows
      PROVE  r.content \in Contents /\ r.level = "auto" /\ r.by = "migration"
  <2>1. PICK j \in new : r = [id |-> lastId + rank(j), content |-> Lines[j],
                              level |-> "auto", by |-> "migration"]
    BY <1>4, <1>6
  <2> QED
    BY <1>3, <2>1
<1>7. RowTypes'
  BY <1>5, <1>6 DEF CoreTypes, RowTypes, RowOK
<1>8. PlainTypes'
  BY DEF Migrate, CoreTypes, PlainTypes, files
<1>9. bounds' = bounds /\ Goto(t, [at |-> "flag"])
  BY DEF Migrate
<1>10. [at |-> "flag"] \in Calls'
  BY DEF Calls
<1> QED
  BY <1>2, <1>7, <1>8, <1>9, <1>10 DEF Typed

LEMMA EveryCallTyped ==
    ASSUME IdInv, CoreTypes, NEW t \in Threads, Call(t)
    PROVE  Typed(t)
<1>1. PlainTypes /\ RowTypes /\ call[t] \in Calls /\ lastId \in Nat /\ Len(Lines) \in Nat
  BY UserMemoryAssumption DEF CoreTypes, IdInv, IdsOK
<1>2. (rows' \subseteq rows /\ lastId' = lastId) => RowTypes' /\ lastId' \in Nat /\ lastId' >= lastId
  BY <1>1, RowsTyped
<1>3. lastId' = lastId => Calls' = Calls
  BY DEF Calls
<1>4. CASE CheckFlag(t)
  <2>1. 1 \in 1 .. Len(Lines) + 1
    BY <1>1
  <2>2. \E c \in Calls : Goto(t, c)
    BY <1>4, <2>1, Places DEF CheckFlag
  <2> QED
    BY <1>1, <1>2, <1>3, <1>4, <2>2 DEF CheckFlag, Typed, table, files, PlainTypes
<1>5. CASE CheckLine(t)
  <2>1. call[t].line \in 1 .. Len(Lines) + 1
    BY <1>5 DEF CheckLine, IdInv, LinesOK
  <2>2. call[t].line <= Len(Lines) => call[t].line + 1 \in 1 .. Len(Lines) + 1
    BY <1>1, <2>1
  <2>3. ~(call[t].line > Len(Lines)) => call[t].line <= Len(Lines)
    BY <1>1, <2>1
  <2>4. \E c \in Calls : Goto(t, c)
    BY <1>5, <2>1, <2>2, <2>3, Places DEF CheckLine
  <2> QED
    BY <1>1, <1>2, <1>3, <1>5, <2>4 DEF CheckLine, Typed, table, files, PlainTypes
<1>6. CASE Migrate(t)
  BY <1>6, MigrateTyped
<1>7. CASE SetFlag(t)
  <2>1. \E c \in Calls : Goto(t, c)
    BY <1>7, Places DEF SetFlag
  <2> QED
    BY <1>1, <1>2, <1>3, <1>7, <2>1 DEF SetFlag, Typed, PlainTypes
<1>8. CASE MigrationRaises(t)
  <2>1. \E c \in Calls : Goto(t, c)
    BY <1>8, Places DEF MigrationRaises
  <2> QED
    BY <1>1, <1>2, <1>3, <1>8, <2>1 DEF MigrationRaises, Typed, table, files, PlainTypes
<1>9. CASE CheckProfile(t)
  <2>1. \E c \in Calls : Goto(t, c)
    BY <1>9, Places DEF CheckProfile
  <2> QED
    BY <1>1, <1>2, <1>3, <1>9, <2>1 DEF CheckProfile, Typed, table, files, PlainTypes
<1>10. CASE CreateProfile(t)
  <2>1. \E c \in Calls : Goto(t, c)
    BY <1>10, Places DEF CreateProfile
  <2> QED
    BY <1>1, <1>2, <1>3, <1>10, <2>1 DEF CreateProfile, Typed, table, PlainTypes
<1>11. CASE ReadProfile(t)
  <2>1. PICK r \in Reviews :
          Goto(t, IF r.facts \subseteq user THEN [at |-> "list", memories |-> r.memories]
                  ELSE [at |-> "open", facts |-> user \cup r.facts, memories |-> r.memories])
    BY <1>11 DEF ReadProfile
  <2>2. r.memories \in SUBSET Contents /\ user \cup r.facts \in SUBSET Facts
    BY <1>1, UserMemoryAssumption DEF PlainTypes
  <2>3. \E c \in Calls : Goto(t, c)
    BY <2>1, <2>2, Places
  <2> QED
    BY <1>1, <1>2, <1>3, <1>11, <2>3 DEF ReadProfile, Typed, table, files, PlainTypes
<1>12. CASE ReadProfileFails(t)
  <2>1. PICK r \in Reviews : Goto(t, [at |-> "open", facts |-> r.facts, memories |-> r.memories])
    BY <1>12 DEF ReadProfileFails
  <2>2. r.memories \in SUBSET Contents /\ r.facts \in SUBSET Facts
    BY UserMemoryAssumption
  <2>3. \E c \in Calls : Goto(t, c)
    BY <2>1, <2>2, Places
  <2>4. PlainTypes' /\ rows' = rows /\ lastId' = lastId
    BY <1>1, <1>12 DEF ReadProfileFails, table, files, PlainTypes
  <2> QED
    BY <1>2, <1>3, <1>12, <2>3, <2>4 DEF ReadProfileFails, Typed
<1>13. CASE OpenProfile(t)
  <2>1. call[t].facts \in SUBSET Facts /\ call[t].memories \in SUBSET Contents
        /\ call[t] = [at |-> call[t].at, facts |-> call[t].facts, memories |-> call[t].memories]
    BY <1>1, <1>13, InPlace DEF OpenProfile
  <2>2. [call[t] EXCEPT !.at = "write"] = [at |-> "write", facts |-> call[t].facts, memories |-> call[t].memories]
    BY <2>1
  <2>3. \E c \in Calls : Goto(t, c)
    BY <1>13, <2>1, <2>2, Places DEF OpenProfile
  <2> QED
    BY <1>1, <1>2, <1>3, <1>13, <2>3 DEF OpenProfile, Typed, table, PlainTypes
<1>14. CASE WriteProfile(t)
  <2>1. call[t].facts \subseteq Facts /\ call[t].memories \in SUBSET Contents
    BY <1>1, <1>14, InPlace DEF WriteProfile
  <2>2. \E c \in Calls : Goto(t, c)
    BY <1>14, <2>1, Places DEF WriteProfile
  <2> QED
    BY <1>1, <1>2, <1>3, <1>14, <2>1, <2>2 DEF WriteProfile, Typed, table, PlainTypes
<1>15. CASE WriteProfileFails(t)
  <2>1. \E c \in Calls : Goto(t, c)
    BY <1>15, Places DEF WriteProfileFails
  <2> QED
    BY <1>1, <1>2, <1>3, <1>15, <2>1 DEF WriteProfileFails, Typed, table, files, PlainTypes
<1>16. CASE ListMemories(t)
  <2>1. call[t].memories \in SUBSET Contents /\ call[t].memories \ Stored \in SUBSET Contents
    BY <1>1, <1>16, InPlace DEF ListMemories
  <2>2. \E c \in Calls : Goto(t, c)
    BY <1>16, <2>1, Places DEF ListMemories
  <2>3. bounds' = bounds \/ Fails
    BY <1>16 DEF ListMemories
  <2> QED
    BY <1>1, <1>2, <1>3, <1>16, <2>2, <2>3 DEF ListMemories, Typed, table, files, PlainTypes
<1>17. CASE AddMemory(t)
  <2>1. call[t].memories \subseteq Contents /\ call[t] = [at |-> call[t].at, memories |-> call[t].memories]
        /\ call[t].at = "add"
    BY <1>1, <1>17, InPlace DEF AddMemory
  <2>2. PlainTypes'
    BY <1>1, <1>17 DEF AddMemory, files, PlainTypes
  <2>3. CASE Goto(t, Idle) /\ UNCHANGED <<rows, lastId, bounds>>
    BY <1>2, <1>3, <2>2, <2>3, Places DEF Typed
  <2>4. ASSUME NEW c \in call[t].memories, Goto(t, [call[t] EXCEPT !.memories = @ \ {c}]),
               \/ Insert(c, "auto", "review") /\ UNCHANGED bounds
               \/ Fails /\ UNCHANGED <<rows, lastId>>
        PROVE  Typed(t)
    <3>1. [call[t] EXCEPT !.memories = @ \ {c}] = [at |-> "add", memories |-> call[t].memories \ {c}]
      BY <2>1
    <3>2. [at |-> "add", memories |-> call[t].memories \ {c}] \in Calls'
      BY <2>1 DEF Calls
    <3>3. RowTypes' /\ lastId' \in Nat /\ lastId' >= lastId
      BY <1>1, <2>1, <2>4, RowsTyped
    <3>4. \E d \in Calls' : Goto(t, d)
      BY <2>4, <3>1, <3>2
    <3> QED
      BY <2>2, <2>4, <3>3, <3>4 DEF Typed
  <2> QED
    BY <1>17, <2>3, <2>4 DEF AddMemory
<1>18. CASE Add(t)
  <2>1. RowTypes' /\ lastId' \in Nat /\ lastId' >= lastId
    BY <1>1, <1>18, RowsTyped DEF Add
  <2> QED
    BY <1>1, <1>18, <2>1 DEF Add, Typed, files, PlainTypes
<1>19. CASE Select(t)
  <2>1. PICK doomed \in SUBSET {r \in rows : r.level # "permanent"} :
          Goto(t, [at |-> "delete", ids |-> {r.id : r \in doomed}])
    BY <1>19 DEF Select
  <2>2. {r.id : r \in doomed} \in SUBSET (1 .. lastId)
    BY DEF IdInv, IdsOK
  <2>3. \E c \in Calls : Goto(t, c)
    BY <2>1, <2>2, Places
  <2> QED
    BY <1>1, <1>2, <1>3, <1>19, <2>3 DEF Select, Typed, table, files, PlainTypes
<1>20. CASE Delete(t)
  <2>1. \E c \in Calls : Goto(t, c)
    BY <1>20, Places DEF Delete
  <2>2. PlainTypes' /\ rows' \subseteq rows /\ lastId' = lastId /\ bounds' = bounds
    BY <1>1, <1>20 DEF Delete, files, PlainTypes
  <2> QED
    BY <1>2, <1>3, <2>1, <2>2 DEF Typed
<1>21. CASE Propose(t)
  <2>1. \E c \in Calls : Goto(t, c)
    BY <1>21, Places DEF Propose
  <2> QED
    BY <1>1, <1>2, <1>3, <1>21, <2>1 DEF Propose, Typed, table, files, PlainTypes
<1>22. CASE Ask(t)
  <2>1. call[t].content \in Contents
    BY <1>1, <1>22, InPlace DEF Ask
  <2>2. \E c \in Calls : Goto(t, c)
    BY <1>22, Places DEF Ask
  <2> QED
    BY <1>1, <1>2, <1>3, <1>22, <2>1, <2>2 DEF Ask, Typed, table, files, PlainTypes
<1>23. CASE Answer(t)
  <2>1. pending[home[t]] \in Contents
    BY <1>1, <1>23 DEF Answer, PlainTypes
  <2>2. PICK yes \in BOOLEAN :
          /\ Goto(t, [at |-> "clear", content |-> pending[home[t]], yes |-> yes])
          /\ owed' = IF yes THEN owed \cup {pending[home[t]]} ELSE owed
    BY <1>23 DEF Answer
  <2>3. \E c \in Calls : Goto(t, c)
    BY <2>1, <2>2, Places, Zenon
  <2>4. owed' \subseteq Contents
    BY <1>1, <2>1, <2>2 DEF PlainTypes
  <2> QED
    BY <1>1, <1>2, <1>3, <1>23, <2>3, <2>4 DEF Answer, Typed, table, files, PlainTypes
<1>24. CASE Clear(t)
  <2>1. call[t].content \in Contents
    BY <1>1, <1>24, InPlace DEF Clear
  <2>2. \E c \in Calls : Goto(t, c)
    BY <1>24, <2>1, Places DEF Clear
  <2> QED
    BY <1>1, <1>2, <1>3, <1>24, <2>2 DEF Clear, Typed, table, files, PlainTypes
<1>25. CASE Save(t)
  <2>1. call[t].content \in Contents
    BY <1>1, <1>25, InPlace DEF Save
  <2>2. RowTypes' /\ lastId' \in Nat /\ lastId' >= lastId
    BY <1>1, <1>25, <2>1, RowsTyped DEF Save
  <2>3. Goto(t, Idle) /\ Idle \in Calls'
    BY <1>25 DEF Save, Calls, Idle
  <2> QED
    BY <1>1, <1>25, <2>2, <2>3 DEF Save, Typed, files, PlainTypes
<1>26. CASE SaveFails(t)
  <2>1. \E c \in Calls : Goto(t, c)
    BY <1>26, Places DEF SaveFails
  <2> QED
    BY <1>1, <1>2, <1>3, <1>26, <2>1 DEF SaveFails, Typed, table, files, PlainTypes
<1> QED
  BY <1>4, <1>5, <1>6, <1>7, <1>8, <1>9, <1>10, <1>11, <1>12, <1>13, <1>14, <1>15, <1>16, <1>17,
     <1>18, <1>19, <1>20, <1>21, <1>22, <1>23, <1>24, <1>25, <1>26 DEF Call

LEMMA NextTypes == IdInv /\ CoreTypes /\ HistoryTypes /\ [Next]_vars => CoreTypes' /\ HistoryTypes'
<1> SUFFICES ASSUME IdInv, CoreTypes, HistoryTypes, [Next]_vars PROVE CoreTypes' /\ HistoryTypes'
  OBVIOUS
<1>1. CASE UNCHANGED vars
  <2>1. Calls' = Calls
    BY <1>1 DEF vars, table, Calls
  <2> QED
    BY <1>1, <2>1 DEF vars, table, files, bounds, CoreTypes, PlainTypes, RowTypes, RowOK, BoundsOK, HistoryTypes
<1>2. ASSUME NEW t \in Threads, Call(t) PROVE CoreTypes'
  <2>1. Typed(t)
    BY <1>2, EveryCallTyped
  <2>2. call' \in [Threads -> Calls']
    BY <2>1, CallTyped DEF Typed
  <2>3. BoundsOK'
    BY <2>1, BoundsKept DEF Typed, CoreTypes
  <2> QED
    BY <2>1, <2>2, <2>3 DEF Typed, CoreTypes
<1>3. ASSUME NEW p \in Procs, Crash(p) PROVE CoreTypes'
  <2>1. Calls' = Calls /\ rows' = rows /\ lastId' = lastId
    BY <1>3 DEF Crash, table, Calls
  <2>2. call' \in [Threads -> Calls']
    BY <1>3, <2>1, Places DEF Crash, CoreTypes
  <2>3. PlainTypes'
    BY <1>3 DEF Crash, CoreTypes, PlainTypes, files
  <2>4. BoundsOK'
    BY <1>3, UserMemoryAssumption DEF Crash, CoreTypes, BoundsOK
  <2> QED
    BY <2>1, <2>2, <2>3, <2>4 DEF CoreTypes, RowTypes, RowOK
<1>4. ASSUME CoreTypes', Observe PROVE HistoryTypes'
  <2>1. user' \subseteq Facts /\ \A r \in rows' : r.content \in Contents
    BY <1>4 DEF CoreTypes, PlainTypes, RowTypes, RowOK
  <2>2. moved' \subseteq Contents
    BY <1>4, <2>1 DEF Observe, HistoryTypes
  <2>3. kept' \subseteq Facts
    BY <1>4, <2>1 DEF Observe, HistoryTypes
  <2>4. events' \subseteq Events
    BY <1>4 DEF Observe, HistoryTypes, Events
  <2> QED
    BY <2>2, <2>3, <2>4 DEF HistoryTypes
<1> QED
  BY <1>1, <1>2, <1>3, <1>4 DEF Next, Quiet

(* Every call, exception and kill leaves the table, the files, the slots   *)
(* and what the threads have in hand in their types, and an id names one   *)
(* row.                                                                    *)
THEOREM TypeCorrect == Spec => []TypeOK
<1>1. IdInv /\ CoreTypes /\ HistoryTypes => TypeOK
  BY DEF IdInv, IdsOK, CoreTypes, PlainTypes, RowTypes, BoundsOK, HistoryTypes, TypeOK
<1> QED
  BY <1>1, InitTypes, NextTypes, IdsHold, PTL DEF Spec
================================================================================
