------------------------------- MODULE UserMemory -------------------------------
(***************************************************************************)
(* What the agent remembers of its user: the table of memories and its     *)
(* one-time migration (memory/core/builtin_provider.py), USER.md, which    *)
(* reviews rewrite (memory/learning/review_adapter.py), and the proposal   *)
(* that waits for /confirm (tools/agent_tools.py, core/agent.py).          *)
(*                                                                         *)
(* Callers are threads: the gateway's, the Telegram bot's, a review's.     *)
(* Threads of one process share the slot of the proposal, and all share    *)
(* the files.  A step is one SQL statement outside a transaction, one      *)
(* transaction from its first write on, or one operation on a file.        *)
(***************************************************************************)
EXTENDS Integers, Sequences, FiniteSets

CONSTANTS
    Threads, Procs,
    Contents,       (* what a memory may say *)
    Lines,          (* the bullets of MEMORY.md, in order *)
    Facts,          (* what USER.md may say *)
    Reviews,        (* what a review may extract from a conversation *)
    None,           (* no proposal *)
    MaxCalls, MaxFaults, MaxCrashes     (* bounds: begun calls, exceptions, killed processes *)

ASSUME UserMemoryAssumption ==
    /\ Lines \in Seq(Contents)
    /\ \A i, j \in DOMAIN Lines : Lines[i] = Lines[j] => i = j
    /\ Reviews \subseteq [facts : SUBSET Facts, memories : SUBSET Contents]
    /\ None \notin Contents /\ IsFiniteSet(Threads) /\ Threads # {}
    /\ MaxCalls \in Nat /\ MaxFaults \in Nat /\ MaxCrashes \in Nat

VARIABLES
    home,       (* the process each thread lives in *)
    rows,       (* the table memories *)
    lastId,     (* the largest id ever given: the column is AUTOINCREMENT *)
    flag,       (* .migrated exists *)
    exists,     (* USER.md exists *)
    user,       (* the facts in USER.md *)
    pending,    (* _PENDING_MEMORY, per process *)
    call,       (* per thread: where it is in its call, with its live locals *)
    calls, faults, crashes,     (* so far *)
    asked,      (* history, per thread: the proposal its user was last asked about *)
    owed,       (* history: contents a user has confirmed and no save has stored since *)
    moved,      (* history: lines a migration has inserted *)
    kept,       (* history: facts that were in USER.md *)
    events      (* history: which of Events have happened *)

table  == <<rows, lastId>>
files  == <<flag, exists, user>>
bounds == <<calls, faults, crashes>>
vars   == <<home, table, files, pending, call, bounds, asked, owed, moved, kept, events>>

Stored  == {r.content : r \in rows}

(* line is the bullet a migration is at; ids are the rows a delete or a    *)
(* prune has decided on.                                                   *)
Idle  == [at |-> "idle"]
Calls == [at : {"idle", "flag", "profile", "create"}]
    \cup [at : {"lines", "insert"}, line : 1 .. Len(Lines) + 1]
    \cup [at : {"open", "write"}, facts : SUBSET Facts, memories : SUBSET Contents]
    \cup [at : {"list", "add"}, memories : SUBSET Contents]
    \cup [at : {"delete"}, ids : SUBSET (1 .. lastId)]
    \cup [at : {"propose", "save"}, content : Contents]
    \cup [at : {"clear"}, content : Contents, yes : BOOLEAN]

Init ==
    /\ home \in [Threads -> Procs]
    /\ rows = {} /\ lastId = 0 /\ flag = FALSE /\ exists = FALSE /\ user = {}
    /\ pending = [p \in Procs |-> None] /\ call = [t \in Threads |-> Idle]
    /\ calls = 0 /\ faults = 0 /\ crashes = 0
    /\ asked = [t \in Threads |-> None] /\ owed = {}
    /\ moved = {} /\ kept = {} /\ events = {}

Goto(t, c) == call' = [call EXCEPT ![t] = c]
Enter(t)   == /\ call[t] = Idle /\ calls < MaxCalls /\ calls' = calls + 1
              /\ UNCHANGED <<faults, crashes>>
Fails      == faults < MaxFaults /\ faults' = faults + 1 /\ UNCHANGED <<calls, crashes>>

(* The id a row that is inserted gets; the mutant gives ids again.         *)
FreeIdReused == IF rows = {} THEN 1
                ELSE 1 + (CHOOSE i \in {r.id : r \in rows} : \A r \in rows : r.id <= i)
FreeId == lastId + 1

Insert(content, level, by) ==
    /\ rows' = rows \cup {[id |-> FreeId, content |-> content, level |-> level, by |-> by]}
    /\ lastId' = FreeId

(* What a migration that is at line i still has to insert.  It has checked *)
(* line i already; it checks the later ones holding the write lock.        *)
FreshUnchecked(i) == i .. Len(Lines)    (* mutant *)
Fresh(i) == {i} \cup {j \in i + 1 .. Len(Lines) : Lines[j] \notin Stored}

--------------------------------------------------------------------------------
(* Mutants: each is the definition it is named after with a plausible bug  *)
(* in it.  They are not part of the specification.                         *)

(* The flag is not looked at.                                              *)
CheckFlagIgnored(t) ==
    /\ Enter(t) /\ Goto(t, [at |-> "lines", line |-> 1])
    /\ UNCHANGED <<home, table, files, pending, asked, owed>>

(* Every row of a migration gets the same id.                              *)
MigrateOneId(t) ==
    /\ call[t].at = "insert" /\ Goto(t, [at |-> "flag"])
    /\ rows' = rows \cup {[id |-> FreeId, content |-> Lines[j], level |-> "auto", by |-> "migration"] :
                             j \in Fresh(call[t].line)}
    /\ lastId' = FreeId
    /\ UNCHANGED <<home, files, pending, bounds, asked, owed>>

(* The file is rewritten with the new facts only.                          *)
ReadProfileForgets(t) ==
    /\ Enter(t)
    /\ \E r \in Reviews :
          Goto(t, IF r.facts \subseteq user THEN [at |-> "list", memories |-> r.memories]
                  ELSE [at |-> "open", facts |-> r.facts, memories |-> r.memories])
    /\ UNCHANGED <<home, table, files, pending, asked, owed>>

(* memory_add empties the slot before it knows the write level.            *)
AddClears(t) ==
    /\ Enter(t) /\ UNCHANGED call
    /\ \E c \in Contents, level \in {"auto", "permanent"} : Insert(c, level, "tool")
    /\ pending' = [pending EXCEPT ![home[t]] = None]
    /\ UNCHANGED <<home, files, asked, owed>>

(* The proposal is read again when it is saved, not copied before.         *)
SaveFromSlot(t) ==
    /\ call[t].at = "save" /\ Goto(t, Idle)
    /\ IF pending[home[t]] = None THEN UNCHANGED <<rows, lastId, owed>>
       ELSE Insert(pending[home[t]], "auto", "user") /\ owed' = owed \ {pending[home[t]]}
    /\ UNCHANGED <<home, files, pending, bounds, asked>>

--------------------------------------------------------------------------------
(* initialize: migrate_from_md, then a USER.md if there is none.  An agent, *)
(* the tools and the simulation engine each do it with a provider of their  *)
(* own, in any process.                                                     *)

CheckFlag(t) ==
    /\ Enter(t)
    /\ Goto(t, IF flag THEN [at |-> "profile"] ELSE [at |-> "lines", line |-> 1])
    /\ UNCHANGED <<home, table, files, pending, asked, owed>>

(* Up to the first line that is missing, each look is a read of its own.   *)
CheckLine(t) ==
    /\ call[t].at = "lines"
    /\ LET i == call[t].line IN
          Goto(t, IF i > Len(Lines) THEN [at |-> "flag"]
                  ELSE IF Lines[i] \in Stored THEN [at |-> "lines", line |-> i + 1]
                  ELSE [at |-> "insert", line |-> i])
    /\ UNCHANGED <<home, table, files, pending, bounds, asked, owed>>

(* The first INSERT takes the write lock and keeps it to the commit.       *)
Migrate(t) ==
    /\ call[t].at = "insert" /\ Goto(t, [at |-> "flag"])
    /\ LET new == Fresh(call[t].line) IN
          /\ rows' = rows \cup
                 {[id |-> lastId + Cardinality({k \in new : k <= j}), content |-> Lines[j],
                   level |-> "auto", by |-> "migration"] : j \in new}
          /\ lastId' = lastId + Cardinality(new)
    /\ UNCHANGED <<home, files, pending, bounds, asked, owed>>

SetFlag(t) ==
    /\ call[t].at = "flag" /\ Goto(t, [at |-> "profile"]) /\ flag' = TRUE
    /\ UNCHANGED <<home, rows, lastId, exists, user, pending, bounds, asked, owed>>

(* A read, the transaction or the write of the flag raises: "will retry    *)
(* next init".                                                             *)
MigrationRaises(t) ==
    /\ call[t].at \in {"lines", "insert", "flag"} /\ Fails /\ Goto(t, [at |-> "profile"])
    /\ UNCHANGED <<home, table, files, pending, asked, owed>>

CheckProfile(t) ==
    /\ call[t].at = "profile"
    /\ Goto(t, IF ~exists THEN [at |-> "create"] ELSE Idle)
    /\ UNCHANGED <<home, table, files, pending, bounds, asked, owed>>

(* Opened for writing, the file loses whatever it has by now.              *)
CreateProfile(t) ==
    /\ call[t].at = "create" /\ Goto(t, Idle) /\ exists' = TRUE /\ user' = {}
    /\ UNCHANGED <<home, table, flag, pending, bounds, asked, owed>>

--------------------------------------------------------------------------------
(* run_review, once the model has answered: _append_user_facts rewrites    *)
(* USER.md when there is something new, then _add_memories.                *)

ReadProfile(t) ==
    /\ Enter(t)
    /\ \E r \in Reviews :
          Goto(t, IF r.facts \subseteq user THEN [at |-> "list", memories |-> r.memories]
                  ELSE [at |-> "open", facts |-> user \cup r.facts, memories |-> r.memories])
    /\ UNCHANGED <<home, table, files, pending, asked, owed>>

(* A file that cannot be read is taken for an empty one.                   *)
ReadProfileFails(t) ==
    /\ call[t] = Idle /\ calls < MaxCalls /\ faults < MaxFaults
    /\ calls' = calls + 1 /\ faults' = faults + 1
    /\ \E r \in Reviews :
          /\ r.facts # {}
          /\ Goto(t, [at |-> "open", facts |-> r.facts, memories |-> r.memories])
    /\ UNCHANGED <<home, table, files, pending, crashes, asked, owed>>

(* write_text truncates the file ...                                       *)
OpenProfile(t) ==
    /\ call[t].at = "open" /\ Goto(t, [call[t] EXCEPT !.at = "write"]) /\ exists' = TRUE /\ user' = {}
    /\ UNCHANGED <<home, table, flag, pending, bounds, asked, owed>>

(* ... and writes it.                                                      *)
WriteProfile(t) ==
    /\ call[t].at = "write" /\ user' = call[t].facts
    /\ Goto(t, [at |-> "list", memories |-> call[t].memories])
    /\ UNCHANGED <<home, table, flag, exists, pending, bounds, asked, owed>>

(* Opening or writing the file raises: the review, or initialize, ends.    *)
WriteProfileFails(t) ==
    /\ call[t].at \in {"open", "write", "create"} /\ Fails /\ Goto(t, Idle)
    /\ UNCHANGED <<home, table, files, pending, asked, owed>>

(* Duplicates are told by one listing, made before the first insert; when  *)
(* it raises nothing is taken for a duplicate.                             *)
ListMemories(t) ==
    /\ call[t].at = "list"
    /\ \/ /\ Goto(t, [at |-> "add", memories |-> call[t].memories \ Stored]) /\ UNCHANGED bounds
       \/ /\ Fails /\ Goto(t, [at |-> "add", memories |-> call[t].memories])
    /\ UNCHANGED <<home, table, files, pending, asked, owed>>

(* A memory whose insert raises is passed over.                            *)
AddMemory(t) ==
    /\ call[t].at = "add"
    /\ \/ /\ call[t].memories = {} /\ Goto(t, Idle) /\ UNCHANGED <<rows, lastId, bounds>>
       \/ \E c \in call[t].memories :
             /\ Goto(t, [call[t] EXCEPT !.memories = @ \ {c}])
             /\ \/ Insert(c, "auto", "review") /\ UNCHANGED bounds
                \/ Fails /\ UNCHANGED <<rows, lastId>>
    /\ UNCHANGED <<home, files, pending, asked, owed>>

--------------------------------------------------------------------------------
(* The memory tools.                                                       *)

Add(t) ==
    /\ Enter(t) /\ UNCHANGED call
    /\ \E c \in Contents, level \in {"auto", "permanent"} : Insert(c, level, "tool")
    /\ UNCHANGED <<home, files, pending, asked, owed>>

(* delete_entry looks the row up, prune_weak lists the rows; a permanent   *)
(* one is refused or passed over.  How weak a row is depends on its weight *)
(* and age: any row may be.                                                *)
Select(t) ==
    /\ Enter(t)
    /\ \E doomed \in SUBSET {r \in rows : r.level # "permanent"} :
          doomed # {} /\ Goto(t, [at |-> "delete", ids |-> {r.id : r \in doomed}])
    /\ UNCHANGED <<home, table, files, pending, asked, owed>>

(* The rows go by their id.                                                *)
Delete(t) ==
    /\ call[t].at = "delete" /\ Goto(t, Idle)
    /\ rows' = {r \in rows : r.id \notin call[t].ids}
    /\ UNCHANGED <<home, lastId, files, pending, bounds, asked, owed>>

(* memory_add with write_level confirm: the slot is emptied ...            *)
Propose(t) ==
    /\ Enter(t)
    /\ \E c \in Contents : Goto(t, [at |-> "propose", content |-> c])
    /\ pending' = [pending EXCEPT ![home[t]] = None]
    /\ asked' = [asked EXCEPT ![t] = None]
    /\ UNCHANGED <<home, table, files, owed>>

(* ... and filled, and the user is asked to reply /confirm or /discard.    *)
Ask(t) ==
    /\ call[t].at = "propose" /\ Goto(t, Idle)
    /\ pending' = [pending EXCEPT ![home[t]] = call[t].content]
    /\ asked' = [asked EXCEPT ![t] = call[t].content]
    /\ UNCHANGED <<home, table, files, bounds, owed>>

(* _handle_memory_confirm copies the proposal, empties the slot and, for   *)
(* /confirm, saves the copy.                                               *)
Answer(t) ==
    /\ Enter(t) /\ pending[home[t]] # None
    /\ \E yes \in BOOLEAN :
          /\ Goto(t, [at |-> "clear", content |-> pending[home[t]], yes |-> yes])
          /\ owed' = IF yes THEN owed \cup {pending[home[t]]} ELSE owed
    /\ UNCHANGED <<home, table, files, pending, asked>>

Clear(t) ==
    /\ call[t].at = "clear"
    /\ Goto(t, IF call[t].yes THEN [at |-> "save", content |-> call[t].content] ELSE Idle)
    /\ pending' = [pending EXCEPT ![home[t]] = None]
    /\ asked' = [asked EXCEPT ![t] = None]
    /\ UNCHANGED <<home, table, files, bounds, owed>>

Save(t) ==
    /\ call[t].at = "save" /\ Goto(t, Idle)
    /\ Insert(call[t].content, "auto", "user") /\ owed' = owed \ {call[t].content}
    /\ UNCHANGED <<home, files, pending, bounds, asked>>

SaveFails(t) ==
    /\ call[t].at = "save" /\ Fails /\ Goto(t, Idle)
    /\ UNCHANGED <<home, table, files, pending, asked, owed>>

(* The process is killed; reviews run in daemon threads, which its exit    *)
(* cuts short like this.                                                   *)
Crash(p) ==
    /\ crashes < MaxCrashes /\ crashes' = crashes + 1
    /\ call' = [t \in Threads |-> IF home[t] = p THEN Idle ELSE call[t]]
    /\ pending' = [pending EXCEPT ![p] = None]
    /\ asked' = [t \in Threads |-> IF home[t] = p THEN None ELSE asked[t]]
    /\ UNCHANGED <<home, table, files, calls, faults, owed>>

--------------------------------------------------------------------------------
(* What excuses a loss below: two threads that both use USER.md, the       *)
(* migration, or the slot of one process; a USER.md that could not be read *)
(* or was cut short; a migration that committed and set no flag.           *)
Events == {"rewrites", "migrations", "shared", "unread", "cut", "unflagged"}

Rewriting(t) == call[t].at \in {"open", "write", "create"}
Migrating(t) == call[t].at \in {"lines", "insert", "flag"}
Asking(t)    == asked[t] # None \/ call[t].at \in {"propose", "clear"}

Two(Doing(_)) == \E t, u \in Threads : t # u /\ Doing(t) /\ Doing(u)
Shared == \E t, u \in Threads : t # u /\ home[t] = home[u] /\ Asking(t) /\ Asking(u)

Observe ==
    /\ moved' = moved \cup {r.content : r \in {s \in rows' : s.by = "migration"}}
    /\ kept'  = kept \cup user'
    /\ events' = events
         \cup {e \in {"rewrites"} : Two(Rewriting)'}
         \cup {e \in {"migrations"} : Two(Migrating)'}
         \cup {e \in {"shared"} : Shared'}
         \cup {e \in {"unread"} : \E t \in Threads :
                  call[t] = Idle /\ call'[t].at = "open" /\ faults' = faults + 1}
         \cup {e \in {"cut"} : \E t \in Threads :
                  call[t].at = "write" /\ call'[t].at # "write" /\ user' # call[t].facts}
         \cup {e \in {"unflagged"} : \E t \in Threads :
                  call[t].at = "flag" /\ call'[t].at # "flag" /\ ~flag'}

Call(t) ==
    \/ CheckFlag(t) \/ CheckLine(t) \/ Migrate(t) \/ SetFlag(t) \/ MigrationRaises(t)
    \/ CheckProfile(t) \/ CreateProfile(t)
    \/ ReadProfile(t) \/ ReadProfileFails(t) \/ OpenProfile(t) \/ WriteProfile(t)
    \/ WriteProfileFails(t) \/ ListMemories(t) \/ AddMemory(t)
    \/ Add(t) \/ Select(t) \/ Delete(t)
    \/ Propose(t) \/ Ask(t) \/ Answer(t) \/ Clear(t) \/ Save(t) \/ SaveFails(t)

(* Between calls nothing need happen; a refused call changes nothing.      *)
Quiet == (\A t \in Threads : call[t] = Idle) /\ UNCHANGED vars

Next == \/ ((\E t \in Threads : Call(t)) \/ (\E p \in Procs : Crash(p))) /\ Observe
        \/ Quiet

Spec == Init /\ [][Next]_vars

--------------------------------------------------------------------------------
RowOK(r) == /\ r.id \in 1 .. lastId /\ r.content \in Contents
            /\ r.level \in {"auto", "permanent"} /\ r.by \in {"migration", "review", "tool", "user"}

(* The types, and that an id names one row.                                *)
TypeOK ==
    /\ home \in [Threads -> Procs]
    /\ \A r \in rows : RowOK(r)
    /\ \A r, s \in rows : r.id = s.id => r = s
    /\ lastId \in Nat /\ flag \in BOOLEAN /\ exists \in BOOLEAN /\ user \subseteq Facts
    /\ pending \in [Procs -> Contents \cup {None}] /\ call \in [Threads -> Calls]
    /\ calls \in 0 .. MaxCalls /\ faults \in 0 .. MaxFaults /\ crashes \in 0 .. MaxCrashes
    /\ asked \in [Threads -> Contents \cup {None}] /\ owed \subseteq Contents
    /\ moved \subseteq Contents /\ kept \subseteq Facts /\ events \subseteq Events

(* "permanent: not deleted": a delete and a prune decide by the level they *)
(* read and remove by id in a later statement, while other threads delete  *)
(* rows and add permanent ones.                                            *)
PermanentStays == [][\A r \in rows : r.level = "permanent" => r \in rows']_vars

(* "once only": what a migration has inserted, no later one inserts again, *)
(* deleted meanwhile or not, unless two ran at once or one left no flag.   *)
MigratedOnce ==
    [][\A r \in rows' \ rows : r.by = "migration" /\ r.content \in moved
          => events \cap {"migrations", "unflagged"} # {}]_vars

(* While nothing is deleted, however many migrations run at once, fail or  *)
(* are repeated, the surplus is one row per thread but the first: only the *)
(* line a migration inserts first is checked outside its transaction.      *)
SurplusBounded ==
    Cardinality(rows) = lastId =>
        Cardinality({r \in rows : r.by = "migration"}) < Len(Lines) + Cardinality(Threads)

(* A fact stays in USER.md, but while a review rewrites it, and but for    *)
(* two writers at once, a file that cannot be read or a write cut short.   *)
FactsKept ==
    events \cap {"rewrites", "unread", "cut"} = {} =>
        kept \subseteq user \cup UNION {call[t].facts : t \in {u \in Threads : call[u].at = "write"}}

(* "Reply with /confirm or /discard": while the slot of a process serves   *)
(* one thread, the proposal its user was last asked about is the one that  *)
(* waits there.                                                            *)
QuestionWaits ==
    "shared" \notin events =>
        \A t \in Threads : asked[t] # None => pending[home[t]] = asked[t]

(* A memory the user confirmed gets stored, although the slot is emptied   *)
(* first and shared with other threads: each failed save loses one at most *)
(* and each killed process one per thread.                                 *)
ConfirmedSaved ==
    Cardinality(owed \ {call[t].content : t \in {u \in Threads : call[u].at \in {"clear", "save"}}})
        <= faults + crashes * Cardinality(Threads)
================================================================================
