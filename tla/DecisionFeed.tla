------------------------------ MODULE DecisionFeed ------------------------------
(***************************************************************************)
(* SimCore's decision log and its way into the agent's memory.             *)
(*                                                                         *)
(* Oracles append decisions to decisions.jsonl (the embedded core inside   *)
(* the gateway, the v2 backend in a process of its own), feedback rewrites *)
(* the whole file, and simcore_sync_decisions feeds what is newer than a   *)
(* marker file to the memory and to Telegram.  Nothing is locked: a file   *)
(* is read at once, and written by a truncation followed by a write.       *)
(* Times are whole seconds.  What a decision says is abstracted to what    *)
(* _feed_one_decision makes of it: a usable one goes to the memory, a mute *)
(* one (no verdict) nowhere, a malformed one (the model's JSON is no       *)
(* object, or its confidence no number) raises.  Outcomes are not read by  *)
(* the feed.                                                               *)
(***************************************************************************)
EXTENDS Integers, Sequences, FiniteSets, SequencesExt, FiniteSetsExt

CONSTANTS
    Oracles,        (* cycles that end in a decision, one at a time each *)
    Raters,         (* callers of feedback *)
    Syncers,        (* callers of simcore_sync_decisions: the gateway's one HTTP thread, and the
                       deep dreaming every process with a memory starts on Sunday at 2 *)
    Processes,      (* which of the three die together: the gateway, v2, each other process *)
    Kinds,          (* of decisions the model gives: usable, mute, malformed *)
    MaxDecisions, MaxRewrites, MaxFaults, MaxCrashes, MaxOverlaps, MaxFed, MaxNow   (* bounds *)

ASSUME FeedAssumption ==
    /\ IsFiniteSet(Syncers)
    /\ Processes \subseteq SUBSET (Oracles \cup Raters \cup Syncers)
    /\ Kinds \subseteq {"usable", "mute", "malformed"}
    /\ MaxDecisions \in Nat /\ MaxRewrites \in Nat /\ MaxFaults \in Nat
    /\ MaxCrashes \in Nat /\ MaxOverlaps \in Nat /\ MaxNow \in Nat \ {0}
    /\ MaxFed \in Nat /\ MaxFed > 1 + MaxCrashes + MaxFaults + MaxOverlaps

VARIABLES
    now,        (* int(time.time()) *)
    made,       (* decisions taken so far, the number of the newest *)
    pen,        (* per oracle: the decision it has yet to save *)
    file,       (* lines of decisions.jsonl *)
    rating,     (* per rater: where it is in feedback, with the lines it read *)
    marker,     (* the marker file: Missing, 0 when empty, else a time *)
    sync,       (* per syncer: where it is, with its live locals *)
    fed,        (* history: how often each decision was put into the memory *)
    said,       (* history: the decisions appended to the log *)
    risked,     (* history: those a feedback under way may have overwritten, or was cut off with *)
    forgone,    (* history: those a sync may pass over, see NoneSkipped *)
    mixed,      (* history: two feedbacks were under way at once *)
    rewrites, faults, crashes, overlaps   (* calls of feedback, writes that failed, processes
                   that died, syncs begun while another was under way *)

logVars  == <<made, pen, file, said>>
rateVars == <<rating, risked, mixed, rewrites>>
feedVars == <<marker, sync, fed, overlaps>>
vars == <<now, logVars, rateVars, feedVars, forgone, faults, crashes>>

Missing == -1
Ids     == 1 .. MaxDecisions
Entries == [id : Ids, ts : 1 .. MaxNow, kind : Kinds]
Idle    == [at |-> "idle"]

Lines(s) == {s[i] : i \in DOMAIN s}
Latest(lines) == Max({lines[i].ts : i \in DOMAIN lines})
ValueRead == IF marker = Missing THEN 0 ELSE marker
IdsOf(entries) == {e.id : e \in entries}

InFlight == {s \in Syncers : sync[s] # Idle}
LatestRead(s) == IF sync[s].at = "marker" THEN Latest(sync[s].lines) ELSE sync[s].latest

Init ==
    /\ now = 1 /\ made = 0 /\ pen = [o \in Oracles |-> Idle] /\ file = <<>> /\ said = {}
    /\ rating = [r \in Raters |-> Idle] /\ risked = {} /\ mixed = FALSE /\ rewrites = 0
    /\ marker = Missing /\ sync = [s \in Syncers |-> Idle] /\ fed = [d \in Ids |-> 0]
    /\ forgone = {} /\ faults = 0 /\ crashes = 0 /\ overlaps = 0

Goto(s, local) == sync' = [sync EXCEPT ![s] = local]

(* The history counts up to MaxFed, more than the properties tell apart.   *)
FedOnceMore(d) == [fed EXCEPT ![d] = IF @ < MaxFed THEN @ + 1 ELSE @]

(* Mutants of the next one: entries of the marker's own second are new, or *)
(* those of the second after it are not.                                   *)
NewerOrSame(lines, t) == SelectSeq(lines, LAMBDA e : e.ts >= t)
NewerByTwo(lines, t) == SelectSeq(lines, LAMBDA e : e.ts > t + 1)
Newer(lines, t) ==
    LET kept[i \in 0 .. Len(lines)] ==
          IF i = 0 THEN <<>>
          ELSE IF lines[i].ts > t THEN Append(kept[i - 1], lines[i]) ELSE kept[i - 1]
    IN  kept[Len(lines)]

--------------------------------------------------------------------------------
(* Mutants: each is the definition it is named after with a plausible bug  *)
(* in it.  They are not part of the specification.                         *)

(* feedback keeps the lines it can rate only.                              *)
ReadForFeedbackRated(r) ==
    /\ rating[r] = Idle /\ said # {} /\ rewrites < MaxRewrites
    /\ rewrites' = rewrites + 1
    /\ rating' = [rating EXCEPT ![r] =
                   [at |-> "truncate", lines |-> SelectSeq(file, LAMBDA e : e.kind # "malformed")]]
    /\ IF \E q \in Raters : rating[q] # Idle THEN risked' = said /\ mixed' = TRUE
                                             ELSE UNCHANGED <<risked, mixed>>
    /\ UNCHANGED <<now, logVars, feedVars, forgone, faults, crashes>>

(* The marker is set one second ahead.                                     *)
PutMarkerAhead(s) ==
    /\ sync[s].at = "put" /\ marker' = sync[s].latest + 1 /\ Goto(s, Idle)
    /\ UNCHANGED <<now, logVars, rateVars, fed, overlaps, forgone, faults, crashes>>

(* The marker is the time of the sync, not of the newest line it read.     *)
PutMarkerNow(s) ==
    /\ sync[s].at = "put" /\ marker' = now /\ Goto(s, Idle)
    /\ UNCHANGED <<now, logVars, rateVars, fed, overlaps, forgone, faults, crashes>>

--------------------------------------------------------------------------------
(* The oracles.                                                            *)

(* A cycle ends in a decision, stamped with the second it was taken in.    *)
Decide(o) ==
    /\ made < MaxDecisions /\ pen[o] = Idle
    /\ made' = made + 1
    /\ \E kind \in Kinds : pen' = [pen EXCEPT ![o] = [id |-> made + 1, ts |-> now, kind |-> kind]]
    /\ UNCHANGED <<now, file, said, rateVars, feedVars, forgone, faults, crashes>>

(* _save_decision appends its line, or fails and the line is never there.  *)
(* A sync may have a time as late already: then none will feed it.         *)
SaveDecision(o) ==
    /\ pen[o] # Idle
    /\ pen' = [pen EXCEPT ![o] = Idle]
    /\ \/ /\ file' = Append(file, pen[o]) /\ said' = said \cup {pen[o]}
          /\ risked' = IF \E r \in Raters : rating[r] # Idle THEN risked \cup {pen[o]} ELSE risked
          /\ forgone' = IF marker >= pen[o].ts \/ \E s \in InFlight : LatestRead(s) >= pen[o].ts
                        THEN forgone \cup {pen[o].id} ELSE forgone
       \/ UNCHANGED <<file, said, risked, forgone>>
    /\ UNCHANGED <<now, made, rating, mixed, rewrites, feedVars, faults, crashes>>

--------------------------------------------------------------------------------
(* feedback reads the lines, ...                                           *)
ReadForFeedback(r) ==
    /\ rating[r] = Idle /\ said # {} /\ rewrites < MaxRewrites
    /\ rewrites' = rewrites + 1
    /\ rating' = [rating EXCEPT ![r] = [at |-> "truncate", lines |-> file]]
    /\ IF \E q \in Raters : rating[q] # Idle THEN risked' = said /\ mixed' = TRUE
                                             ELSE UNCHANGED <<risked, mixed>>
    /\ UNCHANGED <<now, logVars, feedVars, forgone, faults, crashes>>

(* ... opens the file for writing, which empties it, ...                   *)
TruncateLog(r) ==
    /\ rating[r].at = "truncate"
    /\ file' = <<>>
    /\ rating' = [rating EXCEPT ![r].at = "write"]
    /\ UNCHANGED <<now, made, pen, said, risked, mixed, rewrites, feedVars, forgone, faults, crashes>>

(* ... and writes them from the start of the file, over the line appended  *)
(* since, if any; of several, later ones may outlive the rewrite.          *)
Overwritten(lines, over) == lines \o SubSeq(file, over + 1, Len(file))

WriteLog(r) ==
    /\ rating[r].at = "write"
    /\ \E over \in (IF file = <<>> THEN {0} ELSE 1 .. Len(file)) :
         file' = Overwritten(rating[r].lines, over)
    /\ rating' = [rating EXCEPT ![r] = Idle]
    /\ UNCHANGED <<now, made, pen, said, risked, mixed, rewrites, feedVars, forgone, faults, crashes>>

(* The write fails (no space, or an outcome that cannot be encoded): v1    *)
(* raises, v2 logs it, and what was not written is gone.                   *)
WriteLogFails(r) ==
    /\ rating[r].at = "write" /\ faults < MaxFaults /\ faults' = faults + 1
    /\ \E part \in 0 .. Len(rating[r].lines), over \in 0 .. Len(file) :
         file' = Overwritten(SubSeq(rating[r].lines, 1, part), over)
    /\ rating' = [rating EXCEPT ![r] = Idle]
    /\ risked' = risked \cup Lines(rating[r].lines)
    /\ UNCHANGED <<now, made, pen, said, mixed, rewrites, feedVars, forgone, crashes>>

--------------------------------------------------------------------------------
(* simcore_sync_decisions.                                                 *)

(* What is not in the log now, emptied or lost, this sync may pass over.   *)
ReadLog(s) ==
    /\ sync[s] = Idle
    /\ \/ file = <<>> /\ UNCHANGED <<sync, overlaps, forgone>>
       \/ /\ file # <<>> /\ Goto(s, [at |-> "marker", lines |-> file])
          /\ IF InFlight = {} THEN UNCHANGED overlaps
                              ELSE overlaps < MaxOverlaps /\ overlaps' = overlaps + 1
          /\ forgone' = forgone \cup IdsOf(said \ Lines(file))
    /\ UNCHANGED <<now, logVars, rateVars, marker, fed, faults, crashes>>

(* No marker, or an empty one: nothing is fed, the marker is set to the    *)
(* newest line.                                                            *)
NoMarker(s) ==
    /\ sync[s].at = "marker" /\ ValueRead = 0
    /\ Goto(s, [at |-> "save", latest |-> Latest(sync[s].lines)])
    /\ forgone' = forgone \cup IdsOf(Lines(sync[s].lines))
    /\ UNCHANGED <<now, logVars, rateVars, marker, fed, overlaps, faults, crashes>>

ReadMarker(s) ==
    /\ sync[s].at = "marker" /\ ValueRead # 0
    /\ LET new == Newer(sync[s].lines, ValueRead) IN
       Goto(s, IF new = <<>> THEN Idle
               ELSE [at |-> "feed", todo |-> new, latest |-> Latest(sync[s].lines)])
    /\ UNCHANGED <<now, logVars, rateVars, marker, fed, overlaps, forgone, faults, crashes>>

(* _feed_one_decision: the memory takes a usable entry, or fails and it is *)
(* not tried again; the sync goes on to the next one either way.           *)
Feed(s) ==
    /\ sync[s].at = "feed" /\ Head(sync[s].todo).kind # "malformed"
    /\ LET e == Head(sync[s].todo)  rest == Tail(sync[s].todo) IN
       /\ \/ /\ fed' = IF e.kind = "usable" THEN FedOnceMore(e.id) ELSE fed
             /\ UNCHANGED <<faults, forgone>>
          \/ /\ e.kind = "usable" /\ faults < MaxFaults /\ faults' = faults + 1
             /\ forgone' = forgone \cup {e.id} /\ UNCHANGED fed
       /\ Goto(s, IF rest = <<>> THEN [at |-> "save", latest |-> sync[s].latest]
                  ELSE [at |-> "feed", todo |-> rest, latest |-> sync[s].latest])
    /\ UNCHANGED <<now, logVars, rateVars, marker, overlaps, crashes>>

(* A malformed entry ends the sync: the rest is not fed, the marker stays. *)
FeedRaises(s) ==
    /\ sync[s].at = "feed" /\ Head(sync[s].todo).kind = "malformed"
    /\ Goto(s, Idle)
    /\ UNCHANGED <<now, logVars, rateVars, marker, fed, overlaps, forgone, faults, crashes>>

(* _write_marker: the file is emptied, then written.                       *)
EmptyMarker(s) ==
    /\ sync[s].at = "save" /\ marker' = 0
    /\ Goto(s, [at |-> "put", latest |-> sync[s].latest])
    /\ UNCHANGED <<now, logVars, rateVars, fed, overlaps, forgone, faults, crashes>>

PutMarker(s) ==
    /\ sync[s].at = "put" /\ marker' = sync[s].latest /\ Goto(s, Idle)
    /\ UNCHANGED <<now, logVars, rateVars, fed, overlaps, forgone, faults, crashes>>

(* The marker cannot be opened, or is emptied and cannot be written (a     *)
(* full disk): the error is swallowed.                                     *)
MarkerFails(s) ==
    /\ sync[s].at \in {"save", "put"} /\ faults < MaxFaults /\ faults' = faults + 1
    /\ Goto(s, Idle)
    /\ UNCHANGED <<now, logVars, rateVars, marker, fed, overlaps, forgone, crashes>>

--------------------------------------------------------------------------------
(* A process dies, with all it was about to do, and is started again.      *)
Crash(p) ==
    /\ crashes < MaxCrashes /\ crashes' = crashes + 1
    /\ pen' = [o \in Oracles |-> IF o \in p THEN Idle ELSE pen[o]]
    /\ rating' = [r \in Raters |-> IF r \in p THEN Idle ELSE rating[r]]
    /\ sync' = [s \in Syncers |-> IF s \in p THEN Idle ELSE sync[s]]
    /\ risked' = risked \cup UNION {Lines(rating[r].lines) : r \in {q \in Raters \cap p :
                                                                  rating[q].at = "write"}}
    /\ UNCHANGED <<now, made, file, said, mixed, rewrites, marker, fed, overlaps, forgone, faults>>

Tick ==
    /\ now < MaxNow /\ now' = now + 1
    /\ UNCHANGED <<logVars, rateVars, feedVars, forgone, faults, crashes>>

RewriteStep(r) == TruncateLog(r) \/ WriteLog(r) \/ WriteLogFails(r)

SyncStep(s) == \/ ReadLog(s) \/ NoMarker(s) \/ ReadMarker(s) \/ Feed(s) \/ FeedRaises(s)
               \/ EmptyMarker(s) \/ PutMarker(s) \/ MarkerFails(s)

Next ==
    \/ \E o \in Oracles : Decide(o) \/ SaveDecision(o)
    \/ \E r \in Raters : ReadForFeedback(r) \/ RewriteStep(r)
    \/ \E s \in Syncers : SyncStep(s)
    \/ \E p \in Processes : Crash(p)
    \/ Tick

(* The gateway syncs after every cycle it runs, at every look at the v2    *)
(* status, and in the weekly deep dreaming, a loop without end: a sync     *)
(* always comes again, and a sync or a rewrite begun goes on.              *)
Spec == /\ Init /\ [][Next]_vars
        /\ \A s \in Syncers : WF_vars(SyncStep(s))
        /\ \A r \in Raters : WF_vars(RewriteStep(r))

--------------------------------------------------------------------------------
(* Properties.                                                             *)

SyncOK(local) ==
    \/ local = Idle
    \/ local.at = "marker" /\ local.lines \in Seq(Entries) \ {<<>>}
    \/ local.at = "feed" /\ local.todo \in Seq(Entries) \ {<<>>} /\ local.latest \in 1 .. now
    \/ local.at \in {"save", "put"} /\ local.latest \in 1 .. now

TypeOK ==
    /\ now \in 1 .. MaxNow /\ made \in 0 .. MaxDecisions
    /\ pen \in [Oracles -> Entries \cup {Idle}] /\ file \in Seq(Entries) /\ said \subseteq Entries
    /\ \A r \in Raters : \/ rating[r] = Idle
                         \/ rating[r].at \in {"truncate", "write"} /\ rating[r].lines \in Seq(Entries)
    /\ marker \in {Missing} \cup 0 .. now /\ \A s \in Syncers : SyncOK(sync[s])
    /\ fed \in [Ids -> 0 .. MaxFed] /\ forgone \subseteq Ids /\ risked \subseteq said
    /\ mixed \in BOOLEAN /\ rewrites \in 0 .. MaxRewrites /\ faults \in 0 .. MaxFaults
    /\ crashes \in 0 .. MaxCrashes /\ overlaps \in 0 .. MaxOverlaps

(* simcore_sync_decisions feeds the memory and Telegram "once per          *)
(* decision": one comes again only when a process died or a write failed   *)
(* between feeding it and moving the marker, or for a sync that began      *)
(* while another was under way.                                            *)
OncePerDecision == \A d \in Ids : fed[d] <= 1 + crashes + faults + overlaps

(* The same as long as every line of the log can be fed and no two         *)
(* feedbacks ran at once (their writes may double a line).                 *)
Readable == \A e \in said : e.kind # "malformed"
OnceWhileReadable == Readable /\ ~mixed => OncePerDecision

(* The marker passes over no decision: every usable one at or before it    *)
(* was fed, or it is one of those that are forgone: in the log already     *)
(* when a sync found no marker or an emptied one; saved when a sync had    *)
(* its second or a later one already (another oracle's, or the same        *)
(* second's); not in the log, emptied or lost, when a sync read it; or its *)
(* feed failed.                                                            *)
NoneSkipped ==
    \A e \in said : e.kind = "usable" /\ e.ts <= marker /\ fed[e.id] = 0 => e.id \in forgone

(* A saved decision stays in the log, which feedback rewrites in place: it *)
(* goes only if it was saved while a feedback was under way, or two ran at *)
(* once, or the process died or the write failed once the file was empty.  *)
LogKept ==
    said \ risked \subseteq
        Lines(file) \cup UNION {Lines(rating[r].lines) : r \in {q \in Raters : rating[q].at = "write"}}

(* Every usable decision in the log reaches the memory in the end, but for *)
(* those forgone and those a feedback may have overwritten, and as long as *)
(* no malformed one stops every sync.                                      *)
EventuallyFed ==
    \A d \in Ids :
        (\E e \in said : e.id = d /\ e.kind = "usable")
            ~> (fed[d] > 0 \/ d \in forgone \cup IdsOf(risked) \/ ~Readable)
================================================================================
