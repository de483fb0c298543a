----------------------------- MODULE SessionMemory -----------------------------
(***************************************************************************)
(* memory/sqlite_store.py for one user id, with the turns that write to it *)
(* (CoBWeaverClaw.process and the dashboard's chat).                       *)
(*                                                                         *)
(* After a reply a turn saves the message, counts the topics it mentions,  *)
(* promotes topics seen often enough to a fact, and summarises the session *)
(* when enough messages came in since the last summary.  Every statement   *)
(* commits by itself, and several processes may serve one user id (two     *)
(* `main.py` messages at once share cli_user), so turns interleave between *)
(* statements.  Messages are numbered in the order of their insertion.     *)
(***************************************************************************)
EXTENDS Integers, Sequences, FiniteSets

CONSTANTS
    Writers,        (* turns in progress at once, at most *)
    Size,           (* memory_size *)
    Promote,        (* hits that make a topic a fact: 5 in the code *)
    MaxMessages     (* bound: messages saved in a behaviour *)

ASSUME SizeAssumption ==
    Size \in Nat \ {0} /\ Promote \in Nat \ {0} /\ MaxMessages \in Nat

VARIABLES
    saved,      (* messages ever saved *)
    history,    (* LAYER 1: the messages still stored, oldest first *)
    episodes,   (* LAYER 2: the messages each summary was made of, oldest summary first *)
    hits,       (* interests.hits of the one topic *)
    fact,       (* LAYER 3: the count in the topic's fact, 0 when there is none *)
    turn,       (* per writer: where it is, with its live locals *)
    events      (* history: what happened beside turns that follow one another *)

vars == <<saved, history, episodes, hits, fact, turn, events>>

(* Two turns at once; a message saved without the check for a summary; a   *)
(* turn that ends in the middle; a clear of the layers that summaries are  *)
(* made from; a clear of the facts.                                        *)
Events == {"overlap", "silent", "cut", "batches", "core"}

Idle == [at |-> "idle"]
Turns == [at : {"idle", "total"}]
    \cup [at : {"track", "hot"}, silent : BOOLEAN]
    \cup [at : {"promote"}, silent : BOOLEAN, seen : 0 .. MaxMessages]
    \cup [at : {"episodes"}, total : 0 .. MaxMessages]
    \cup [at : {"select"}]
    \cup [at : {"insert"}, batch : Seq(1 .. MaxMessages)]

Init ==
    /\ saved = 0 /\ history = <<>> /\ episodes = <<>>
    /\ hits = 0 /\ fact = 0 /\ turn = [w \in Writers |-> Idle]
    /\ events = {}

LastOf(n, s) == SubSeq(s, IF Len(s) > n THEN Len(s) - n + 1 ELSE 1, Len(s))
Goto(w, t) == turn' = [turn EXCEPT ![w] = t]
AllIdle == \A w \in Writers : turn[w] = Idle

(* A turn goes on to maybe_summarize; the dashboard's telegram_send only   *)
(* saves.                                                                  *)
Saved(silent) == IF silent THEN Idle ELSE [at |-> "total"]

--------------------------------------------------------------------------------
(* Mutants: each is the definition it is named after with a plausible bug  *)
(* in it.  They are not part of the specification.                         *)

(* The newest messages, newest first.                                      *)
SelectReversed(w) ==
    /\ turn[w].at = "select"
    /\ Goto(w, IF history = <<>> THEN Idle
               ELSE LET last == LastOf(Size, history)
                    IN  [at |-> "insert", batch |-> [i \in DOMAIN last |-> last[Len(last) + 1 - i]]])
    /\ UNCHANGED <<saved, history, episodes, hits, fact, events>>

(* The first summary is due after two batches, the second after three, ... *)
CountEpisodesLate(w) ==
    /\ turn[w].at = "episodes"
    /\ Goto(w, IF turn[w].total >= (Len(episodes) + 2) * Size THEN [at |-> "select"] ELSE Idle)
    /\ UNCHANGED <<saved, history, episodes, hits, fact, events>>

(* The summary takes one message too many.                                 *)
SelectLong(w) ==
    /\ turn[w].at = "select"
    /\ Goto(w, IF history = <<>> THEN Idle
               ELSE [at |-> "insert", batch |-> LastOf(Size + 1, history)])
    /\ UNCHANGED <<saved, history, episodes, hits, fact, events>>

(* A topic is promoted one hit too early.                                  *)
ReadHotEarly(w) ==
    /\ turn[w].at = "hot"
    /\ Goto(w, IF hits + 1 >= Promote
               THEN [at |-> "promote", silent |-> turn[w].silent, seen |-> hits]
               ELSE Saved(turn[w].silent))
    /\ UNCHANGED <<saved, history, episodes, hits, fact, events>>

(* The fact tells the hits since the last promotion.                       *)
WriteFactDelta(w) ==
    /\ turn[w].at = "promote" /\ Goto(w, Saved(turn[w].silent))
    /\ fact' = turn[w].seen - fact
    /\ UNCHANGED <<saved, history, episodes, hits, events>>

--------------------------------------------------------------------------------
(* One turn, statement by statement.                                       *)

(* save() inserts the exchange; a message may mention the topic or not.    *)
Save(w) ==
    /\ turn[w] = Idle /\ saved < MaxMessages
    /\ saved' = saved + 1 /\ history' = Append(history, saved')
    /\ \E at \in {"track", "hot"}, silent \in BOOLEAN :
          /\ Goto(w, [at |-> at, silent |-> silent])
          /\ events' = events \cup (IF silent THEN {"silent"} ELSE {})
                              \cup (IF AllIdle THEN {} ELSE {"overlap"})
    /\ UNCHANGED <<episodes, hits, fact>>

(* _track_interest adds one hit in the database, not in the process.       *)
Track(w) ==
    /\ turn[w].at = "track" /\ Goto(w, [at |-> "hot", silent |-> turn[w].silent])
    /\ hits' = hits + 1
    /\ UNCHANGED <<saved, history, episodes, fact, events>>

(* Every topic that is hot is promoted again, mentioned or not, ...        *)
ReadHot(w) ==
    /\ turn[w].at = "hot"
    /\ Goto(w, IF hits >= Promote
               THEN [at |-> "promote", silent |-> turn[w].silent, seen |-> hits]
               ELSE Saved(turn[w].silent))
    /\ UNCHANGED <<saved, history, episodes, hits, fact, events>>

(* ... with the count that was read.                                       *)
WriteFact(w) ==
    /\ turn[w].at = "promote" /\ Goto(w, Saved(turn[w].silent))
    /\ fact' = turn[w].seen
    /\ UNCHANGED <<saved, history, episodes, hits, events>>

(* maybe_summarize counts the messages, then the summaries.                *)
CountMessages(w) ==
    /\ turn[w].at = "total"
    /\ Goto(w, [at |-> "episodes", total |-> Len(history)])
    /\ UNCHANGED <<saved, history, episodes, hits, fact, events>>

CountEpisodes(w) ==
    /\ turn[w].at = "episodes"
    /\ Goto(w, IF turn[w].total >= (Len(episodes) + 1) * Size THEN [at |-> "select"] ELSE Idle)
    /\ UNCHANGED <<saved, history, episodes, hits, fact, events>>

(* _summarize_recent takes the newest messages, if any is left.            *)
Select(w) ==
    /\ turn[w].at = "select"
    /\ Goto(w, IF history = <<>> THEN Idle
               ELSE [at |-> "insert", batch |-> LastOf(Size, history)])
    /\ UNCHANGED <<saved, history, episodes, hits, fact, events>>

InsertEpisode(w) ==
    /\ turn[w].at = "insert" /\ Goto(w, Idle)
    /\ episodes' = Append(episodes, turn[w].batch)
    /\ UNCHANGED <<saved, history, hits, fact, events>>

(* A statement raises, or the process dies: the turn ends where it is.     *)
CutShort(w) ==
    /\ turn[w] # Idle /\ Goto(w, Idle) /\ events' = events \cup {"cut"}
    /\ UNCHANGED <<saved, history, episodes, hits, fact>>

(* clear(layer), from Telegram or the dashboard, at any time.              *)
Clear(layer) ==
    /\ history' = IF layer \in {"working", "all"} THEN <<>> ELSE history
    /\ episodes' = IF layer \in {"episodic", "all"} THEN <<>> ELSE episodes
    /\ hits' = IF layer \in {"core", "all"} THEN 0 ELSE hits
    /\ fact' = IF layer \in {"core", "all"} THEN 0 ELSE fact
    /\ events' = events \cup (IF layer \in {"core", "all"} THEN {"core"} ELSE {})
                        \cup (IF layer # "core" THEN {"batches"} ELSE {})
    /\ UNCHANGED <<saved, turn>>

(* Nobody writes.                                                          *)
Quiet == AllIdle /\ UNCHANGED vars

Step(w) == \/ Save(w) \/ Track(w) \/ ReadHot(w) \/ WriteFact(w)
           \/ CountMessages(w) \/ CountEpisodes(w) \/ Select(w) \/ InsertEpisode(w)

Next == \/ \E w \in Writers : Step(w) \/ CutShort(w)
        \/ \E layer \in {"working", "episodic", "core", "all"} : Clear(layer)
        \/ Quiet

Spec == Init /\ [][Next]_vars

--------------------------------------------------------------------------------
(* The types of the three layers and of each turn's locals; nothing is     *)
(* stored that was not saved.                                              *)
TypeOK ==
    /\ saved \in 0 .. MaxMessages
    /\ history \in Seq(1 .. saved)
    /\ \A k \in DOMAIN episodes : episodes[k] \in Seq(1 .. saved) /\ Len(episodes[k]) <= Size
    /\ hits \in 0 .. MaxMessages /\ fact \in 0 .. MaxMessages
    /\ turn \in [Writers -> Turns] /\ events \subseteq Events

(* maybe_summarize: "after every memory_size new messages since the last   *)
(* summary": if the turns of the session followed one another to their     *)
(* end, none was silent and nothing was cleared, then between turns fewer  *)
(* than memory_size messages wait for a summary.                           *)
BacklogBounded ==
    AllIdle /\ events \subseteq {"core"} =>
        LET last == IF episodes = <<>> THEN 0
                    ELSE episodes[Len(episodes)][Len(episodes[Len(episodes)])]
        IN  saved - last < Size

(* Layer 2 holds "summaries of past conversations": in such a session the  *)
(* summaries tile it, each message in exactly one, in order.               *)
EpisodesTile ==
    events \subseteq {"core"} =>
        \A k \in DOMAIN episodes : episodes[k] = [i \in 1 .. Size |-> (k - 1) * Size + i]

(* Together: the summaries keep pace with the session and cover it.        *)
SessionTiled == EpisodesTile /\ BacklogBounded

(* A summary is of consecutive messages, read oldest first, whatever is    *)
(* saved or cleared while it is made.                                      *)
EpisodesConsecutive ==
    \A k \in DOMAIN episodes : \A i \in 1 .. Len(episodes[k]) - 1 :
        episodes[k][i + 1] = episodes[k][i] + 1

(* The count a fact reports is that of the topic: as long as turns follow  *)
(* one another and nobody clears the facts, it never falls behind an older *)
(* one, even if some are cut short.                                        *)
FactNeverRegresses ==
    [][fact' < fact => events' \cap {"overlap", "core"} # {}]_vars

(* However many turns promote a topic at once or are cut short, its fact   *)
(* is backed by the topic's hits, as long as nobody clears the facts.      *)
FactBacked == fact > 0 /\ "core" \notin events => fact >= Promote /\ hits >= fact
================================================================================
