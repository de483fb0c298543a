-------------------------- MODULE SessionMemoryProofs --------------------------
(***************************************************************************)
(* Theorems about SessionMemory for every number of turns at once, every   *)
(* memory_size and every promotion threshold.                              *)
(***************************************************************************)
EXTENDS SessionMemory, FiniteSetTheorems, TLAPS

--------------------------------------------------------------------------------
(* Summaries are of consecutive messages.  The history is consecutive and  *)
(* ends in the newest message, so a suffix of it is consecutive too, and   *)
(* the batch a turn holds stays what it is while others write and clear.   *)

Consecutive(s) == \A i \in 1 .. Len(s) - 1 : s[i + 1] = s[i] + 1

HistoryInv ==
    /\ saved \in Nat
    /\ history \in Seq(Nat)
    /\ Consecutive(history)
    /\ history # <<>> => history[Len(history)] = saved

TurnInv ==
    /\ DOMAIN turn = Writers
    /\ \A w \in Writers : turn[w].at = "insert" =>
          turn[w].batch \in Seq(Nat) /\ Consecutive(turn[w].batch)

EpisodesInv ==
    /\ episodes \in Seq(Seq(Nat))
    /\ \A k \in DOMAIN episodes : Consecutive(episodes[k])

ConsecutiveInv == HistoryInv /\ TurnInv /\ EpisodesInv

(* A suffix of a consecutive sequence, as _summarize_recent takes one, is  *)
(* consecutive.                                                            *)
LEMMA SuffixConsecutive ==
    ASSUME NEW s \in Seq(Nat), NEW n \in Nat, Consecutive(s)
    PROVE  LastOf(n, s) \in Seq(Nat) /\ Consecutive(LastOf(n, s))
<1> DEFINE from == IF Len(s) > n THEN Len(s) - n + 1 ELSE 1
<1>1. from \in 1 .. Len(s) + 1 /\ Len(s) \in Nat
  OBVIOUS
<1>2. LastOf(n, s) = SubSeq(s, from, Len(s))
  BY DEF LastOf
<1> HIDE DEF from
<1>3. SubSeq(s, from, Len(s)) \in Seq(Nat)
  BY <1>1
<1>4. Len(SubSeq(s, from, Len(s))) = Len(s) - from + 1
  BY <1>1
<1>5. \A i \in 1 .. Len(s) - from + 1 : SubSeq(s, from, Len(s))[i] = s[from + i - 1]
  BY <1>1
<1>6. Consecutive(SubSeq(s, from, Len(s)))
  <2> SUFFICES ASSUME NEW i \in 1 .. Len(SubSeq(s, from, Len(s))) - 1
               PROVE  SubSeq(s, from, Len(s))[i + 1] = SubSeq(s, from, Len(s))[i] + 1
    BY DEF Consecutive
  <2>1. i \in 1 .. Len(s) - from + 1 /\ i + 1 \in 1 .. Len(s) - from + 1
    BY <1>1, <1>4
  <2>2. SubSeq(s, from, Len(s))[i] = s[from + i - 1]
    BY <1>5, <2>1
  <2>3. SubSeq(s, from, Len(s))[i + 1] = s[from + (i + 1) - 1]
    BY <1>5, <2>1
  <2>4. from + i - 1 \in 1 .. Len(s) - 1 /\ from + (i + 1) - 1 = (from + i - 1) + 1
    BY <1>1, <2>1
  <2>5. s[(from + i - 1) + 1] = s[from + i - 1] + 1
    BY <2>4 DEF Consecutive
  <2> QED
    BY <2>2, <2>3, <2>4, <2>5
<1> QED
  BY <1>2, <1>3, <1>6

(* The next message keeps the history consecutive.                         *)
LEMMA AppendConsecutive ==
    ASSUME NEW s \in Seq(Nat), NEW n \in Nat, Consecutive(s),
           s # <<>> => s[Len(s)] = n
    PROVE  /\ Append(s, n + 1) \in Seq(Nat)
           /\ Consecutive(Append(s, n + 1))
           /\ Append(s, n + 1) # <<>>
           /\ Append(s, n + 1)[Len(Append(s, n + 1))] = n + 1
<1>1. Len(Append(s, n + 1)) = Len(s) + 1 /\ Len(s) \in Nat
  OBVIOUS
<1>2. Append(s, n + 1)[Len(s) + 1] = n + 1
  OBVIOUS
<1>3. \A i \in 1 .. Len(s) : Append(s, n + 1)[i] = s[i]
  OBVIOUS
<1>4. Consecutive(Append(s, n + 1))
  <2> SUFFICES ASSUME NEW i \in 1 .. Len(s)
               PROVE  Append(s, n + 1)[i + 1] = Append(s, n + 1)[i] + 1
    BY <1>1 DEF Consecutive
  <2>1. CASE i = Len(s)
    BY <2>1, <1>1, <1>2, <1>3
  <2>2. CASE i < Len(s)
    <3>1. i \in 1 .. Len(s) - 1 /\ i + 1 \in 1 .. Len(s)
      BY <2>2, <1>1
    <3>2. s[i + 1] = s[i] + 1
      BY <3>1 DEF Consecutive
    <3> QED
      BY <3>1, <3>2, <1>3
  <2> QED
    BY <2>1, <2>2, <1>1
<1> QED
  BY <1>1, <1>2, <1>4

LEMMA InitConsecutive == Init => ConsecutiveInv
<1> SUFFICES ASSUME Init PROVE ConsecutiveInv
  OBVIOUS
<1>1. <<>> \in Seq(Nat) /\ <<>> \in Seq(Seq(Nat)) /\ Len(<<>>) = 0
  OBVIOUS
<1>2. HistoryInv
  BY <1>1 DEF Init, HistoryInv, Consecutive
<1>3. TurnInv
  BY DEF Init, TurnInv, Idle
<1>4. EpisodesInv
  BY <1>1 DEF Init, EpisodesInv
<1> QED
  BY <1>2, <1>3, <1>4 DEF ConsecutiveInv

(* A statement that moves writer w to a state other than holding a batch   *)
(* leaves the batches of the others alone.                                 *)
LEMMA MoveKeepsTurns ==
    ASSUME TurnInv, NEW w \in Writers, NEW t, Goto(w, t),
           t.at = "insert" => t.batch \in Seq(Nat) /\ Consecutive(t.batch)
    PROVE  TurnInv'
<1>1. DOMAIN turn' = Writers
  BY DEF Goto, TurnInv
<1>2. turn'[w] = t /\ \A v \in Writers : v # w => turn'[v] = turn[v]
  BY DEF Goto, TurnInv
<1> QED
  BY <1>1, <1>2 DEF TurnInv

LEMMA NextConsecutive == ConsecutiveInv /\ [Next]_vars => ConsecutiveInv'
<1> SUFFICES ASSUME ConsecutiveInv, [Next]_vars PROVE ConsecutiveInv'
  OBVIOUS
<1> USE DEF ConsecutiveInv
<1>1. ASSUME NEW w \in Writers, Save(w) PROVE ConsecutiveInv'
  <2>1. HistoryInv'
    <3>1. saved' = saved + 1 /\ history' = Append(history, saved + 1)
      BY <1>1 DEF Save
    <3>2. saved \in Nat /\ history \in Seq(Nat) /\ Consecutive(history)
          /\ (history # <<>> => history[Len(history)] = saved)
      BY DEF HistoryInv
    <3>3. PICK s, n : s = history /\ n = saved
      OBVIOUS
    <3>4. /\ Append(s, n + 1) \in Seq(Nat) /\ Consecutive(Append(s, n + 1))
          /\ Append(s, n + 1)[Len(Append(s, n + 1))] = n + 1
      BY <3>2, <3>3, AppendConsecutive
    <3>5. (saved \in Nat)' /\ (history \in Seq(Nat))' /\ (history[Len(history)] = saved)'
      BY <3>1, <3>2, <3>3, <3>4
    <3>6. Consecutive(history')
      BY <3>1, <3>3, <3>4
    <3> QED
      BY <3>5, <3>6 DEF HistoryInv, Consecutive
  <2>2. PICK at \in {"track", "hot"}, silent \in BOOLEAN :
             Goto(w, [at |-> at, silent |-> silent])
    BY <1>1 DEF Save
  <2>3. TurnInv'
    BY <2>2, MoveKeepsTurns
  <2>4. EpisodesInv'
    BY <1>1 DEF Save, EpisodesInv
  <2> QED
    BY <2>1, <2>3, <2>4
<1>2. ASSUME NEW w \in Writers,
             \/ Track(w) \/ ReadHot(w) \/ WriteFact(w) \/ CountMessages(w) \/ CountEpisodes(w)
      PROVE  ConsecutiveInv'
  <2>1. UNCHANGED <<saved, history, episodes>>
    BY <1>2 DEF Track, ReadHot, WriteFact, CountMessages, CountEpisodes
  <2>2. PICK t : Goto(w, t) /\ t.at # "insert"
    BY <1>2 DEF Track, ReadHot, WriteFact, CountMessages, CountEpisodes, Saved, Idle
  <2>3. TurnInv'
    BY <2>2, MoveKeepsTurns
  <2> QED
    BY <2>1, <2>3 DEF HistoryInv, EpisodesInv
<1>3. ASSUME NEW w \in Writers, Select(w) PROVE ConsecutiveInv'
  <2>1. UNCHANGED <<saved, history, episodes>>
    BY <1>3 DEF Select
  <2>2. LastOf(Size, history) \in Seq(Nat) /\ Consecutive(LastOf(Size, history))
    BY SuffixConsecutive, SizeAssumption DEF HistoryInv
  <2>3. PICK t : /\ Goto(w, t)
                 /\ t = Idle \/ t = [at |-> "insert", batch |-> LastOf(Size, history)]
    BY <1>3 DEF Select
  <2>4. TurnInv'
    BY <2>2, <2>3, MoveKeepsTurns DEF Idle
  <2> QED
    BY <2>1, <2>4 DEF HistoryInv, EpisodesInv
<1>4. ASSUME NEW w \in Writers, InsertEpisode(w) PROVE ConsecutiveInv'
  <2>1. UNCHANGED <<saved, history>> /\ Goto(w, Idle) /\ turn[w].at = "insert"
        /\ episodes' = Append(episodes, turn[w].batch)
    BY <1>4 DEF InsertEpisode
  <2>2. PICK b : b = turn[w].batch
    OBVIOUS
  <2>3. b \in Seq(Nat) /\ Consecutive(b)
    BY <2>1, <2>2 DEF TurnInv
  <2>4. EpisodesInv'
    <3>1. episodes \in Seq(Seq(Nat)) /\ episodes' = Append(episodes, b)
      BY <2>1, <2>2 DEF EpisodesInv
    <3>2. episodes' \in Seq(Seq(Nat)) /\ Len(episodes') = Len(episodes) + 1
      BY <3>1, <2>3
    <3>3. episodes'[Len(episodes) + 1] = b
          /\ \A k \in 1 .. Len(episodes) : episodes'[k] = episodes[k]
      BY <3>1, <2>3
    <3>4. \A k \in DOMAIN episodes' : Consecutive(episodes'[k])
      <4> SUFFICES ASSUME NEW k \in 1 .. Len(episodes) + 1 PROVE Consecutive(episodes'[k])
        BY <3>2
      <4>1. Len(episodes) \in Nat /\ DOMAIN episodes = 1 .. Len(episodes)
        BY <3>1
      <4>2. CASE k = Len(episodes) + 1
        BY <4>2, <3>3, <2>3
      <4>3. CASE k \in 1 .. Len(episodes)
        BY <4>1, <4>3, <3>3 DEF EpisodesInv
      <4> QED
        BY <4>1, <4>2, <4>3
    <3>5. (\A k \in DOMAIN episodes : Consecutive(episodes[k]))'
      BY <3>4 DEF Consecutive
    <3> QED
      BY <3>2, <3>5 DEF EpisodesInv
  <2>5. TurnInv'
    BY <2>1, MoveKeepsTurns DEF Idle
  <2> QED
    BY <2>1, <2>4, <2>5 DEF HistoryInv
<1>5. ASSUME NEW layer, Clear(layer) PROVE ConsecutiveInv'
  <2>1. <<>> \in Seq(Nat) /\ <<>> \in Seq(Seq(Nat)) /\ Len(<<>>) = 0
    OBVIOUS
  <2>2. saved' = saved /\ turn' = turn /\ (history' = <<>> \/ history' = history)
        /\ (episodes' = <<>> \/ episodes' = episodes)
    BY <1>5 DEF Clear
  <2>3. HistoryInv'
    <3>1. CASE history' = <<>>
      BY <2>1, <2>2, <3>1 DEF HistoryInv, Consecutive
    <3>2. CASE history' = history
      BY <2>2, <3>2 DEF HistoryInv, Consecutive
    <3> QED
      BY <2>2, <3>1, <3>2
  <2>4. TurnInv'
    BY <2>2 DEF TurnInv
  <2>5. EpisodesInv'
    <3>1. CASE episodes' = <<>>
      BY <2>1, <3>1 DEF EpisodesInv
    <3>2. CASE episodes' = episodes
      BY <3>2 DEF EpisodesInv, Consecutive
    <3> QED
      BY <2>2, <3>1, <3>2
  <2> QED
    BY <2>3, <2>4, <2>5
<1>6. CASE UNCHANGED vars
  BY <1>6 DEF vars, HistoryInv, TurnInv, EpisodesInv
<1>7. ASSUME NEW w \in Writers, CutShort(w) PROVE ConsecutiveInv'
  <2>1. Goto(w, Idle) /\ UNCHANGED <<saved, history, episodes>>
    BY <1>7 DEF CutShort
  <2>2. TurnInv'
    BY <2>1, MoveKeepsTurns DEF Idle
  <2> QED
    BY <2>1, <2>2 DEF HistoryInv, EpisodesInv
<1> QED
  BY <1>1, <1>2, <1>3, <1>4, <1>5, <1>6, <1>7 DEF Next, Step, Quiet

(* Whatever is saved, cleared or summarised while a summary is made, it is *)
(* of consecutive messages, oldest first.                                  *)
THEOREM SummariesAreConsecutive == Spec => []EpisodesConsecutive
<1>1. ConsecutiveInv => EpisodesConsecutive
  BY DEF ConsecutiveInv, EpisodesInv, EpisodesConsecutive, Consecutive
<1> QED
  BY InitConsecutive, NextConsecutive, <1>1, PTL DEF Spec

--------------------------------------------------------------------------------
(* What has happened stays in events, and as long as no two turns overlap  *)
(* one writer at most is busy.                                             *)

Alone == "overlap" \notin events =>
            \A v, w \in Writers : turn[v] # Idle /\ turn[w] # Idle => v = w

WriterInv == DOMAIN turn = Writers /\ Alone

LEMMA EventsStay == [Next]_vars => events \subseteq events'
BY DEF Next, vars, Step, Save, Track, ReadHot, WriteFact, CountMessages, CountEpisodes,
       Select, InsertEpisode, CutShort, Clear, Quiet

(* A busy writer goes on.                                                  *)
LEMMA BusyWriter ==
    ASSUME NEW w \in Writers, Step(w), ~Save(w)
    PROVE  turn[w] # Idle /\ UNCHANGED <<saved, history, events>> /\ \E t : Goto(w, t)
<1>1. CASE Track(w)
  BY <1>1 DEF Track, Idle
<1>2. CASE ReadHot(w)
  BY <1>2 DEF ReadHot, Idle
<1>3. CASE WriteFact(w)
  BY <1>3 DEF WriteFact, Idle
<1>4. CASE CountMessages(w)
  BY <1>4 DEF CountMessages, Idle
<1>5. CASE CountEpisodes(w)
  BY <1>5 DEF CountEpisodes, Idle
<1>6. CASE Select(w)
  BY <1>6 DEF Select, Idle
<1>7. CASE InsertEpisode(w)
  BY <1>7 DEF InsertEpisode, Idle
<1> QED
  BY <1>1, <1>2, <1>3, <1>4, <1>5, <1>6, <1>7 DEF Step

(* A turn that is cut short leaves the layers as they are.                 *)
LEMMA CutMove ==
    ASSUME NEW w \in Writers, CutShort(w)
    PROVE  /\ Goto(w, Idle) /\ turn[w] # Idle /\ "cut" \in events'
           /\ UNCHANGED <<saved, history, episodes, hits, fact>>
BY DEF CutShort

(* What save() makes of its writer and of the events.                      *)
LEMMA SaveMove ==
    ASSUME NEW w \in Writers, Save(w)
    PROVE  \E t : /\ Goto(w, t) /\ t.at \in {"track", "hot"}
                  /\ "silent" \notin events' => t.silent = FALSE
                  /\ "overlap" \notin events' => AllIdle
<1>1. PICK at \in {"track", "hot"}, silent \in BOOLEAN :
        /\ Goto(w, [at |-> at, silent |-> silent])
        /\ events' = events \cup (IF silent THEN {"silent"} ELSE {})
                            \cup (IF AllIdle THEN {} ELSE {"overlap"})
  BY DEF Save
<1> WITNESS [at |-> at, silent |-> silent]
<1> QED
  BY <1>1

LEMMA NextWriter == WriterInv /\ [Next]_vars => WriterInv'
<1> SUFFICES ASSUME WriterInv, [Next]_vars PROVE WriterInv'
  OBVIOUS
<1> USE DEF WriterInv, Alone
<1>1. ASSUME NEW w \in Writers, Save(w) PROVE WriterInv'
  <2>1. PICK t : Goto(w, t) /\ ("overlap" \notin events' => AllIdle)
    BY <1>1, SaveMove
  <2> QED
    BY <2>1 DEF Goto, AllIdle
<1>2. ASSUME NEW w \in Writers, Step(w), ~Save(w) PROVE WriterInv'
  BY <1>2, BusyWriter DEF Goto
<1>3. ASSUME NEW layer, Clear(layer) PROVE WriterInv'
  BY <1>3 DEF Clear
<1>4. CASE UNCHANGED vars
  BY <1>4 DEF vars
<1>5. ASSUME NEW w \in Writers, CutShort(w) PROVE WriterInv'
  BY <1>5, EventsStay, CutMove DEF Goto
<1> QED
  BY <1>1, <1>2, <1>3, <1>4, <1>5 DEF Next, Quiet

LEMMA WriterAlways == Spec => []WriterInv
<1>1. Init => WriterInv
  BY DEF Init, WriterInv, Alone
<1> QED
  BY <1>1, NextWriter, PTL DEF Spec

--------------------------------------------------------------------------------
(* A fact is backed by its topic's hits.  The database adds the hits, so   *)
(* they only grow unless the core layer is cleared, and what a turn read   *)
(* is never more than what is there when it writes.                        *)

Seen == \A w \in Writers : turn[w].at = "promote" =>
           /\ turn[w].seen \in Nat /\ Promote <= turn[w].seen
           /\ "core" \notin events => turn[w].seen <= hits

FactInv ==
    /\ hits \in Nat /\ fact \in Nat
    /\ DOMAIN turn = Writers
    /\ Seen
    /\ FactBacked

LEMMA NextFact == FactInv /\ [Next]_vars => FactInv'
<1> SUFFICES ASSUME FactInv, [Next]_vars PROVE FactInv'
  OBVIOUS
<1>0. events \subseteq events'
  BY EventsStay
<1> USE SizeAssumption DEF FactInv, FactBacked, Seen
<1>1. ASSUME NEW w \in Writers,
             \/ Save(w) \/ CountMessages(w) \/ CountEpisodes(w) \/ Select(w) \/ InsertEpisode(w)
      PROVE  FactInv'
  <2>1. UNCHANGED <<hits, fact>>
    BY <1>1 DEF Save, CountMessages, CountEpisodes, Select, InsertEpisode
  <2>2. PICK t : Goto(w, t) /\ t.at # "promote"
    <3>1. CASE Save(w)
      BY <3>1, SaveMove
    <3>2. CASE ~Save(w)
      BY <1>1, <3>2 DEF CountMessages, CountEpisodes, Select, InsertEpisode, Idle
    <3> QED
      BY <3>1, <3>2
  <2> QED
    BY <1>0, <2>1, <2>2 DEF Goto
<1>2. ASSUME NEW w \in Writers, Track(w) PROVE FactInv'
  <2>1. hits' = hits + 1 /\ fact' = fact
    BY <1>2 DEF Track
  <2>2. PICK t : Goto(w, t) /\ t.at # "promote"
    BY <1>2 DEF Track
  <2>3. \A v \in Writers : turn'[v].at = "promote" => turn'[v] = turn[v]
    BY <2>2 DEF Goto
  <2> QED
    BY <1>0, <2>1, <2>2, <2>3 DEF Goto
<1>3. ASSUME NEW w \in Writers, ReadHot(w) PROVE FactInv'
  <2>1. UNCHANGED <<hits, fact>>
    BY <1>3 DEF ReadHot
  <2>2. PICK t : Goto(w, t) /\ (t.at = "promote" => t.seen = hits /\ hits >= Promote)
    BY <1>3 DEF ReadHot, Saved, Idle
  <2> QED
    BY <1>0, <2>1, <2>2 DEF Goto
<1>4. ASSUME NEW w \in Writers, WriteFact(w) PROVE FactInv'
  <2>1. hits' = hits /\ fact' = turn[w].seen /\ turn[w].at = "promote"
    BY <1>4 DEF WriteFact
  <2>2. PICK t : Goto(w, t) /\ t.at # "promote"
    BY <1>4 DEF WriteFact, Saved, Idle
  <2> QED
    BY <1>0, <2>1, <2>2 DEF Goto
<1>5. ASSUME NEW layer, Clear(layer) PROVE FactInv'
  <2>1. CASE layer \in {"core", "all"}
    BY <1>5, <2>1 DEF Clear
  <2>2. CASE layer \notin {"core", "all"}
    BY <1>0, <1>5, <2>2 DEF Clear
  <2> QED
    BY <2>1, <2>2
<1>6. CASE UNCHANGED vars
  BY <1>6 DEF vars
<1>7. ASSUME NEW w \in Writers, CutShort(w) PROVE FactInv'
  BY <1>0, <1>7, CutMove DEF Goto, Idle
<1> QED
  BY <1>1, <1>2, <1>3, <1>4, <1>5, <1>6, <1>7 DEF Next, Step, Quiet

LEMMA FactAlways == Spec => []FactInv
<1>1. Init => FactInv
  BY DEF Init, FactInv, FactBacked, Seen, Idle
<1> QED
  BY <1>1, NextFact, PTL DEF Spec

(* However many turns promote the topic at once, the fact never claims     *)
(* more hits than the topic has, as long as nobody clears the core layer.  *)
THEOREM FactsAreBacked == Spec => []FactBacked
BY FactAlways, PTL DEF FactInv

(* With one turn at a time the count about to be written is also no older  *)
(* than the one in the fact.                                               *)

NotStale ==
    events \cap {"overlap", "core"} = {} =>
        \A w \in Writers : turn[w].at = "promote" => fact <= turn[w].seen

LEMMA NextNotStale ==
    ASSUME WriterInv, FactInv, NotStale, [Next]_vars
    PROVE  /\ NotStale'
           /\ fact' < fact => events' \cap {"overlap", "core"} # {}
<1> SUFFICES ASSUME events' \cap {"overlap", "core"} = {}
             PROVE  NotStale' /\ ~(fact' < fact)
  BY DEF NotStale
<1>0. events \cap {"overlap", "core"} = {} /\ hits \in Nat /\ fact \in Nat /\ fact <= hits
  BY EventsStay, SizeAssumption DEF FactInv, FactBacked
<1>1. \A v, w \in Writers : turn[v] # Idle /\ turn[w] # Idle => v = w
  BY <1>0 DEF WriterInv, Alone
<1> USE DEF NotStale
<1>2. ASSUME NEW w \in Writers, Save(w) PROVE NotStale' /\ ~(fact' < fact)
  <2>1. PICK t : Goto(w, t) /\ t.at \in {"track", "hot"}
    BY <1>2, SaveMove
  <2>2. fact' = fact
    BY <1>2 DEF Save
  <2> QED
    BY <1>0, <2>1, <2>2 DEF Goto, FactInv
<1>3. ASSUME NEW w \in Writers, Step(w), ~Save(w), ~WriteFact(w)
      PROVE  NotStale' /\ ~(fact' < fact)
  <2>1. fact' = fact
    BY <1>3 DEF Step, Track, ReadHot, CountMessages, CountEpisodes, Select, InsertEpisode
  <2>2. PICK t : Goto(w, t) /\ (t.at = "promote" => t.seen = hits)
    BY <1>3 DEF Step, Track, ReadHot, CountMessages, CountEpisodes, Select,
                InsertEpisode, Saved, Idle
  <2> QED
    BY <1>0, <2>1, <2>2 DEF Goto, FactInv
<1>4. ASSUME NEW w \in Writers, WriteFact(w) PROVE NotStale' /\ ~(fact' < fact)
  <2>1. fact' = turn[w].seen /\ turn[w].at = "promote" /\ turn[w] # Idle
    BY <1>4 DEF WriteFact, Idle
  <2>2. PICK t : Goto(w, t) /\ t.at # "promote"
    BY <1>4 DEF WriteFact, Saved, Idle
  <2>3. \A v \in Writers : v # w => turn[v] = Idle
    BY <1>1, <2>1
  <2>4. \A v \in Writers : turn'[v].at # "promote"
    BY <2>2, <2>3 DEF Goto, FactInv, Idle
  <2>5. fact <= turn[w].seen /\ turn[w].seen \in Nat
    BY <1>0, <2>1 DEF FactInv, Seen
  <2> QED
    BY <1>0, <2>1, <2>4, <2>5
<1>5. ASSUME NEW layer, Clear(layer) PROVE NotStale' /\ ~(fact' < fact)
  BY <1>0, <1>5 DEF Clear
<1>6. CASE UNCHANGED vars
  BY <1>0, <1>6 DEF vars
<1>7. ASSUME NEW w \in Writers, CutShort(w) PROVE NotStale' /\ ~(fact' < fact)
  BY <1>0, <1>7, CutMove DEF Goto, FactInv, Idle
<1> QED
  BY <1>2, <1>3, <1>4, <1>5, <1>6, <1>7 DEF Next, Step, Quiet

(* One turn at a time, and the core layer never cleared: the count a fact  *)
(* reports never goes back.                                                *)
THEOREM FactsNeverRegress == Spec => FactNeverRegresses
<1>1. Init => NotStale
  BY DEF Init, NotStale, Idle
<1>2. WriterInv /\ FactInv /\ NotStale /\ [Next]_vars =>
        NotStale' /\ [fact' < fact => events' \cap {"overlap", "core"} # {}]_vars
  BY NextNotStale
<1> QED
  BY <1>1, <1>2, WriterAlways, FactAlways, PTL DEF Spec, FactNeverRegresses

--------------------------------------------------------------------------------
(* With one turn at a time, no clear and no silent save, the summaries     *)
(* tile the session.  Due is the message that completes the next batch;    *)
(* the history is the whole session, and saved stays below Due between     *)
(* turns, so a summary is made at Due exactly and of its batch.            *)

Calm == events \subseteq {"core"}

Due == (Len(episodes) + 1) * Size

StoreTile ==
    /\ DOMAIN turn = Writers
    /\ saved \in Nat /\ history = [i \in 1 .. saved |-> i]
    /\ episodes \in Seq(Seq(Nat))
    /\ saved <= Due /\ (AllIdle => saved < Due)

TurnTile(w) ==
    /\ turn[w].at \in {"track", "hot", "promote"} => turn[w].silent = FALSE
    /\ turn[w].at = "episodes" => turn[w].total = saved
    /\ turn[w].at = "select" => saved = Due
    /\ turn[w].at = "insert" =>
          saved = Due /\ turn[w].batch = [i \in 1 .. Size |-> Len(episodes) * Size + i]

(* Each summary is of its batch; one turn is under way at most.            *)
Tiled == \A k \in DOMAIN episodes : episodes[k] = [i \in 1 .. Size |-> (k - 1) * Size + i]
OneBusy == \A v, w \in Writers : turn[v] # Idle /\ turn[w] # Idle => v = w

TileNow == StoreTile /\ Tiled /\ \A w \in Writers : TurnTile(w)
TileInv == Calm => TileNow

LEMMA Product ==
    ASSUME NEW n \in Nat
    PROVE  /\ n * Size \in Nat /\ (n + 1) * Size = n * Size + Size
           /\ (n + 1) * Size \in Nat /\ (n + 1) * Size < (n + 2) * Size
  <1>1. Size \in Nat /\ Size >= 1
    BY SizeAssumption
  <1>2. n * Size \in Nat /\ (n + 1) * Size = n * Size + Size
    BY <1>1
  <1>3. (n + 2) * Size = n * Size + Size + Size
    BY <1>1
  <1> QED
    BY <1>1, <1>2, <1>3

LEMMA DueFacts ==
    ASSUME StoreTile
    PROVE  /\ Len(episodes) \in Nat /\ Len(episodes) * Size \in Nat
           /\ Due = Len(episodes) * Size + Size /\ Due \in Nat
           /\ Size \in Nat /\ Size >= 1
  <1>1. PICK n : n = Len(episodes) /\ n \in Nat
    BY DEF StoreTile
  <1> QED
    BY <1>1, Product, SizeAssumption DEF Due

(* The newest Size messages of a session that ends at the n-th multiple.   *)
LEMMA LastBatch ==
    ASSUME NEW m \in Nat, NEW z \in Nat \ {0}
    PROVE  LastOf(z, [i \in 1 .. m + z |-> i]) = [i \in 1 .. z |-> m + i]
  <1> DEFINE h == [i \in 1 .. m + z |-> i]
  <1>1. h \in Seq(Nat) /\ Len(h) = m + z
    OBVIOUS
  <1>2. (IF Len(h) > z THEN Len(h) - z + 1 ELSE 1) = m + 1
    BY <1>1
  <1>3. LastOf(z, h) = SubSeq(h, m + 1, m + z)
    BY <1>1, <1>2 DEF LastOf
  <1>4. SubSeq(h, m + 1, m + z) \in Seq(Nat) /\ Len(SubSeq(h, m + 1, m + z)) = z
    BY <1>1
  <1>5. \A i \in 1 .. z : SubSeq(h, m + 1, m + z)[i] = m + i
    BY <1>1
  <1>6. DOMAIN SubSeq(h, m + 1, m + z) = 1 .. z
    BY <1>4
  <1>7. SubSeq(h, m + 1, m + z) = [i \in 1 .. z |-> m + i]
    BY <1>4, <1>5, <1>6
  <1> QED
    BY <1>3, <1>7

(* A statement that leaves the three layers alone keeps the invariant when *)
(* the state the writer comes to fits them.                                *)
LEMMA MoveKeepsTile ==
    ASSUME OneBusy, TileNow, NEW w \in Writers, turn[w] # Idle, NEW t, Goto(w, t),
           UNCHANGED <<saved, history, episodes>>,
           t.at \in {"track", "hot", "promote"} => t.silent = FALSE,
           t.at = "episodes" => t.total = saved,
           t.at \in {"select", "insert"} => saved = Due,
           t.at = "insert" => t.batch = [i \in 1 .. Size |-> Len(episodes) * Size + i],
           t.at = "idle" => saved < Due
    PROVE  TileNow'
  <1>1. /\ DOMAIN turn' = Writers /\ turn'[w] = t
        /\ \A v \in Writers : v # w => turn'[v] = Idle
    BY DEF Goto, TileNow, StoreTile, OneBusy
  <1>2. Due' = Due
    BY DEF Due
  <1>3. AllIdle' => saved' < Due'
    BY <1>1, <1>2 DEF AllIdle, Idle
  <1>4. StoreTile'
    BY <1>1, <1>2, <1>3 DEF TileNow, StoreTile
  <1>5. Tiled'
    BY DEF TileNow, Tiled
  <1>6. \A v \in Writers : TurnTile(v)'
    <2>1. TurnTile(w)'
      BY <1>1, <1>2 DEF TurnTile
    <2>2. ASSUME NEW v \in Writers, v # w PROVE TurnTile(v)'
      BY <1>1, <2>2 DEF TurnTile, Idle
    <2> QED
      BY <2>1, <2>2
  <1> QED
    BY <1>4, <1>5, <1>6 DEF TileNow

LEMMA NextTile == WriterInv /\ TileInv /\ [Next]_vars => TileInv'
<1> SUFFICES ASSUME WriterInv, TileInv, [Next]_vars, Calm' PROVE TileNow'
  BY DEF TileInv
<1>c. OneBusy /\ TileNow
  BY EventsStay DEF Calm, WriterInv, Alone, OneBusy, TileInv
<1>0. /\ StoreTile /\ Tiled /\ \A w \in Writers : TurnTile(w)
      /\ Len(episodes) \in Nat /\ Len(episodes) * Size \in Nat
      /\ Due = Len(episodes) * Size + Size /\ Due \in Nat /\ Size \in Nat /\ Size >= 1
      /\ saved \in Nat /\ saved <= Due
  BY <1>c, DueFacts DEF TileNow, StoreTile
<1>1. ASSUME NEW w \in Writers, Save(w) PROVE TileNow'
  <2>1. turn[w] = Idle /\ saved' = saved + 1 /\ history' = Append(history, saved + 1)
        /\ episodes' = episodes
    BY <1>1 DEF Save
  <2>2. PICK t : Goto(w, t) /\ t.at \in {"track", "hot"} /\ t.silent = FALSE /\ AllIdle
    BY <1>1, SaveMove DEF Calm
  <2>3. saved < Due
    BY <2>2, <1>0 DEF StoreTile
  <2>4. /\ DOMAIN turn' = Writers /\ turn'[w] = t
        /\ \A v \in Writers : v # w => turn'[v] = Idle
    BY <2>2, <1>0 DEF Goto, StoreTile, AllIdle
  <2>5. Due' = Due
    BY <2>1 DEF Due
  <2>6. ~AllIdle'
    BY <2>2, <2>4 DEF AllIdle, Idle
  <2>7. history' = [i \in 1 .. saved' |-> i]
    <3>1. PICK n \in Nat : n = saved
      BY <1>0
    <3>2. Append([i \in 1 .. n |-> i], n + 1) = [i \in 1 .. n + 1 |-> i]
      OBVIOUS
    <3> QED
      BY <3>1, <3>2, <2>1, <1>0 DEF StoreTile
  <2>8. StoreTile'
    BY <1>0, <2>1, <2>3, <2>4, <2>5, <2>6, <2>7 DEF StoreTile
  <2>9. Tiled'
    BY <1>0, <2>1 DEF Tiled
  <2>10. \A v \in Writers : TurnTile(v)'
    BY <2>2, <2>4 DEF TurnTile, Idle
  <2> QED
    BY <2>8, <2>9, <2>10 DEF TileNow
<1>2. ASSUME NEW w \in Writers, Track(w) \/ ReadHot(w) \/ WriteFact(w) PROVE TileNow'
  <2>0. turn[w] # Idle
    BY <1>2 DEF Track, ReadHot, WriteFact, Idle
  <2>1. UNCHANGED <<saved, history, episodes>> /\ turn[w].silent = FALSE
    BY <1>2, <1>0 DEF Track, ReadHot, WriteFact, TurnTile
  <2>2. PICK t : Goto(w, t) /\ (t.at = "total" \/ (t.at \in {"hot", "promote"} /\ t.silent = FALSE))
    <3>1. CASE Track(w)
      BY <2>1, <3>1 DEF Track
    <3>2. CASE ReadHot(w)
      <4>1. Saved(turn[w].silent) = [at |-> "total"]
        BY <2>1 DEF Saved
      <4>2. \/ Goto(w, [at |-> "promote", silent |-> FALSE, seen |-> hits])
            \/ Goto(w, [at |-> "total"])
        BY <2>1, <3>2, <4>1 DEF ReadHot
      <4>3. /\ [at |-> "promote", silent |-> FALSE, seen |-> hits].at = "promote"
            /\ [at |-> "promote", silent |-> FALSE, seen |-> hits].silent = FALSE
            /\ [at |-> "total"].at = "total"
        OBVIOUS
      <4> QED
        BY <4>2, <4>3
    <3>3. CASE WriteFact(w)
      <4>1. Saved(turn[w].silent) = [at |-> "total"]
        BY <2>1 DEF Saved
      <4>2. Goto(w, [at |-> "total"])
        BY <3>3, <4>1 DEF WriteFact
      <4>3. [at |-> "total"].at = "total"
        OBVIOUS
      <4> QED
        BY <4>2, <4>3
    <3> QED
      BY <1>2, <3>1, <3>2, <3>3
  <2> QED
    BY <1>c, <2>0, <2>1, <2>2, MoveKeepsTile
<1>3. ASSUME NEW w \in Writers, CountMessages(w) PROVE TileNow'
  <2>1. UNCHANGED <<saved, history, episodes>>
        /\ Goto(w, [at |-> "episodes", total |-> Len(history)]) /\ turn[w] # Idle
    BY <1>3 DEF CountMessages, Idle
  <2>2. Len(history) = saved
    BY <1>0 DEF StoreTile
  <2> QED
    BY <1>c, <2>1, <2>2, MoveKeepsTile
<1>4. ASSUME NEW w \in Writers, CountEpisodes(w) PROVE TileNow'
  <2>1. UNCHANGED <<saved, history, episodes>> /\ turn[w].at = "episodes"
        /\ Goto(w, IF turn[w].total >= Due THEN [at |-> "select"] ELSE Idle) /\ turn[w] # Idle
    BY <1>4 DEF CountEpisodes, Due, Idle
  <2>2. turn[w].total = saved
    BY <2>1, <1>0 DEF TurnTile
  <2>3. CASE saved >= Due
    <3>1. PICK t : t = [at |-> "select"]
      OBVIOUS
    <3>2. Goto(w, t) /\ t.at = "select" /\ saved = Due
      BY <2>1, <2>2, <2>3, <3>1, <1>0
    <3> QED
      BY <1>c, <3>2, <2>1, MoveKeepsTile
  <2>4. CASE saved < Due
    <3>1. Goto(w, Idle) /\ Idle.at = "idle"
      BY <2>1, <2>2, <2>4, <1>0 DEF Idle
    <3> QED
      BY <1>c, <3>1, <2>1, <2>4, MoveKeepsTile
  <2> QED
    BY <2>3, <2>4, <1>0
<1>5. ASSUME NEW w \in Writers, Select(w) PROVE TileNow'
  <2>1. UNCHANGED <<saved, history, episodes>> /\ turn[w].at = "select" /\ saved = Due
    BY <1>5, <1>0 DEF Select, TurnTile
  <2>c. turn[w] # Idle
    BY <2>1 DEF Idle
  <2>2. PICK m \in Nat, z \in Nat \ {0} : m = Len(episodes) * Size /\ z = Size
    BY <1>0
  <2>3. history = [i \in 1 .. m + z |-> i]
    BY <1>0, <2>1, <2>2 DEF StoreTile
  <2>4. LastOf(Size, history) = [i \in 1 .. Size |-> Len(episodes) * Size + i]
    BY <2>2, <2>3, LastBatch
  <2>5. history # <<>>
    <3>1. Len([i \in 1 .. m + z |-> i]) = m + z /\ Len(<<>>) = 0
      OBVIOUS
    <3> QED
      BY <2>3, <3>1
  <2>6. Goto(w, [at |-> "insert", batch |-> [i \in 1 .. Size |-> Len(episodes) * Size + i]])
    BY <1>5, <2>4, <2>5 DEF Select
  <2> QED
    BY <1>c, <2>1, <2>c, <2>6, MoveKeepsTile
<1>6. ASSUME NEW w \in Writers, InsertEpisode(w) PROVE TileNow'
  <2>1. /\ turn[w].at = "insert" /\ Goto(w, Idle) /\ UNCHANGED <<saved, history>>
        /\ episodes' = Append(episodes, turn[w].batch)
        /\ saved = Due /\ turn[w].batch = [i \in 1 .. Size |-> Len(episodes) * Size + i]
        /\ turn[w] # Idle
    <3>1. /\ turn[w].at = "insert" /\ Goto(w, Idle) /\ UNCHANGED <<saved, history>>
          /\ episodes' = Append(episodes, turn[w].batch)
      BY <1>6 DEF InsertEpisode
    <3>2. TurnTile(w)
      BY <1>0
    <3>3. saved = Due /\ turn[w].batch = [i \in 1 .. Size |-> Len(episodes) * Size + i]
      BY <3>1, <3>2 DEF TurnTile
    <3>4. turn[w] # Idle
      BY <3>1 DEF Idle
    <3> QED
      BY <3>1, <3>3, <3>4
  <2>2. PICK e, n, z : e = episodes /\ n = Len(episodes) /\ z = Size
    OBVIOUS
  <2>3. e \in Seq(Seq(Nat)) /\ n = Len(e) /\ n \in Nat /\ n * z \in Nat /\ z \in Nat
    BY <2>2, <1>0 DEF StoreTile
  <2> DEFINE b == [i \in 1 .. z |-> n * z + i]
  <2>4. b \in Seq(Nat) /\ episodes' = Append(e, b)
    <3>1. \A i \in 1 .. z : n * z + i \in Nat
      <4>1. PICK m \in Nat : m = n * z
        BY <2>3
      <4>2. \A i \in 1 .. z : m + i \in Nat
        BY <2>3
      <4> QED
        BY <4>1, <4>2
    <3>2. b \in Seq(Nat)
      BY <2>3, <3>1
    <3>3. turn[w].batch = b
      BY <2>1, <2>2
    <3> QED
      BY <2>1, <2>2, <3>2, <3>3
  <2> HIDE DEF b
  <2>5. /\ Append(e, b) \in Seq(Seq(Nat)) /\ Len(Append(e, b)) = n + 1
        /\ DOMAIN Append(e, b) = 1 .. n + 1
        /\ Append(e, b)[n + 1] = b /\ \A k \in 1 .. n : Append(e, b)[k] = e[k]
    BY <2>3, <2>4
  <2>6. Due' = (n + 2) * Size /\ Due = (n + 1) * Size
    BY <2>2, <2>3, <2>4, <2>5 DEF Due
  <2>7. saved < Due'
    BY <2>1, <2>3, <2>6, Product
  <2>8. DOMAIN turn' = Writers /\ \A v \in Writers : turn'[v] = Idle
    BY <1>c, <2>1, <1>0 DEF Goto, StoreTile, OneBusy
  <2>9. StoreTile'
    <3>1. Due' \in Nat
      BY <2>6, <2>3, Product, SizeAssumption
    <3>2. saved' = saved /\ saved \in Nat /\ history' = history /\ DOMAIN turn' = Writers
      BY <1>0, <2>1, <2>8
    <3>3. (history = [i \in 1 .. saved |-> i])'
      BY <1>0, <3>2 DEF StoreTile
    <3>4. (episodes \in Seq(Seq(Nat)))'
      BY <2>4, <2>5
    <3>5. (saved <= Due)' /\ (saved < Due)'
      BY <2>7, <3>1, <3>2
    <3> QED
      BY <3>2, <3>3, <3>4, <3>5 DEF StoreTile
  <2>10. Tiled'
    <3>1. \A k \in 1 .. n : e[k] = [i \in 1 .. Size |-> (k - 1) * Size + i]
      <4>1. DOMAIN e = 1 .. n
        BY <2>3
      <4> QED
        BY <1>0, <2>2, <4>1 DEF Tiled
    <3>2. b = [i \in 1 .. Size |-> ((n + 1) - 1) * Size + i]
      BY <2>2, <2>3 DEF b
    <3>3. \A k \in 1 .. n + 1 : k \in 1 .. n \/ k = n + 1
      BY <2>3
    <3>4. \A k \in DOMAIN episodes' : episodes'[k] = [i \in 1 .. Size |-> (k - 1) * Size + i]
      BY <2>4, <2>5, <3>1, <3>2, <3>3
    <3> QED
      BY <3>4 DEF Tiled
  <2>11. \A v \in Writers : TurnTile(v)'
    BY <2>8 DEF TurnTile, Idle
  <2> QED
    BY <2>9, <2>10, <2>11 DEF TileNow
<1>7. ASSUME NEW layer \in {"working", "episodic", "core", "all"}, Clear(layer)
      PROVE  TileNow'
  <2>1. layer = "core"
    BY <1>7 DEF Clear, Calm
  <2>2. UNCHANGED <<saved, history, episodes, turn>>
    BY <1>7, <2>1 DEF Clear
  <2> QED
    BY <1>c, <2>2 DEF TileNow, StoreTile, TurnTile, Tiled, Due, AllIdle
<1>8. CASE UNCHANGED vars
  BY <1>c, <1>8 DEF vars, TileNow, StoreTile, TurnTile, Tiled, Due, AllIdle
<1>9. ASSUME NEW w \in Writers, CutShort(w) PROVE TileNow'
  BY <1>9, CutMove DEF Calm
<1> QED
  BY <1>1, <1>2, <1>3, <1>4, <1>5, <1>6, <1>7, <1>8, <1>9 DEF Next, Step, Quiet

LEMMA InitTile == Init => TileInv
<1> SUFFICES ASSUME Init PROVE TileNow
  BY DEF TileInv
<1>1. <<>> \in Seq(Seq(Nat)) /\ Len(<<>>) = 0 /\ DOMAIN <<>> = {} /\ <<>> = [i \in 1 .. 0 |-> i]
  OBVIOUS
<1>2. Due = Size
  BY <1>1, SizeAssumption DEF Init, Due
<1>3. StoreTile
  BY <1>1, <1>2, SizeAssumption DEF Init, StoreTile
<1>4. Tiled
  BY <1>1 DEF Init, Tiled
<1>5. \A w \in Writers : TurnTile(w)
  BY DEF Init, TurnTile, Idle
<1> QED
  BY <1>3, <1>4, <1>5 DEF TileNow

(* The tiling bounds what waits for a summary.                             *)
LEMMA TileBounds == TileInv => BacklogBounded
<1> SUFFICES ASSUME TileNow, AllIdle
             PROVE  saved - (IF episodes = <<>> THEN 0
                             ELSE episodes[Len(episodes)][Len(episodes[Len(episodes)])]) < Size
  BY DEF BacklogBounded, TileInv, Calm
<1>1. /\ Len(episodes) \in Nat /\ Len(episodes) * Size \in Nat /\ Size \in Nat /\ Size >= 1
      /\ Due = Len(episodes) * Size + Size /\ saved < Due /\ saved \in Nat
      /\ episodes \in Seq(Seq(Nat))
  BY DueFacts DEF TileNow, StoreTile
<1>2. CASE episodes = <<>>
  <2>1. Len(episodes) = 0
    BY <1>2
  <2>2. Due = Size
    BY <2>1, <1>1 DEF Due
  <2> QED
    BY <1>1, <1>2, <2>2
<1>3. CASE episodes # <<>>
  <2>1. PICK n, z : n = Len(episodes) /\ z = Size
    OBVIOUS
  <2>2. n \in Nat /\ n \in DOMAIN episodes /\ n * z \in Nat /\ z \in Nat /\ z >= 1
    BY <1>1, <1>3, <2>1
  <2>3. episodes[n] = [i \in 1 .. z |-> (n - 1) * z + i]
    BY <2>1, <2>2 DEF TileNow, Tiled
  <2>4. Len(episodes[n]) = z
    BY <2>2, <2>3
  <2>5. episodes[n][z] = (n - 1) * z + z
    BY <2>2, <2>3
  <2>6. (n - 1) * z + z = n * z
    BY <2>2
  <2> QED
    BY <1>1, <1>3, <2>1, <2>2, <2>4, <2>5, <2>6
<1> QED
  BY <1>2, <1>3

(* One turn at a time, nothing cleared or saved silently: for every        *)
(* memory_size the k-th summary is of exactly the k-th batch, and fewer    *)
(* than memory_size messages wait for theirs between turns.                *)
THEOREM SummariesTile == Spec => []SessionTiled
<1>1. TileInv => SessionTiled
  BY TileBounds DEF TileInv, TileNow, Tiled, Calm, EpisodesTile, SessionTiled
<1> QED
  BY InitTile, NextTile, WriterAlways, <1>1, PTL DEF Spec

--------------------------------------------------------------------------------
(* The types.  The hits are bounded by the messages: one that is saved     *)
(* counts its topic once at most, so the hits and the turns that are about *)
(* to count are no more than the messages saved.                           *)

Tracking == {w \in Writers : turn[w].at = "track"}

LayersTyped ==
    /\ saved \in 0 .. MaxMessages
    /\ history \in Seq(1 .. saved) /\ Len(history) <= saved
    /\ episodes \in Seq(Seq(1 .. saved))
    /\ \A k \in DOMAIN episodes : Len(episodes[k]) <= Size
    /\ fact \in 0 .. MaxMessages /\ events \subseteq Events

HitsTyped ==
    hits \in Nat /\ IsFiniteSet(Tracking) /\ hits + Cardinality(Tracking) <= saved

Batched(t) == t.at = "insert" => t.batch \in Seq(1 .. saved) /\ Len(t.batch) <= Size

TurnsTyped == turn \in [Writers -> Turns] /\ \A w \in Writers : Batched(turn[w])

TypesInv == LayersTyped /\ HitsTyped /\ TurnsTyped

(* The live locals of a turn, by where it is.                              *)
LEMMA Locals ==
    ASSUME NEW t \in Turns
    PROVE  /\ t.at \in {"track", "hot", "promote"} => t.silent \in BOOLEAN
           /\ t.at = "promote" => t.seen \in 0 .. MaxMessages
BY Zenon DEF Turns

LEMMA TurnForms ==
    /\ Idle \in Turns /\ [at |-> "total"] \in Turns /\ [at |-> "select"] \in Turns
    /\ \A silent \in BOOLEAN :
          /\ [at |-> "track", silent |-> silent] \in Turns
          /\ [at |-> "hot", silent |-> silent] \in Turns
          /\ \A n \in 0 .. MaxMessages :
                [at |-> "promote", silent |-> silent, seen |-> n] \in Turns
    /\ \A n \in 0 .. MaxMessages : [at |-> "episodes", total |-> n] \in Turns
    /\ \A b \in Seq(1 .. MaxMessages) : [at |-> "insert", batch |-> b] \in Turns
BY DEF Turns, Idle

LEMMA SavedForms ==
    ASSUME NEW silent \in BOOLEAN
    PROVE  Saved(silent) \in Turns /\ Saved(silent).at \in {"idle", "total"}
BY TurnForms DEF Saved, Idle

(* A sequence over a set is one over every larger set.                     *)
LEMMA SeqGrows ==
    ASSUME NEW S, NEW T, S \subseteq T, NEW s \in Seq(S)
    PROVE  s \in Seq(T)
OBVIOUS

(* A suffix has the elements of the whole and is as short as asked for.    *)
LEMMA SuffixTyped ==
    ASSUME NEW S, NEW s \in Seq(S), NEW n \in Nat
    PROVE  LastOf(n, s) \in Seq(S) /\ Len(LastOf(n, s)) <= n
<1> DEFINE from == IF Len(s) > n THEN Len(s) - n + 1 ELSE 1
<1>1. from \in 1 .. Len(s) + 1 /\ Len(s) \in Nat /\ Len(s) - from + 1 <= n
  OBVIOUS
<1>2. LastOf(n, s) = SubSeq(s, from, Len(s))
  BY DEF LastOf
<1> HIDE DEF from
<1>3. SubSeq(s, from, Len(s)) \in Seq(S) /\ Len(SubSeq(s, from, Len(s))) = Len(s) - from + 1
  BY <1>1
<1> QED
  BY <1>1, <1>2, <1>3

(* Where a statement takes its turn.                                       *)
LEMMA MoveTyped ==
    ASSUME TypesInv, NEW w \in Writers, Step(w) \/ CutShort(w)
    PROVE  \E t \in Turns : /\ Goto(w, t) /\ Batched(t)
                            /\ t.at = "track" => Save(w)
<1> USE DEF TypesInv, TurnsTyped
<1>1. turn[w] \in Turns
  OBVIOUS
<1>2. CASE Save(w)
  <2>1. PICK at \in {"track", "hot"}, silent \in BOOLEAN :
             Goto(w, [at |-> at, silent |-> silent])
    BY <1>2 DEF Save
  <2>2. [at |-> at, silent |-> silent] \in Turns
    BY TurnForms
  <2> WITNESS [at |-> at, silent |-> silent] \in Turns
  <2> QED
    BY <1>2, <2>1 DEF Batched
<1>3. CASE Track(w)
  <2>1. turn[w].silent \in BOOLEAN /\ Goto(w, [at |-> "hot", silent |-> turn[w].silent])
    BY <1>1, <1>3, Locals DEF Track
  <2>2. [at |-> "hot", silent |-> turn[w].silent] \in Turns
    BY <2>1, TurnForms
  <2> QED
    BY <2>1, <2>2 DEF Batched
<1>4. CASE ReadHot(w)
  <2>1. turn[w].silent \in BOOLEAN
    BY <1>1, <1>4, Locals DEF ReadHot
  <2>2. CASE hits >= Promote
    <3>1. hits \in 0 .. MaxMessages
      <4>1. PICK c \in Nat : c = Cardinality(Tracking)
        BY FS_CardinalityType DEF HitsTyped
      <4>2. hits \in Nat /\ hits + c <= saved /\ saved \in Nat /\ saved <= MaxMessages
            /\ MaxMessages \in Nat
        BY <4>1, SizeAssumption DEF HitsTyped, LayersTyped
      <4> QED
        BY <4>2
    <3> DEFINE t == [at |-> "promote", silent |-> turn[w].silent, seen |-> hits]
    <3>2. t \in Turns /\ t.at = "promote"
      BY <2>1, <3>1, TurnForms
    <3>3. Goto(w, t)
      BY <1>4, <2>2 DEF ReadHot
    <3> HIDE DEF t
    <3> QED
      BY <3>2, <3>3 DEF Batched
  <2>3. CASE ~(hits >= Promote)
    <3>1. Goto(w, Saved(turn[w].silent))
      BY <1>4, <2>3 DEF ReadHot
    <3> QED
      BY <2>1, <3>1, SavedForms DEF Batched
  <2> QED
    BY <2>2, <2>3
<1>5. CASE WriteFact(w)
  <2>1. turn[w].silent \in BOOLEAN /\ Goto(w, Saved(turn[w].silent))
    BY <1>1, <1>5, Locals DEF WriteFact
  <2> QED
    BY <2>1, SavedForms DEF Batched
<1>6. CASE CountMessages(w)
  <2> DEFINE t == [at |-> "episodes", total |-> Len(history)]
  <2>1. Len(history) \in 0 .. MaxMessages
    <3>1. Len(history) \in Nat /\ Len(history) <= saved /\ saved \in 0 .. MaxMessages
          /\ MaxMessages \in Nat
      BY SizeAssumption DEF LayersTyped
    <3> QED
      BY <3>1
  <2>2. t \in Turns /\ t.at = "episodes"
    BY <2>1, TurnForms
  <2>3. Goto(w, t)
    BY <1>6 DEF CountMessages
  <2> HIDE DEF t
  <2> QED
    BY <2>2, <2>3 DEF Batched
<1>7. CASE CountEpisodes(w)
  <2>1. Goto(w, [at |-> "select"]) \/ Goto(w, Idle)
    BY <1>7 DEF CountEpisodes
  <2> QED
    BY <2>1, TurnForms DEF Batched, Idle
<1>8. CASE Select(w)
  <2>1. CASE history = <<>>
    BY <1>8, <2>1, TurnForms DEF Select, Batched, Idle
  <2>2. CASE history # <<>>
    <3> DEFINE b == LastOf(Size, history)
               t == [at |-> "insert", batch |-> b]
    <3>1. Goto(w, t)
      BY <1>8, <2>2 DEF Select
    <3>2. b \in Seq(1 .. saved) /\ Len(b) <= Size
      BY SuffixTyped, SizeAssumption DEF LayersTyped
    <3>3. 1 .. saved \subseteq 1 .. MaxMessages
      BY SizeAssumption DEF LayersTyped
    <3> HIDE DEF b
    <3>4. b \in Seq(1 .. MaxMessages)
      BY <3>2, <3>3, SeqGrows
    <3>5. t \in Turns /\ t.at = "insert" /\ t.batch = b
      BY <3>4, TurnForms
    <3> HIDE DEF t
    <3> QED
      BY <3>1, <3>2, <3>5 DEF Batched
  <2> QED
    BY <2>1, <2>2
<1>9. CASE InsertEpisode(w)
  BY <1>9, TurnForms DEF InsertEpisode, Batched, Idle
<1>10. CASE CutShort(w)
  BY <1>10, TurnForms DEF CutShort, Batched, Idle
<1> QED
  BY <1>2, <1>3, <1>4, <1>5, <1>6, <1>7, <1>8, <1>9, <1>10 DEF Step

LEMMA SavedGrows ==
    ASSUME LayersTyped, [Next]_vars
    PROVE  /\ saved' \in 0 .. MaxMessages /\ saved \in Nat /\ saved <= saved'
           /\ 1 .. saved \subseteq 1 .. saved'
<1>1. saved' = saved \/ (saved < MaxMessages /\ saved' = saved + 1)
  BY DEF Next, vars, Step, Save, Track, ReadHot, WriteFact, CountMessages, CountEpisodes,
         Select, InsertEpisode, CutShort, Clear, Quiet
<1>2. saved \in 0 .. MaxMessages /\ MaxMessages \in Nat
  BY SizeAssumption DEF LayersTyped
<1> QED
  BY <1>1, <1>2

LEMMA TurnsStep ==
    ASSUME TypesInv, [Next]_vars
    PROVE  TurnsTyped'
<1>1. ASSUME NEW t, Batched(t) PROVE Batched(t)'
  <2>1. ASSUME t.at = "insert" PROVE t.batch \in Seq(1 .. saved') /\ Len(t.batch) <= Size
    BY <1>1, <2>1, SavedGrows, SeqGrows DEF Batched, TypesInv
  <2> QED
    BY <2>1 DEF Batched
<1>2. ASSUME NEW w \in Writers, Step(w) \/ CutShort(w) PROVE TurnsTyped'
  <2>1. PICK t \in Turns : Goto(w, t) /\ Batched(t)
    BY <1>2, MoveTyped
  <2>2. turn' \in [Writers -> Turns] /\ turn'[w] = t
        /\ \A v \in Writers \ {w} : turn'[v] = turn[v]
    BY <2>1 DEF Goto, TypesInv, TurnsTyped
  <2>3. ASSUME NEW v \in Writers PROVE Batched(turn[v])'
    <3>1. PICK u : u = turn'[v]
      OBVIOUS
    <3>2. Batched(u)
      BY <2>1, <2>2, <3>1 DEF TypesInv, TurnsTyped
    <3>3. Batched(u)'
      BY <1>1, <3>2
    <3> QED
      BY <3>1, <3>3 DEF Batched
  <2> QED
    BY <2>2, <2>3 DEF TurnsTyped, Batched
<1>3. CASE UNCHANGED turn
  <2>1. ASSUME NEW v \in Writers PROVE Batched(turn[v])'
    <3>1. PICK u : u = turn[v]
      OBVIOUS
    <3>2. Batched(u)'
      BY <1>1, <3>1 DEF TypesInv, TurnsTyped
    <3> QED
      BY <1>3, <3>1, <3>2 DEF Batched
  <2> QED
    BY <1>3, <2>1 DEF TypesInv, TurnsTyped, Batched
<1> QED
  BY <1>2, <1>3 DEF Next, vars, Clear, Quiet

LEMMA HitsStep ==
    ASSUME TypesInv, [Next]_vars
    PROVE  HitsTyped'
<1>1. /\ hits \in Nat /\ IsFiniteSet(Tracking) /\ hits + Cardinality(Tracking) <= saved
      /\ saved \in Nat /\ DOMAIN turn = Writers /\ Cardinality(Tracking) \in Nat
  BY SizeAssumption, FS_CardinalityType DEF TypesInv, HitsTyped, LayersTyped, TurnsTyped
<1>2. PICK T : T = Tracking
  OBVIOUS
<1>3. PICK T2 : T2 = Tracking'
  OBVIOUS
<1>4. ASSUME NEW h2, h2 = hits', h2 \in Nat, IsFiniteSet(T2), h2 + Cardinality(T2) <= saved'
      PROVE  HitsTyped'
  BY <1>3, <1>4 DEF HitsTyped
<1>5. ASSUME NEW w \in Writers, Save(w) PROVE HitsTyped'
  <2>1. PICK t \in Turns : Goto(w, t)
    BY <1>5, MoveTyped DEF Step
  <2>2. T2 = T \/ T2 = T \cup {w}
    BY <1>1, <1>2, <1>3, <1>5, <2>1 DEF Goto, Save, Idle, Tracking
  <2>3. /\ IsFiniteSet(T \cup {w})
        /\ Cardinality(T \cup {w}) = IF w \in T THEN Cardinality(T) ELSE Cardinality(T) + 1
    BY <1>1, <1>2, FS_AddElement
  <2>4. IsFiniteSet(T2) /\ Cardinality(T2) \in {Cardinality(T), Cardinality(T) + 1}
    BY <1>1, <1>2, <2>2, <2>3
  <2>5. hits' = hits /\ saved' = saved + 1
    BY <1>5 DEF Save
  <2>6. hits + Cardinality(T2) <= saved + 1
    BY <1>1, <1>2, <2>4
  <2> QED
    BY <1>1, <1>4, <2>4, <2>5, <2>6
<1>6. ASSUME NEW w \in Writers, Track(w) PROVE HitsTyped'
  <2>1. T2 = T \ {w} /\ w \in T
    BY <1>1, <1>2, <1>3, <1>6 DEF Track, Goto, Tracking
  <2>2. IsFiniteSet(T2) /\ Cardinality(T2) = Cardinality(T) - 1
    BY <1>1, <1>2, <2>1, FS_RemoveElement
  <2>3. hits' = hits + 1 /\ saved' = saved
    BY <1>6 DEF Track
  <2>4. (hits + 1) + Cardinality(T2) <= saved
    BY <1>1, <1>2, <2>2
  <2> QED
    BY <1>1, <1>4, <2>2, <2>3, <2>4
<1>7. ASSUME NEW w \in Writers, Step(w), ~Save(w), ~Track(w) PROVE HitsTyped'
  <2>1. PICK t \in Turns : Goto(w, t) /\ t.at # "track"
    BY <1>7, MoveTyped
  <2>2. turn[w].at # "track" /\ UNCHANGED <<hits, saved>>
    BY <1>7 DEF Step, ReadHot, WriteFact, CountMessages, CountEpisodes, Select, InsertEpisode
  <2>3. T2 = T
    BY <1>1, <1>2, <1>3, <2>1, <2>2 DEF Goto, Tracking
  <2> QED
    BY <1>1, <1>2, <1>4, <2>2, <2>3
<1>8. ASSUME NEW layer, Clear(layer) PROVE HitsTyped'
  <2>1. hits' \in {0, hits} /\ saved' = saved /\ turn' = turn
    BY <1>8 DEF Clear
  <2>2. T2 = T
    BY <1>2, <1>3, <2>1 DEF Tracking
  <2>3. \A h \in {0, hits} : h \in Nat /\ h + Cardinality(T2) <= saved'
    BY <1>1, <1>2, <2>1, <2>2
  <2> QED
    BY <1>1, <1>2, <1>4, <2>1, <2>2, <2>3
<1>9. CASE UNCHANGED vars
  <2>1. T2 = T /\ hits' = hits /\ saved' = saved
    BY <1>2, <1>3, <1>9 DEF vars, Tracking
  <2> QED
    BY <1>1, <1>2, <1>4, <2>1
<1>10. ASSUME NEW w \in Writers, CutShort(w) PROVE HitsTyped'
  <2>1. T2 = T \ {w}
    <3>1. Goto(w, Idle)
      BY <1>10, CutMove
    <3>2. turn'[w].at # "track" /\ \A v \in Writers \ {w} : turn'[v] = turn[v]
      BY <1>1, <3>1 DEF Goto, Idle
    <3> QED
      BY <1>2, <1>3, <3>2 DEF Tracking
  <2>2. IsFiniteSet(T2) /\ Cardinality(T2) <= Cardinality(T) /\ Cardinality(T2) \in Nat
    <3>1. /\ IsFiniteSet(T \ {w})
          /\ Cardinality(T \ {w}) = IF w \in T THEN Cardinality(T) - 1 ELSE Cardinality(T)
      BY <1>1, <1>2, FS_RemoveElement
    <3>2. Cardinality(T) \in Nat /\ Cardinality(T \ {w}) \in Nat
      BY <1>1, <1>2, <3>1, FS_CardinalityType
    <3> QED
      BY <2>1, <3>1, <3>2
  <2>3. hits' = hits /\ saved' = saved
    BY <1>10, CutMove
  <2>4. hits + Cardinality(T2) <= saved
    BY <1>1, <1>2, <2>2
  <2> QED
    BY <1>1, <1>4, <2>2, <2>3, <2>4
<1> QED
  BY <1>5, <1>6, <1>7, <1>8, <1>9, <1>10 DEF Next, Quiet

LEMMA LayersStep ==
    ASSUME TypesInv, [Next]_vars
    PROVE  LayersTyped'
<1> DEFINE Stored(h) == h \in Seq(1 .. saved') /\ Len(h) <= saved'
           Told(e) == e \in Seq(Seq(1 .. saved')) /\ \A k \in DOMAIN e : Len(e[k]) <= Size
<1>0. /\ saved' \in 0 .. MaxMessages /\ saved \in Nat /\ saved <= saved'
      /\ 1 .. saved \subseteq 1 .. saved'
  BY SavedGrows DEF TypesInv
<1>1. Stored(history) /\ Stored(<<>>)
  <2>1. history \in Seq(1 .. saved) /\ Len(history) <= saved /\ Len(history) \in Nat
    BY DEF TypesInv, LayersTyped
  <2>2. history \in Seq(1 .. saved')
    BY <1>0, <2>1, SeqGrows
  <2>3. Len(history) <= saved'
    BY <1>0, <2>1
  <2>4. <<>> \in Seq(1 .. saved') /\ Len(<<>>) = 0
    OBVIOUS
  <2> QED
    BY <1>0, <2>2, <2>3, <2>4
<1>2. Told(episodes) /\ Told(<<>>)
  <2>1. /\ episodes \in Seq(Seq(1 .. saved))
        /\ \A k \in DOMAIN episodes : Len(episodes[k]) <= Size
    BY DEF TypesInv, LayersTyped
  <2>2. Seq(1 .. saved) \subseteq Seq(1 .. saved')
    BY <1>0, SeqGrows
  <2>3. episodes \in Seq(Seq(1 .. saved'))
    BY <2>1, <2>2, SeqGrows
  <2> QED
    BY <2>1, <2>3
<1>3. fact \in 0 .. MaxMessages /\ events \subseteq Events /\ 0 \in 0 .. MaxMessages
  BY SizeAssumption DEF TypesInv, LayersTyped
<1>4. ASSUME Stored(history'), Told(episodes'), fact' \in 0 .. MaxMessages,
             events' \subseteq Events
      PROVE  LayersTyped'
  BY <1>0, <1>4 DEF LayersTyped
<1>5. ASSUME NEW w \in Writers, Save(w) PROVE LayersTyped'
  <2>1. saved' = saved + 1 /\ history' = Append(history, saved') /\ UNCHANGED <<episodes, fact>>
    BY <1>5 DEF Save
  <2>2. events' \subseteq Events
    BY <1>3, <1>5 DEF Save, Events
  <2>3. saved' \in 1 .. saved'
    BY <1>0, <2>1
  <2>4. history' \in Seq(1 .. saved') /\ Len(history') = Len(history) + 1
    BY <1>1, <2>1, <2>3
  <2>5. Len(history) <= saved /\ Len(history) \in Nat
    BY DEF TypesInv, LayersTyped
  <2>6. Stored(history')
    BY <1>0, <2>1, <2>4, <2>5
  <2> HIDE DEF Stored, Told
  <2> QED
    BY <1>2, <1>3, <1>4, <2>1, <2>2, <2>6
<1>6. ASSUME NEW w \in Writers, WriteFact(w) PROVE LayersTyped'
  <2>1. turn[w] \in Turns /\ turn[w].at = "promote" /\ fact' = turn[w].seen
        /\ UNCHANGED <<history, episodes, events>>
    BY <1>6 DEF WriteFact, TypesInv, TurnsTyped
  <2>2. fact' \in 0 .. MaxMessages
    BY <2>1, Locals
  <2> HIDE DEF Stored, Told
  <2> QED
    BY <1>1, <1>2, <1>3, <1>4, <2>1, <2>2
<1>7. ASSUME NEW w \in Writers, InsertEpisode(w) PROVE LayersTyped'
  <2>1. PICK b : b = turn[w].batch
    OBVIOUS
  <2>2. /\ episodes' = Append(episodes, b) /\ UNCHANGED <<saved, history, fact, events>>
        /\ b \in Seq(1 .. saved') /\ Len(b) <= Size
    BY <1>7, <2>1 DEF InsertEpisode, TypesInv, TurnsTyped, Batched
  <2>3. Told(episodes')
    <3>1. episodes \in Seq(Seq(1 .. saved'))
      BY <1>2
    <3>2. /\ episodes' \in Seq(Seq(1 .. saved'))
          /\ DOMAIN episodes' = DOMAIN episodes \cup {Len(episodes) + 1}
          /\ episodes'[Len(episodes) + 1] = b
          /\ \A k \in DOMAIN episodes : episodes'[k] = episodes[k]
      BY <2>2, <3>1
    <3> QED
      BY <1>2, <2>2, <3>2
  <2> HIDE DEF Stored, Told
  <2> QED
    BY <1>1, <1>3, <1>4, <2>2, <2>3
<1>8. ASSUME UNCHANGED <<history, episodes, fact, events>> PROVE LayersTyped'
  <2> HIDE DEF Stored, Told
  <2> QED
    BY <1>1, <1>2, <1>3, <1>4, <1>8
<1>9. ASSUME NEW layer \in {"working", "episodic", "core", "all"}, Clear(layer) PROVE LayersTyped'
  <2>1. /\ history' \in {history, <<>>} /\ episodes' \in {episodes, <<>>} /\ fact' \in {0, fact}
        /\ events' \subseteq Events
    BY <1>3, <1>9 DEF Clear, Events
  <2>2. Stored(history')
    BY <1>1, <2>1, Zenon
  <2>3. Told(episodes')
    BY <1>2, <2>1, Zenon
  <2> HIDE DEF Stored, Told
  <2> QED
    BY <1>3, <1>4, <2>1, <2>2, <2>3
<1>10. ASSUME NEW w \in Writers, CutShort(w) PROVE LayersTyped'
  <2>1. history' = history /\ episodes' = episodes /\ fact' = fact /\ events' \subseteq Events
    BY <1>3, <1>10 DEF CutShort, Events
  <2> HIDE DEF Stored, Told
  <2> QED
    BY <1>1, <1>2, <1>3, <1>4, <2>1
<1> QED
  BY <1>5, <1>6, <1>7, <1>8, <1>9, <1>10
  DEF Next, vars, Step, Track, ReadHot, CountMessages, CountEpisodes, Select, Quiet

LEMMA TypesInit == Init => TypesInv
<1> SUFFICES ASSUME Init PROVE TypesInv
  OBVIOUS
<1>1. Tracking = {} /\ IsFiniteSet({}) /\ Cardinality({}) = 0
  BY FS_EmptySet DEF Init, Tracking, Idle
<1>2. HitsTyped
  BY <1>1 DEF Init, HitsTyped
<1>3. LayersTyped
  BY SizeAssumption DEF Init, LayersTyped
<1>4. TurnsTyped
  BY TurnForms DEF Init, TurnsTyped, Batched, Idle
<1> QED
  BY <1>2, <1>3, <1>4 DEF TypesInv

LEMMA TypesTyped == TypesInv => TypeOK
<1> SUFFICES ASSUME TypesInv PROVE TypeOK
  OBVIOUS
<1>1. hits \in 0 .. MaxMessages
  <2>1. PICK c \in Nat : c = Cardinality(Tracking)
    BY FS_CardinalityType DEF TypesInv, HitsTyped
  <2>2. /\ hits \in Nat /\ hits + c <= saved /\ saved \in Nat /\ saved <= MaxMessages
        /\ MaxMessages \in Nat
    BY <2>1, SizeAssumption DEF TypesInv, HitsTyped, LayersTyped
  <2> QED
    BY <2>2
<1>2. \A k \in DOMAIN episodes : episodes[k] \in Seq(1 .. saved) /\ Len(episodes[k]) <= Size
  BY DEF TypesInv, LayersTyped
<1> QED
  BY <1>1, <1>2 DEF TypesInv, LayersTyped, TurnsTyped, TypeOK

(* For every number of turns at once, memory_size and promotion threshold: *)
(* the layers hold messages that were saved and no summary is of more than *)
(* memory_size; the hits of a topic, and with them the count a turn is     *)
(* about to write, never exceed the messages.                              *)
THEOREM TypeCorrect == Spec => []TypeOK
<1>1. TypesInv /\ [Next]_vars => TypesInv'
  BY TurnsStep, HitsStep, LayersStep DEF TypesInv
<1> QED
  BY <1>1, TypesInit, TypesTyped, PTL DEF Spec
================================================================================
