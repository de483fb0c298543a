--------------------------- MODULE DecisionFeedProofs ---------------------------
(***************************************************************************)
(* Theorems about DecisionFeed for any number of oracles, raters and       *)
(* syncers, any processes they run in, and any number of decisions,        *)
(* rewrites, overlapping syncs, faults and crashes.                        *)
(***************************************************************************)
EXTENDS DecisionFeed, SequenceTheorems, FiniteSetTheorems, WellFoundedInduction, TLAPS

Ratings == {Idle} \cup [at : {"truncate", "write"}, lines : Seq(Entries)]

LogTypes ==
    /\ now \in 1 .. MaxNow /\ made \in 0 .. MaxDecisions
    /\ pen \in [Oracles -> Entries \cup {Idle}]
    /\ file \in Seq(Entries) /\ rating \in [Raters -> Ratings]

(* What a feedback under way will write back is everything that is not at  *)
(* risk already; LogKept alone says nothing of a rater that has read and   *)
(* not yet emptied the file.                                               *)
CopyKept == \A r \in Raters : rating[r] # Idle => said \ risked \subseteq Lines(rating[r].lines)

LogInv == LogTypes /\ CopyKept /\ LogKept

--------------------------------------------------------------------------------
(* The log as a set of lines.                                              *)

LEMMA LinesOfAppend ==
    ASSUME NEW s \in Seq(Entries), NEW e \in Entries
    PROVE  Append(s, e) \in Seq(Entries) /\ Lines(Append(s, e)) = Lines(s) \cup {e}
<1>1. /\ Append(s, e) \in Seq(Entries)
      /\ Len(Append(s, e)) = Len(s) + 1
      /\ \A i \in 1 .. Len(s) : Append(s, e)[i] = s[i]
      /\ Append(s, e)[Len(s) + 1] = e
    BY AppendProperties
<1>2. DOMAIN s = 1 .. Len(s) /\ Len(s) \in Nat /\ DOMAIN Append(s, e) = 1 .. Len(s) + 1
    BY <1>1, LenProperties
<1>3. DOMAIN Append(s, e) = DOMAIN s \cup {Len(s) + 1}
    BY <1>2
<1> QED BY <1>1, <1>2, <1>3 DEF Lines

(* A rewrite writes all its lines, whatever outlives it behind them.       *)
LEMMA LinesOfRewrite ==
    ASSUME NEW s \in Seq(Entries), NEW t \in Seq(Entries), NEW k \in 0 .. Len(t)
    PROVE  /\ s \o SubSeq(t, k + 1, Len(t)) \in Seq(Entries)
           /\ Lines(s) \subseteq Lines(s \o SubSeq(t, k + 1, Len(t)))
<1> DEFINE rest == SubSeq(t, k + 1, Len(t))
<1>1. rest \in Seq(Entries)
    BY LenProperties, SubSeqProperties
<1>2. /\ s \o rest \in Seq(Entries)
      /\ Len(s \o rest) = Len(s) + Len(rest)
      /\ \A i \in 1 .. Len(s) : (s \o rest)[i] = s[i]
    BY <1>1, ConcatProperties
<1>3. DOMAIN s = 1 .. Len(s) /\ DOMAIN (s \o rest) = 1 .. Len(s) + Len(rest)
      /\ Len(s) \in Nat /\ Len(rest) \in Nat
    BY <1>1, <1>2, LenProperties
<1>4. DOMAIN s \subseteq DOMAIN (s \o rest)
    BY <1>3
<1> QED BY <1>2, <1>3, <1>4 DEF Lines

LEMMA RewrittenLines ==
    ASSUME NEW s \in Seq(Entries), NEW t \in Seq(Entries), NEW k \in 0 .. Len(t)
    PROVE  LET both == s \o SubSeq(t, k + 1, Len(t)) IN
           /\ Len(s) \in Nat /\ DOMAIN s = 1 .. Len(s) /\ DOMAIN both \subseteq Nat
           /\ \A i \in DOMAIN both :
                 \/ i \in DOMAIN s /\ both[i] = s[i]
                 \/ i \notin DOMAIN s /\ k + (i - Len(s)) \in DOMAIN t /\ both[i] = t[k + (i - Len(s))]
<1> DEFINE rest == SubSeq(t, k + 1, Len(t))  both == s \o rest
<1>1. /\ Len(t) \in Nat /\ Len(s) \in Nat /\ DOMAIN t = 1 .. Len(t) /\ DOMAIN s = 1 .. Len(s)
    BY LenProperties
<1>2. /\ rest \in Seq(Entries) /\ Len(rest) = Len(t) - k
      /\ \A i \in 1 .. Len(t) - k : rest[i] = t[k + i]
  <2>1. k \in Int /\ k <= Len(t) /\ \A i \in k + 1 .. Len(t) : t[i] \in Entries
      BY <1>1
  <2>2. /\ rest \in Seq(Entries)
        /\ Len(rest) = IF k + 1 <= Len(t) THEN Len(t) - (k + 1) + 1 ELSE 0
        /\ \A i \in 1 .. Len(t) - (k + 1) + 1 : rest[i] = t[k + 1 + i - 1]
      BY <1>1, <2>1, SubSeqProperties
  <2> HIDE DEF rest
  <2>3. Len(rest) = Len(t) - k
    <3>1. PICK n : n = Len(t)
        OBVIOUS
    <3>2. PICK m : m = Len(rest)
        OBVIOUS
    <3>3. n \in Nat /\ k \in Int /\ k <= n
        BY <1>1, <2>1, <3>1
    <3>4. m = IF k + 1 <= n THEN n - (k + 1) + 1 ELSE 0
        BY <2>2, <3>1, <3>2
    <3>5. m = n - k
        BY <3>3, <3>4
    <3> QED BY <3>1, <3>2, <3>5
  <2>4. \A i \in 1 .. Len(t) - k : i \in 1 .. Len(t) - (k + 1) + 1 /\ k + 1 + i - 1 = k + i
      BY <1>1, <2>1
  <2> QED BY <2>2, <2>3, <2>4
<1>3. /\ both \in Seq(Entries) /\ Len(both) = Len(s) + Len(rest)
      /\ \A i \in 1 .. Len(s) : both[i] = s[i]
      /\ \A i \in Len(s) + 1 .. Len(s) + Len(rest) : both[i] = rest[i - Len(s)]
  <2>1. /\ both \in Seq(Entries) /\ Len(both) = Len(s) + Len(rest)
        /\ \A i \in 1 .. Len(s) + Len(rest) : both[i] = IF i <= Len(s) THEN s[i] ELSE rest[i - Len(s)]
      BY <1>2, ConcatProperties
  <2>2. Len(rest) \in Nat
      BY <1>2, LenProperties
  <2> HIDE DEF both, rest
  <2> QED BY <1>1, <2>1, <2>2
<1>4. DOMAIN both = 1 .. Len(s) + Len(rest)
    BY <1>3, LenProperties
<1> HIDE DEF both, rest
<1>5. ASSUME NEW i \in DOMAIN both, i \notin DOMAIN s
      PROVE  k + (i - Len(s)) \in DOMAIN t /\ both[i] = t[k + (i - Len(s))]
  <2>1. i \in Len(s) + 1 .. Len(s) + Len(rest)
      BY <1>1, <1>2, <1>4, <1>5
  <2>2. i - Len(s) \in 1 .. Len(t) - k /\ k + (i - Len(s)) \in DOMAIN t
      BY <1>1, <1>2, <2>1
  <2> QED BY <1>2, <1>3, <2>1, <2>2
<1>6. /\ DOMAIN both \subseteq Nat
      /\ \A i \in DOMAIN both :
            \/ i \in DOMAIN s /\ both[i] = s[i]
            \/ i \notin DOMAIN s /\ k + (i - Len(s)) \in DOMAIN t /\ both[i] = t[k + (i - Len(s))]
    BY <1>1, <1>3, <1>4, <1>5
<1> QED BY <1>1, <1>6 DEF both, rest

(* Nothing comes from anywhere else.                                       *)
LEMMA LinesOfOver ==
    ASSUME NEW s \in Seq(Entries), NEW t \in Seq(Entries), NEW k \in 0 .. Len(t)
    PROVE  Lines(s \o SubSeq(t, k + 1, Len(t))) \subseteq Lines(s) \cup Lines(t)
<1> DEFINE both == s \o SubSeq(t, k + 1, Len(t))
<1>1. \A i \in DOMAIN both : both[i] \in Lines(s) \cup Lines(t)
    BY RewrittenLines, SMTT(20) DEF Lines
<1> QED BY <1>1 DEF Lines

LEMMA PrefixOf ==
    ASSUME NEW s \in Seq(Entries), NEW n \in 0 .. Len(s)
    PROVE  /\ SubSeq(s, 1, n) \in Seq(Entries) /\ Lines(SubSeq(s, 1, n)) \subseteq Lines(s)
           /\ DOMAIN SubSeq(s, 1, n) \subseteq DOMAIN s
           /\ \A i \in DOMAIN SubSeq(s, 1, n) : SubSeq(s, 1, n)[i] = s[i]
<1> DEFINE part == SubSeq(s, 1, n)
<1>1. Len(s) \in Nat /\ DOMAIN s = 1 .. Len(s) /\ \A i \in 1 .. n : s[i] \in Entries
    BY LenProperties
<1>2. /\ part \in Seq(Entries)
      /\ Len(part) = IF 1 <= n THEN n - 1 + 1 ELSE 0
      /\ \A i \in 1 .. n - 1 + 1 : part[i] = s[1 + i - 1]
    BY <1>1, SubSeqProperties
<1> HIDE DEF part
<1>3. Len(part) = n /\ \A i \in 1 .. n : part[i] = s[i]
    BY <1>1, <1>2
<1>4. DOMAIN part = 1 .. n
    BY <1>2, <1>3, LenProperties
<1>5. DOMAIN part \subseteq DOMAIN s /\ \A i \in DOMAIN part : part[i] = s[i]
    BY <1>1, <1>3, <1>4
<1>6. part \in Seq(Entries) /\ Lines(part) \subseteq Lines(s)
    BY <1>2, <1>5 DEF Lines
<1> QED BY <1>5, <1>6 DEF part

LEMMA RatingCases ==
    ASSUME LogTypes, NEW r \in Raters, rating[r] # Idle
    PROVE  /\ rating[r] \in [at : {"truncate", "write"}, lines : Seq(Entries)]
           /\ rating[r].lines \in Seq(Entries) /\ rating[r].at \in {"truncate", "write"}
BY DEF LogTypes, Ratings

--------------------------------------------------------------------------------
LEMMA LogInvStep ==
    ASSUME LogInv, [Next]_vars PROVE LogInv'
<1> USE DEF LogInv
<1>1. ASSUME NEW o \in Oracles, Decide(o) PROVE LogInv'
  <2>1. UNCHANGED <<now, file, said, risked, rating>>
      BY <1>1 DEF Decide, rateVars
  <2>2. LogTypes'
    <3>1. made + 1 \in Ids /\ made' \in 0 .. MaxDecisions
        BY <1>1, FeedAssumption DEF Decide, LogTypes, Ids
    <3>2. PICK kind \in Kinds : pen' = [pen EXCEPT ![o] =
                                         [id |-> made + 1, ts |-> now, kind |-> kind]]
        BY <1>1 DEF Decide
    <3>3. [id |-> made + 1, ts |-> now, kind |-> kind] \in Entries
        BY <3>1 DEF Entries, LogTypes
    <3> QED BY <2>1, <3>1, <3>2, <3>3 DEF LogTypes
  <2> QED BY <2>1, <2>2 DEF CopyKept, LogKept
<1>2. ASSUME NEW o \in Oracles, SaveDecision(o) PROVE LogInv'
  <2> DEFINE e == pen[o]
  <2>1. e \in Entries /\ UNCHANGED <<now, made, rating>>
      BY <1>2 DEF SaveDecision, LogTypes
  <2>2. pen' \in [Oracles -> Entries \cup {Idle}]
      BY <1>2 DEF SaveDecision, LogTypes
  <2>3. CASE UNCHANGED <<file, said, risked>>
      BY <2>1, <2>2, <2>3 DEF LogTypes, CopyKept, LogKept
  <2>4. CASE /\ file' = Append(file, e) /\ said' = said \cup {e}
             /\ risked' = IF \E r \in Raters : rating[r] # Idle THEN risked \cup {e} ELSE risked
    <3>1. file' \in Seq(Entries) /\ Lines(file)' = Lines(file) \cup {e}
      <4>1. file \in Seq(Entries) /\ Lines(file)' = Lines(file')
          BY DEF LogTypes, Lines
      <4> HIDE DEF e
      <4> QED BY <2>1, <2>4, <4>1, LinesOfAppend
    <3>2. LogTypes'
        BY <2>1, <2>2, <3>1 DEF LogTypes
    <3> QED BY <2>1, <2>4, <3>1, <3>2 DEF CopyKept, LogKept
  <2> QED BY <1>2, <2>3, <2>4 DEF SaveDecision
<1>3. ASSUME NEW r \in Raters, ReadForFeedback(r) PROVE LogInv'
  <2>1. /\ rating[r] = Idle /\ UNCHANGED <<now, made, pen, file, said>>
        /\ rating' = [rating EXCEPT ![r] = [at |-> "truncate", lines |-> file]]
        /\ risked' = IF \E q \in Raters : rating[q] # Idle THEN said ELSE risked
      BY <1>3 DEF ReadForFeedback, logVars
  <2>2. [at |-> "truncate", lines |-> file] \in [at : {"truncate", "write"}, lines : Seq(Entries)]
      BY DEF LogTypes
  <2>3. LogTypes'
      BY <2>1, <2>2 DEF LogTypes, Ratings
  <2>4. /\ rating'[r].at = "truncate" /\ rating'[r].lines = file
        /\ \A q \in Raters : q # r => rating'[q] = rating[q]
      BY <2>1 DEF LogTypes
  <2>5. CASE \E q \in Raters : rating[q] # Idle
      BY <2>1, <2>3, <2>5 DEF CopyKept, LogKept
  <2>6. CASE \A q \in Raters : rating[q] = Idle
    <3>1. said \ risked \subseteq Lines(file)
        BY <2>6 DEF LogKept, Idle
    <3> QED BY <2>1, <2>3, <2>4, <2>6, <3>1 DEF CopyKept, LogKept, Lines
  <2> QED BY <2>5, <2>6
<1>4. ASSUME NEW r \in Raters, TruncateLog(r) PROVE LogInv'
  <2>1. /\ rating[r].at = "truncate" /\ UNCHANGED <<now, made, pen, said, risked>>
        /\ file' = <<>> /\ rating' = [rating EXCEPT ![r].at = "write"]
      BY <1>4 DEF TruncateLog
  <2>2. rating[r] # Idle
      BY <2>1 DEF Idle
  <2>3. /\ rating'[r] \in [at : {"truncate", "write"}, lines : Seq(Entries)]
        /\ rating'[r].at = "write" /\ rating'[r].lines = rating[r].lines
        /\ \A q \in Raters : q # r => rating'[q] = rating[q]
      BY <2>1, <2>2, RatingCases DEF LogTypes
  <2>4. LogTypes'
    <3>1. file' \in Seq(Entries)
        BY <2>1
    <3>2. rating' \in [Raters -> Ratings]
        BY <2>1, <2>3 DEF LogTypes, Ratings
    <3> QED BY <2>1, <3>1, <3>2 DEF LogTypes
  <2>5. CopyKept'
      BY <2>1, <2>2, <2>3 DEF CopyKept, Lines
  <2>6. said' \ risked' \subseteq Lines(rating'[r].lines)
      BY <2>1, <2>2, <2>3 DEF CopyKept
  <2> QED BY <2>3, <2>4, <2>5, <2>6 DEF LogKept, Lines
<1>5. ASSUME NEW r \in Raters, WriteLog(r) PROVE LogInv'
  <2>1. /\ rating[r].at = "write" /\ UNCHANGED <<now, made, pen, said, risked>>
        /\ rating' = [rating EXCEPT ![r] = Idle]
      BY <1>5 DEF WriteLog
  <2>2. rating[r] # Idle
      BY <2>1 DEF Idle
  <2>3. PICK over \in (IF file = <<>> THEN {0} ELSE 1 .. Len(file)) :
            file' = rating[r].lines \o SubSeq(file, over + 1, Len(file))
      BY <1>5 DEF WriteLog, Overwritten
  <2>4. over \in 0 .. Len(file)
      BY <2>3, LenProperties DEF LogTypes
  <2>5. file' \in Seq(Entries) /\ Lines(rating[r].lines) \subseteq Lines(file')
    <3>1. rating[r].lines \in Seq(Entries) /\ file \in Seq(Entries)
        BY <2>2, RatingCases DEF LogTypes
    <3> QED BY <2>3, <2>4, <3>1, LinesOfRewrite
  <2>6. LogTypes'
      BY <2>1, <2>5 DEF LogTypes, Ratings
  <2>7. CopyKept'
      BY <2>1 DEF CopyKept, LogTypes
  <2>8. said' \ risked' \subseteq Lines(file')
      BY <2>1, <2>2, <2>5 DEF CopyKept
  <2> QED BY <2>6, <2>7, <2>8 DEF LogKept
<1>11. ASSUME NEW r \in Raters, WriteLogFails(r) PROVE LogInv'
  <2>1. /\ rating[r].at = "write" /\ UNCHANGED <<now, made, pen, said>>
        /\ rating' = [rating EXCEPT ![r] = Idle] /\ risked' = risked \cup Lines(rating[r].lines)
      BY <1>11 DEF WriteLogFails
  <2>2. rating[r] # Idle
      BY <2>1 DEF Idle
  <2>3. PICK part \in 0 .. Len(rating[r].lines), over \in 0 .. Len(file) :
            file' = SubSeq(rating[r].lines, 1, part) \o SubSeq(file, over + 1, Len(file))
      BY <1>11 DEF WriteLogFails, Overwritten
  <2>4. file' \in Seq(Entries)
    <3>1. rating[r].lines \in Seq(Entries) /\ file \in Seq(Entries)
        BY <2>2, RatingCases DEF LogTypes
    <3>2. SubSeq(rating[r].lines, 1, part) \in Seq(Entries)
        BY <3>1, PrefixOf
    <3> QED BY <2>3, <3>1, <3>2, LinesOfRewrite
  <2>5. LogTypes'
      BY <2>1, <2>4 DEF LogTypes, Ratings
  <2>6. said' \ risked' = {}
      BY <2>1, <2>2 DEF CopyKept
  <2> QED BY <2>5, <2>6 DEF CopyKept, LogKept
<1>6. ASSUME NEW p \in Processes, Crash(p) PROVE LogInv'
  <2>1. /\ UNCHANGED <<now, made, file, said>>
        /\ rating' = [r \in Raters |-> IF r \in p THEN Idle ELSE rating[r]]
        /\ pen' = [o \in Oracles |-> IF o \in p THEN Idle ELSE pen[o]]
        /\ risked' = risked \cup UNION {Lines(rating[r].lines) : r \in {q \in Raters \cap p :
                                                                          rating[q].at = "write"}}
      BY <1>6 DEF Crash
  <2>2. pen' \in [Oracles -> Entries \cup {Idle}]
      BY <2>1 DEF LogTypes
  <2>3. LogTypes'
      BY <2>1, <2>2 DEF LogTypes, Ratings
  <2>4. CopyKept'
      BY <2>1 DEF CopyKept, Lines
  <2>5. CASE \E r \in Raters \cap p : rating[r].at = "write"
    <3>1. PICK r \in Raters \cap p : rating[r].at = "write"
        BY <2>5
    <3>2. said \ risked \subseteq Lines(rating[r].lines) /\ Lines(rating[r].lines) \subseteq risked'
        BY <2>1, <3>1 DEF CopyKept, Idle
    <3>3. said' \ risked' = {}
        BY <2>1, <3>2
    <3> QED BY <2>3, <2>4, <3>3 DEF LogKept
  <2>6. CASE \A r \in Raters \cap p : rating[r].at # "write"
    <3>1. \A r \in Raters : rating[r].at = "write" => rating'[r] = rating[r]
        BY <2>1, <2>6
    <3>2. ASSUME NEW e \in said' \ risked', e \notin Lines(file')
          PROVE  \E r \in Raters : rating'[r].at = "write" /\ e \in Lines(rating'[r].lines)
      <4>1. e \in said \ risked /\ e \notin Lines(file)
          BY <2>1, <3>2
      <4>2. PICK r \in Raters : rating[r].at = "write" /\ e \in Lines(rating[r].lines)
          BY <4>1 DEF LogKept
      <4> QED BY <3>1, <4>2
    <3> QED BY <2>3, <2>4, <3>2 DEF LogKept
  <2> QED BY <2>5, <2>6
<1>7. ASSUME UNCHANGED <<made, pen, file, said, risked, rating>>, now' \in 1 .. MaxNow PROVE LogInv'
    BY <1>7 DEF LogTypes, CopyKept, LogKept
<1>8. ASSUME Tick PROVE LogInv'
    BY <1>7, <1>8, FeedAssumption DEF Tick, LogTypes, logVars, rateVars
<1>9. ASSUME NEW s \in Syncers, SyncStep(s) PROVE LogInv'
  <2>1. UNCHANGED <<now, logVars, rateVars>>
      BY <1>9 DEF SyncStep, ReadLog, NoMarker, ReadMarker, Feed, FeedRaises, EmptyMarker,
                  PutMarker, MarkerFails
  <2> QED BY <1>7, <2>1 DEF LogTypes, logVars, rateVars
<1>10. ASSUME UNCHANGED vars PROVE LogInv'
    BY <1>7, <1>10 DEF LogTypes, vars, logVars, rateVars
<1> QED BY <1>1, <1>2, <1>3, <1>4, <1>5, <1>6, <1>8, <1>9, <1>10, <1>11 DEF Next, RewriteStep

(* SimCore's decision log loses a saved decision only to a feedback that   *)
(* was under way when it was saved, to two feedbacks at once, or to the    *)
(* death of the process, or a write that fails, once the file is empty,    *)
(* for any number of processes that append and rewrite                     *)
(* (oracle_agent.py:90-104).                                               *)
THEOREM DecisionsKept == Spec => []LogKept
<1>1. Init => LogInv
    BY FeedAssumption DEF Init, LogInv, LogTypes, CopyKept, LogKept, Ratings
<1>2. LogInv /\ [Next]_vars => LogInv'
    BY LogInvStep
<1>3. LogInv => LogKept
    BY DEF LogInv
<1> QED BY <1>1, <1>2, <1>3, PTL DEF Spec

--------------------------------------------------------------------------------
(* Two facts the library states only for operators: a nonempty set of      *)
(* naturals has a smallest element, and what holds of 0 and passes from    *)
(* each number to the next holds of an interval.                           *)

LEMMA Smallest ==
    ASSUME NEW T \in SUBSET Nat, T # {}
    PROVE  \E x \in T : \A y \in T : x <= y
<1> DEFINE R == OpToRel(<, Nat)
<1>1. IsWellFoundedOn(R, Nat)
    BY NatLessThanWellFounded
<1>2. \A x, y \in Nat : y < x => <<y, x>> \in R
    BY DEF OpToRel
<1> HIDE DEF R
<1>3. PICK x \in T : \A y \in T : ~(<<y, x>> \in R)
    BY <1>1, WFMin
<1>4. \A y \in T : ~(y < x)
    BY <1>2, <1>3
<1> QED BY <1>4

LEMMA Upwards ==
    ASSUME NEW n \in Nat, NEW T, 0 \in T, \A k \in 0 .. n - 1 : k \in T => k + 1 \in T
    PROVE  0 .. n \subseteq T
<1> SUFFICES ASSUME 0 .. n \ T # {} PROVE FALSE
    OBVIOUS
<1> DEFINE U == 0 .. n \ T
<1>1. PICK x \in U : \A y \in U : x <= y
  <2>1. U \in SUBSET Nat
      OBVIOUS
  <2> QED BY <2>1, Smallest
<1>2. x # 0 /\ x - 1 \in 0 .. n - 1 /\ x - 1 \notin U
    BY <1>1
<1> QED BY <1>1, <1>2

LEMMA Greatest ==
    ASSUME NEW n \in Nat, NEW S \in SUBSET (0 .. n), S # {}
    PROVE  \E x \in S : \A y \in S : y <= x
<1> DEFINE D == {n - x : x \in S}
<1>1. D \in SUBSET Nat
  <2>1. \A x \in S : x \in 0 .. n /\ n - x \in Nat
      OBVIOUS
  <2> QED BY <2>1
<1>2. D # {}
    OBVIOUS
<1> HIDE DEF D
<1>3. PICK d \in D : \A y \in D : d <= y
    BY <1>1, <1>2, Smallest
<1>4. PICK x \in S : d = n - x
    BY DEF D
<1>5. ASSUME NEW y \in S PROVE y <= x
  <2>1. n - y \in D
      BY DEF D
  <2>2. n - x <= n - y
      BY <1>3, <1>4, <2>1
  <2>3. x \in 0 .. n /\ y \in 0 .. n
      OBVIOUS
  <2> QED BY <2>2, <2>3
<1> QED BY <1>5

(* The newest of some lines is the time of one of them, and none is later. *)
LEMMA LatestIsLast ==
    ASSUME NEW lines \in Seq(Entries), lines # <<>>
    PROVE  /\ \E e \in Lines(lines) : e.ts = Latest(lines)
           /\ \A e \in Lines(lines) : e.ts <= Latest(lines)
<1> DEFINE S == {lines[i].ts : i \in DOMAIN lines}
<1>1. 1 \in DOMAIN lines /\ \A i \in DOMAIN lines : lines[i] \in Entries
    BY LenProperties, EmptySeq
<1>2. S \in SUBSET (0 .. MaxNow) /\ S # {}
    BY <1>1 DEF Entries
<1> HIDE DEF S
<1>3. PICK x \in S : \A y \in S : y <= x
    BY <1>2, Greatest, FeedAssumption
<1>4. \A y \in S : x >= y
    BY <1>2, <1>3
<1>5. Max(S) \in S /\ \A y \in S : Max(S) >= y
    BY <1>4 DEF Max
<1>6. \A y \in S : y <= Max(S)
    BY <1>2, <1>5
<1> QED BY <1>5, <1>6 DEF S, Lines, Latest

--------------------------------------------------------------------------------
(* What is newer than a time keeps the lines that are, each as often as it *)
(* was there.                                                              *)

Distinct(s) == \A i, j \in DOMAIN s : s[i].id = s[j].id => i = j

LEMMA DistinctAppend ==
    ASSUME NEW s \in Seq(Entries), NEW e \in Entries, Distinct(s), \A f \in Lines(s) : f.id # e.id
    PROVE  Distinct(Append(s, e))
<1>1. /\ DOMAIN s = 1 .. Len(s) /\ Len(s) \in Nat /\ DOMAIN Append(s, e) = 1 .. Len(s) + 1
      /\ \A i \in 1 .. Len(s) : Append(s, e)[i] = s[i]
      /\ Append(s, e)[Len(s) + 1] = e
    BY AppendProperties, LenProperties
<1> SUFFICES ASSUME NEW i \in DOMAIN Append(s, e), NEW j \in DOMAIN Append(s, e),
                    Append(s, e)[i].id = Append(s, e)[j].id, i # j
             PROVE  FALSE
    BY DEF Distinct
<1>2. \A a, b \in DOMAIN s : s[a].id = s[b].id => a = b
    BY DEF Distinct
<1>3. \A a \in DOMAIN s : s[a].id # e.id
    BY DEF Lines
<1>4. CASE i \in DOMAIN s /\ j \in DOMAIN s
    BY <1>1, <1>2, <1>4
<1>5. CASE i = Len(s) + 1 /\ j \in DOMAIN s
    BY <1>1, <1>3, <1>5
<1>6. CASE j = Len(s) + 1 /\ i \in DOMAIN s
    BY <1>1, <1>3, <1>6
<1> QED BY <1>1, <1>4, <1>5, <1>6

LEMMA DistinctRewrite ==
    ASSUME NEW s \in Seq(Entries), NEW t \in Seq(Entries), NEW k \in 0 .. Len(t),
           Distinct(s), Distinct(t), \A e \in Lines(t), f \in Lines(s) : e.id # f.id
    PROVE  Distinct(s \o SubSeq(t, k + 1, Len(t)))
<1> DEFINE both == s \o SubSeq(t, k + 1, Len(t))
<1>1. /\ Len(s) \in Nat /\ DOMAIN s = 1 .. Len(s) /\ DOMAIN both \subseteq Nat
      /\ \A i \in DOMAIN both :
            \/ i \in DOMAIN s /\ both[i] = s[i]
            \/ i \notin DOMAIN s /\ k + (i - Len(s)) \in DOMAIN t /\ both[i] = t[k + (i - Len(s))]
    BY RewrittenLines, SMTT(20)
<1> HIDE DEF both
<1> SUFFICES ASSUME NEW i \in DOMAIN both, NEW j \in DOMAIN both, both[i].id = both[j].id
             PROVE  i = j
    BY DEF Distinct, both
<1>2. \A a \in DOMAIN s, b \in DOMAIN t : s[a].id # t[b].id
    BY DEF Lines
<1>3. CASE i \in DOMAIN s /\ j \in DOMAIN s
    BY <1>1, <1>3 DEF Distinct
<1>4. CASE i \notin DOMAIN s /\ j \notin DOMAIN s
  <2>1. k + (i - Len(s)) = k + (j - Len(s))
      BY <1>1, <1>4 DEF Distinct
  <2>2. i \in Nat /\ j \in Nat
      BY <1>1
  <2> QED BY <1>1, <2>1, <2>2
<1> QED BY <1>1, <1>2, <1>3, <1>4

Filters(f, n, lines, t) ==
    f = [i \in 0 .. n |-> IF i = 0 THEN <<>> ELSE
                           IF lines[i].ts > t THEN Append(f[i - 1], lines[i]) ELSE f[i - 1]]

LEMMA FilterExists ==
    ASSUME NEW lines \in Seq(Entries), NEW t \in Int
    PROVE  \E f : Filters(f, Len(lines), lines, t)
<1> DEFINE N == Len(lines)
           T == {n \in 0 .. N : \E f : Filters(f, n, lines, t)}
<1>0. N \in Nat
    BY LenProperties
<1>1. 0 \in T
  <2>1. Filters([i \in 0 .. 0 |-> <<>>], 0, lines, t)
    <3>1. \A i \in 0 .. 0 : i = 0
        OBVIOUS
    <3> QED BY <3>1 DEF Filters
  <2> QED BY <1>0, <2>1
<1>2. ASSUME NEW k \in 0 .. N - 1, k \in T PROVE k + 1 \in T
  <2>1. PICK f : Filters(f, k, lines, t)
      BY <1>2
  <2> DEFINE g == [i \in 0 .. k + 1 |-> IF i = 0 THEN <<>> ELSE
                     IF lines[i].ts > t THEN Append(f[i - 1], lines[i]) ELSE f[i - 1]]
  <2>2. \A i \in 0 .. k : g[i] = f[i]
    <3>1. \A i \in 0 .. k : i \in 0 .. k + 1
        BY <1>0
    <3>2. \A i \in 0 .. k : f[i] = IF i = 0 THEN <<>> ELSE
                     IF lines[i].ts > t THEN Append(f[i - 1], lines[i]) ELSE f[i - 1]
        BY <2>1 DEF Filters
    <3> QED BY <3>1, <3>2
  <2>3. \A i \in 0 .. k + 1 : i # 0 => i - 1 \in 0 .. k
      BY <1>0
  <2>4. g = [i \in 0 .. k + 1 |-> IF i = 0 THEN <<>> ELSE
                     IF lines[i].ts > t THEN Append(g[i - 1], lines[i]) ELSE g[i - 1]]
      BY <2>2, <2>3
  <2>5. Filters(g, k + 1, lines, t)
    <3> HIDE DEF g
    <3> QED BY <2>4 DEF Filters
  <2> QED BY <1>0, <2>5
<1> HIDE DEF T
<1>3. 0 .. N \subseteq T
    BY <1>0, <1>1, <1>2, Upwards
<1> QED BY <1>0, <1>3 DEF T

LEMMA NewerKeeps ==
    ASSUME NEW lines \in Seq(Entries), NEW t \in Int
    PROVE  /\ Newer(lines, t) \in Seq(Entries)
           /\ Lines(Newer(lines, t)) = {e \in Lines(lines) : e.ts > t}
           /\ Distinct(lines) => Distinct(Newer(lines, t))
<1> DEFINE N == Len(lines)
           kept == CHOOSE f : Filters(f, N, lines, t)
<1>1. N \in Nat /\ DOMAIN lines = 1 .. N /\ \A i \in 1 .. N : lines[i] \in Entries
    BY LenProperties
<1>2. Filters(kept, N, lines, t)
    BY FilterExists
<1>3. Newer(lines, t) = kept[N]
    BY DEF Newer, Filters
<1> HIDE DEF kept
<1>4. kept = [i \in 0 .. N |-> IF i = 0 THEN <<>> ELSE
                IF lines[i].ts > t THEN Append(kept[i - 1], lines[i]) ELSE kept[i - 1]]
    BY <1>2 DEF Filters
<1>5. /\ kept[0] = <<>>
      /\ \A k \in 0 .. N - 1 :
            kept[k + 1] = IF lines[k + 1].ts > t THEN Append(kept[k], lines[k + 1]) ELSE kept[k]
  <2>1. 0 \in 0 .. N /\ \A k \in 0 .. N - 1 : k + 1 \in 0 .. N /\ k + 1 # 0 /\ (k + 1) - 1 = k
      BY <1>1
  <2>2. \A i \in 0 .. N : kept[i] = IF i = 0 THEN <<>> ELSE
                IF lines[i].ts > t THEN Append(kept[i - 1], lines[i]) ELSE kept[i - 1]
      BY <1>4
  <2> QED BY <2>1, <2>2
<1> DEFINE Part(k) == /\ kept[k] \in Seq(Entries)
                      /\ Lines(kept[k]) = {lines[j] : j \in {i \in 1 .. k : lines[i].ts > t}}
                      /\ Distinct(lines) => Distinct(kept[k])
           P == {k \in 0 .. N : Part(k)}
<1>6. 0 \in P
  <2>1. kept[0] \in Seq(Entries) /\ DOMAIN kept[0] = {} /\ 0 \in 0 .. N
      BY <1>1, <1>5, EmptySeq
  <2>2. {i \in 1 .. 0 : lines[i].ts > t} = {}
      OBVIOUS
  <2>3. Lines(kept[0]) = {} /\ Distinct(kept[0])
      BY <2>1 DEF Lines, Distinct
  <2> QED BY <2>1, <2>2, <2>3
<1>7. ASSUME NEW k \in 0 .. N - 1, k \in P PROVE k + 1 \in P
  <2> DEFINE s == kept[k]  e == lines[k + 1]
  <2>1. s \in Seq(Entries) /\ e \in Entries /\ k + 1 \in 1 .. N
      BY <1>1, <1>7
  <2>2. Lines(s) = {lines[j] : j \in {i \in 1 .. k : lines[i].ts > t}} /\ (Distinct(lines) => Distinct(s))
      BY <1>7
  <2>3. CASE e.ts > t
    <3>1. kept[k + 1] = Append(s, e)
        BY <1>5, <2>3
    <3>2. Append(s, e) \in Seq(Entries) /\ Lines(Append(s, e)) = Lines(s) \cup {e}
        BY <2>1, LinesOfAppend
    <3>3. {i \in 1 .. k + 1 : lines[i].ts > t} = {i \in 1 .. k : lines[i].ts > t} \cup {k + 1}
        BY <1>1, <2>3
    <3>4. Lines(Append(s, e)) = {lines[j] : j \in {i \in 1 .. k + 1 : lines[i].ts > t}}
        BY <2>2, <3>2, <3>3
    <3>5. ASSUME Distinct(lines) PROVE Distinct(Append(s, e))
      <4>1. ASSUME NEW f \in Lines(s), f.id = e.id PROVE FALSE
        <5>1. PICK j \in 1 .. k : f = lines[j]
            BY <2>2, <4>1
        <5>2. j \in DOMAIN lines /\ k + 1 \in DOMAIN lines /\ j # k + 1
            BY <1>1
        <5> QED BY <3>5, <4>1, <5>1, <5>2 DEF Distinct
      <4> QED BY <2>1, <2>2, <3>5, <4>1, DistinctAppend
    <3>6. k + 1 \in 0 .. N
        BY <1>1
    <3> QED BY <3>1, <3>2, <3>4, <3>5, <3>6
  <2>4. CASE ~(e.ts > t)
    <3>1. kept[k + 1] = s
        BY <1>5, <2>4
    <3>2. {i \in 1 .. k + 1 : lines[i].ts > t} = {i \in 1 .. k : lines[i].ts > t}
        BY <1>1, <2>4
    <3> QED BY <1>1, <2>1, <2>2, <3>1, <3>2
  <2> QED BY <2>3, <2>4
<1> HIDE DEF P
<1>8. N \in P
  <2>1. 0 .. N \subseteq P
      BY <1>1, <1>6, <1>7, Upwards
  <2> QED BY <1>1, <2>1
<1>9. Part(N)
    BY <1>8 DEF P
<1> QED BY <1>1, <1>3, <1>9 DEF Lines

--------------------------------------------------------------------------------
(* The feed: types, and where the lines in hand come from.                 *)

FeedTypes ==
    /\ marker \in {Missing} \cup 0 .. now
    /\ DOMAIN sync = Syncers /\ \A s \in Syncers : SyncOK(sync[s])
    /\ fed \in [Ids -> 0 .. MaxFed] /\ forgone \subseteq Ids /\ mixed \in BOOLEAN
    /\ rewrites \in 0 .. MaxRewrites /\ faults \in 0 .. MaxFaults
    /\ crashes \in 0 .. MaxCrashes /\ overlaps \in 0 .. MaxOverlaps

(* Whatever is in the file, in a rewrite or in a sync was saved before,    *)
(* and nothing is stamped later than now: without it a marker may be set   *)
(* to a time that has not come.                                            *)
Past ==
    /\ said \subseteq Entries /\ risked \subseteq said
    /\ \A e \in said : e.ts <= now /\ e.id <= made
    /\ \A o \in Oracles : pen[o] # Idle => pen[o].ts <= now /\ pen[o].id <= made
    /\ Lines(file) \subseteq said
    /\ \A r \in Raters : rating[r] # Idle => Lines(rating[r].lines) \subseteq said
    /\ \A s \in Syncers : /\ sync[s].at = "marker" => Lines(sync[s].lines) \subseteq said
                          /\ sync[s].at = "feed" => Lines(sync[s].todo) \subseteq said

FeedInv == LogInv /\ FeedTypes /\ Past

LEMMA FeedIsTyped == FeedInv => TypeOK
BY DEF FeedInv, LogInv, LogTypes, Ratings, FeedTypes, Past, TypeOK

LEMMA LinesOfTail ==
    ASSUME NEW s \in Seq(Entries), s # <<>>
    PROVE  /\ Head(s) \in Entries /\ Tail(s) \in Seq(Entries)
           /\ Lines(s) = {Head(s)} \cup Lines(Tail(s))
           /\ Distinct(s) => Distinct(Tail(s)) /\ \A e \in Lines(Tail(s)) : e.id # Head(s).id
<1>1. /\ Head(s) = s[1] /\ Tail(s) \in Seq(Entries) /\ Len(s) \in Nat /\ Len(s) >= 1
      /\ Len(Tail(s)) = Len(s) - 1 /\ \A i \in 1 .. Len(s) - 1 : Tail(s)[i] = s[i + 1]
    BY HeadTailProperties, LenProperties, EmptySeq
<1>2. DOMAIN s = 1 .. Len(s) /\ DOMAIN Tail(s) = 1 .. Len(s) - 1 /\ \A i \in DOMAIN s : s[i] \in Entries
    BY <1>1, LenProperties
<1>3. \A i \in DOMAIN s : i = 1 \/ (i - 1 \in DOMAIN Tail(s) /\ s[i] = Tail(s)[i - 1])
    BY <1>1, <1>2
<1>4. \A i \in DOMAIN Tail(s) : i + 1 \in DOMAIN s /\ i + 1 # 1 /\ Tail(s)[i] = s[i + 1]
    BY <1>1, <1>2
<1>5. 1 \in DOMAIN s
    BY <1>1, <1>2
<1>6. Lines(s) = {Head(s)} \cup Lines(Tail(s))
  <2>1. ASSUME NEW i \in DOMAIN s PROVE s[i] \in {Head(s)} \cup Lines(Tail(s))
      BY <1>1, <1>3, <2>1 DEF Lines
  <2>2. ASSUME NEW i \in DOMAIN Tail(s) PROVE Tail(s)[i] \in Lines(s)
      BY <1>4, <2>2 DEF Lines
  <2>3. Head(s) \in Lines(s)
      BY <1>1, <1>5 DEF Lines
  <2> QED BY <2>1, <2>2, <2>3 DEF Lines
<1>7. ASSUME Distinct(s) PROVE Distinct(Tail(s)) /\ \A e \in Lines(Tail(s)) : e.id # Head(s).id
  <2>1. ASSUME NEW i \in DOMAIN Tail(s), NEW j \in DOMAIN Tail(s), Tail(s)[i].id = Tail(s)[j].id
        PROVE  i = j
    <3>1. i + 1 = j + 1
        BY <1>4, <1>7, <2>1 DEF Distinct
    <3> QED BY <1>1, <1>2, <3>1
  <2>2. ASSUME NEW i \in DOMAIN Tail(s) PROVE Tail(s)[i].id # Head(s).id
      BY <1>1, <1>4, <1>5, <1>7 DEF Distinct
  <2> QED BY <2>1, <2>2 DEF Distinct, Lines
<1> QED BY <1>1, <1>2, <1>5, <1>6, <1>7

LEMMA InitFeed == Init => FeedInv
<1> SUFFICES ASSUME Init PROVE FeedInv
    OBVIOUS
<1>1. LogInv
    BY FeedAssumption DEF Init, LogInv, LogTypes, CopyKept, LogKept, Ratings
<1>2. FeedTypes
  <2>1. 0 \in 0 .. MaxFed /\ 0 \in 0 .. MaxRewrites /\ 0 \in 0 .. MaxFaults /\ 0 \in 0 .. MaxCrashes
        /\ 0 \in 0 .. MaxOverlaps
      BY FeedAssumption
  <2> QED BY <2>1 DEF Init, FeedTypes, SyncOK
<1>3. Past
    BY DEF Init, Past, Lines, Idle
<1> QED BY <1>1, <1>2, <1>3 DEF FeedInv

(* A syncer's step changes nothing but its own place, the marker, what was *)
(* fed and forgone, and the counts of faults and overlaps.                 *)
LEMMA SyncKeeps ==
    ASSUME NEW s \in Syncers, SyncStep(s)
    PROVE  UNCHANGED <<now, made, pen, file, said, risked, rating, mixed, rewrites, crashes>>
BY DEF SyncStep, ReadLog, NoMarker, ReadMarker, Feed, FeedRaises, EmptyMarker, PutMarker,
       MarkerFails, logVars, rateVars

LEMMA SyncGoes ==
    ASSUME FeedInv, NEW s \in Syncers, NEW c, Goto(s, c),
           UNCHANGED <<now, made, pen, file, said, risked, rating, mixed, rewrites, crashes>>,
           SyncOK(c), marker' \in {Missing} \cup 0 .. now, fed' \in [Ids -> 0 .. MaxFed],
           forgone' \subseteq Ids, faults' \in 0 .. MaxFaults, overlaps' \in 0 .. MaxOverlaps,
           c.at = "marker" => Lines(c.lines) \subseteq said,
           c.at = "feed" => Lines(c.todo) \subseteq said
    PROVE  FeedTypes' /\ Past'
<1>1. DOMAIN sync' = Syncers /\ sync'[s] = c /\ \A q \in Syncers : q # s => sync'[q] = sync[q]
    BY DEF FeedInv, FeedTypes, Goto
<1>2. \A q \in Syncers : SyncOK(sync[q])' 
    BY <1>1 DEF FeedInv, FeedTypes, SyncOK
<1>3. FeedTypes'
    BY <1>1, <1>2 DEF FeedInv, FeedTypes
<1>4. Past'
    BY <1>1 DEF FeedInv, Past, Lines
<1> QED BY <1>3, <1>4

LEMMA SyncTyped ==
    ASSUME FeedInv, NEW s \in Syncers, SyncStep(s)
    PROVE  FeedTypes' /\ Past'
<1>1. /\ FeedTypes /\ Past /\ LogTypes
      /\ UNCHANGED <<now, made, pen, file, said, risked, rating, mixed, rewrites, crashes>>
    BY SyncKeeps DEF FeedInv, LogInv
<1>2. /\ now \in Nat /\ SyncOK(sync[s]) /\ marker \in {Missing} \cup 0 .. now
      /\ fed \in [Ids -> 0 .. MaxFed] /\ forgone \subseteq Ids /\ faults \in 0 .. MaxFaults
      /\ overlaps \in 0 .. MaxOverlaps
      /\ SyncOK(Idle) /\ \A e \in said : e.ts \in 1 .. now /\ e.id \in Ids
  <2>1. \A e \in said : e \in Entries /\ e.ts <= now
      BY <1>1 DEF Past
  <2>2. \A e \in Entries : e.ts \in 1 .. MaxNow /\ e.id \in Ids
      BY DEF Entries
  <2>3. now \in 1 .. MaxNow
      BY <1>1 DEF LogTypes
  <2>4. \A e \in said : e.ts \in 1 .. now /\ e.id \in Ids
      BY <2>1, <2>2, <2>3, FeedAssumption
  <2> QED BY <1>1, <2>3, <2>4, FeedAssumption DEF FeedTypes, SyncOK
<1>3. CASE ReadLog(s)
  <2>1. CASE UNCHANGED <<sync, overlaps, forgone>>
    <3>1. UNCHANGED <<marker, fed, faults>>
        BY <1>3 DEF ReadLog
    <3> QED BY <1>1, <2>1, <3>1 DEF FeedTypes, Past, Lines, SyncOK
  <2>2. CASE /\ file # <<>> /\ Goto(s, [at |-> "marker", lines |-> file])
             /\ forgone' = forgone \cup IdsOf(said \ Lines(file))
             /\ \/ UNCHANGED overlaps
                \/ overlaps < MaxOverlaps /\ overlaps' = overlaps + 1
    <3>1. UNCHANGED <<marker, fed, faults>>
        BY <1>3 DEF ReadLog
    <3>4. forgone' \subseteq Ids
        BY <1>2, <2>2 DEF IdsOf
    <3>5. overlaps' \in 0 .. MaxOverlaps
        BY <1>2, <2>2, FeedAssumption
    <3>2. SyncOK([at |-> "marker", lines |-> file])
        BY <1>1, <2>2 DEF SyncOK, LogTypes
    <3>3. Lines(file) \subseteq said
        BY <1>1 DEF Past
    <3> QED BY <1>1, <1>2, <2>2, <3>1, <3>2, <3>3, <3>4, <3>5, SyncGoes
  <2> QED BY <1>3, <2>1, <2>2 DEF ReadLog
<1>4. CASE sync[s].at = "marker" /\ (NoMarker(s) \/ ReadMarker(s))
  <2> DEFINE lines == sync[s].lines
  <2>1. lines \in Seq(Entries) /\ lines # <<>> /\ Lines(lines) \subseteq said
      BY <1>1, <1>2, <1>4 DEF SyncOK, Past, Idle
  <2>2. Latest(lines) \in 1 .. now
      BY <1>2, <2>1, LatestIsLast
  <2>3. CASE NoMarker(s)
    <3>1. Goto(s, [at |-> "save", latest |-> Latest(lines)]) /\ UNCHANGED <<marker, fed, faults, overlaps>>
        BY <2>3 DEF NoMarker
    <3>2. forgone' \subseteq Ids
      <4>1. IdsOf(Lines(lines)) \subseteq Ids
          BY <1>2, <2>1 DEF IdsOf
      <4> QED BY <1>2, <2>3, <4>1 DEF NoMarker
    <3>3. SyncOK([at |-> "save", latest |-> Latest(lines)])
        BY <2>2 DEF SyncOK
    <3> QED BY <1>1, <1>2, <3>1, <3>2, <3>3, SyncGoes
  <2>4. CASE ReadMarker(s)
    <3> DEFINE new == Newer(lines, ValueRead)
    <3>1. UNCHANGED <<marker, fed, forgone, faults, overlaps>>
        BY <2>4 DEF ReadMarker
    <3>2. ValueRead \in Int
        BY <1>2 DEF ValueRead, Missing
    <3>3. new \in Seq(Entries) /\ Lines(new) \subseteq said
        BY <2>1, <3>2, NewerKeeps
    <3> HIDE DEF new
    <3>4. CASE new = <<>>
      <4>1. Goto(s, Idle)
          BY <2>4, <3>4 DEF ReadMarker, new
      <4> QED BY <1>1, <1>2, <3>1, <4>1, SyncGoes DEF Idle
    <3>5. CASE new # <<>>
      <4>1. Goto(s, [at |-> "feed", todo |-> new, latest |-> Latest(lines)])
          BY <2>4, <3>5 DEF ReadMarker, new
      <4>2. SyncOK([at |-> "feed", todo |-> new, latest |-> Latest(lines)])
          BY <2>2, <3>3, <3>5 DEF SyncOK
      <4> QED BY <1>1, <1>2, <3>1, <3>3, <4>1, <4>2, SyncGoes
    <3> QED BY <3>4, <3>5
  <2> QED BY <1>4, <2>3, <2>4
<1>5. CASE Feed(s)
  <2> DEFINE e == Head(sync[s].todo)  rest == Tail(sync[s].todo)
  <2>1. /\ sync[s].at = "feed" /\ sync[s].todo \in Seq(Entries) /\ sync[s].todo # <<>>
        /\ sync[s].latest \in 1 .. now /\ Lines(sync[s].todo) \subseteq said
    <3>1. sync[s].at = "feed"
        BY <1>5 DEF Feed
    <3>2. sync[s] # Idle
        BY <3>1 DEF Idle
    <3>3. Lines(sync[s].todo) \subseteq said
        BY <1>1, <3>1 DEF Past
    <3> QED BY <1>2, <3>1, <3>2, <3>3 DEF SyncOK
  <2>2. e \in Entries /\ rest \in Seq(Entries) /\ Lines(rest) \subseteq said
      BY <2>1, LinesOfTail
  <2>3. fed' \in [Ids -> 0 .. MaxFed] /\ faults' \in 0 .. MaxFaults
    <3>1. FedOnceMore(e.id) \in [Ids -> 0 .. MaxFed]
      <4>1. e.id \in Ids /\ MaxFed \in Int
          BY <2>2, FeedAssumption DEF Entries
      <4>2. (IF fed[e.id] < MaxFed THEN fed[e.id] + 1 ELSE fed[e.id]) \in 0 .. MaxFed
          BY <1>2, <4>1
      <4> QED BY <1>2, <4>1, <4>2 DEF FedOnceMore
    <3>2. fed' = fed \/ fed' = FedOnceMore(e.id)
        BY <1>5 DEF Feed
    <3>3. faults' = faults \/ (faults < MaxFaults /\ faults' = faults + 1)
        BY <1>5 DEF Feed
    <3>4. faults' \in 0 .. MaxFaults
        BY <1>2, <3>3, FeedAssumption
    <3> QED BY <1>2, <3>1, <3>2, <3>4
  <2>4. UNCHANGED <<marker, overlaps>> /\ forgone' \subseteq Ids
    <3>1. forgone' = forgone \/ forgone' = forgone \cup {e.id}
        BY <1>5 DEF Feed
    <3>2. e.id \in Ids
        BY <2>2 DEF Entries
    <3> QED BY <1>2, <1>5, <3>1, <3>2 DEF Feed
  <2>5. CASE rest = <<>>
    <3>1. Goto(s, [at |-> "save", latest |-> sync[s].latest])
        BY <1>5, <2>5 DEF Feed
    <3>2. SyncOK([at |-> "save", latest |-> sync[s].latest])
        BY <2>1 DEF SyncOK
    <3> QED BY <1>1, <1>2, <2>3, <2>4, <3>1, <3>2, SyncGoes
  <2>6. CASE rest # <<>>
    <3>1. Goto(s, [at |-> "feed", todo |-> rest, latest |-> sync[s].latest])
        BY <1>5, <2>6 DEF Feed
    <3>2. SyncOK([at |-> "feed", todo |-> rest, latest |-> sync[s].latest])
        BY <2>1, <2>2, <2>6 DEF SyncOK
    <3> QED BY <1>1, <1>2, <2>2, <2>3, <2>4, <3>1, <3>2, SyncGoes
  <2> QED BY <2>5, <2>6
<1>6. CASE FeedRaises(s)
  <2>1. Goto(s, Idle) /\ UNCHANGED <<marker, fed, forgone, faults, overlaps>>
      BY <1>6 DEF FeedRaises
  <2> QED BY <1>1, <1>2, <2>1, SyncGoes DEF Idle
<1>7. CASE EmptyMarker(s)
  <2>1. /\ Goto(s, [at |-> "put", latest |-> sync[s].latest]) /\ marker' = 0
        /\ UNCHANGED <<fed, forgone, faults, overlaps>> /\ sync[s].at = "save"
      BY <1>7 DEF EmptyMarker
  <2>2. SyncOK([at |-> "put", latest |-> sync[s].latest])
      BY <1>2, <2>1 DEF SyncOK, Idle
  <2> QED BY <1>1, <1>2, <2>1, <2>2, SyncGoes
<1>8. CASE PutMarker(s)
  <2>1. /\ Goto(s, Idle) /\ marker' = sync[s].latest
        /\ UNCHANGED <<fed, forgone, faults, overlaps>> /\ sync[s].at = "put"
      BY <1>8 DEF PutMarker
  <2>2. sync[s].latest \in 1 .. now
      BY <1>2, <2>1 DEF SyncOK, Idle
  <2> QED BY <1>1, <1>2, <2>1, <2>2, SyncGoes DEF Idle
<1>9. CASE MarkerFails(s)
  <2>1. Goto(s, Idle) /\ UNCHANGED <<marker, fed, forgone, overlaps>> /\ faults' \in 0 .. MaxFaults
      BY <1>2, <1>9, FeedAssumption DEF MarkerFails
  <2> QED BY <1>1, <1>2, <2>1, SyncGoes DEF Idle
<1>10. NoMarker(s) \/ ReadMarker(s) => sync[s].at = "marker"
    BY DEF NoMarker, ReadMarker
<1> QED BY <1>3, <1>4, <1>5, <1>6, <1>7, <1>8, <1>9, <1>10 DEF SyncStep

(* The steps of oracles and raters, the clock and a crash.                 *)
LEMMA FeedTypesKept ==
    ASSUME FeedTypes, UNCHANGED <<now, marker, sync, fed, crashes, overlaps>>, mixed' \in BOOLEAN,
           rewrites' \in 0 .. MaxRewrites, forgone' \subseteq Ids, faults' \in 0 .. MaxFaults
    PROVE  FeedTypes'
BY DEF FeedTypes, SyncOK

LEMMA StepFeed == FeedInv /\ [Next]_vars => FeedInv'
<1> SUFFICES ASSUME FeedInv, [Next]_vars PROVE FeedTypes' /\ Past'
    BY LogInvStep DEF FeedInv
<1>1. LogTypes /\ FeedTypes /\ Past /\ now \in Nat /\ made \in Nat
    BY DEF FeedInv, LogInv, LogTypes
<1>2. ASSUME NEW o \in Oracles, Decide(o) PROVE FeedTypes' /\ Past'
  <2>1. /\ UNCHANGED <<now, file, said, risked, rating, mixed, rewrites, marker, sync, fed, forgone,
                        faults, crashes, overlaps>>
        /\ made' = made + 1
      BY <1>2 DEF Decide, rateVars, feedVars
  <2>2. PICK kind : pen' = [pen EXCEPT ![o] = [id |-> made + 1, ts |-> now, kind |-> kind]]
      BY <1>2 DEF Decide
  <2>3. \A q \in Oracles : pen'[q] # Idle => pen'[q].ts <= now /\ pen'[q].id <= made + 1
    <3>1. ASSUME NEW q \in Oracles, pen'[q] # Idle
          PROVE  pen'[q].ts <= now /\ pen'[q].id <= made + 1
      <4>1. CASE q = o
          BY <1>1, <2>2, <4>1 DEF LogTypes
      <4>2. CASE q # o
        <5>1. pen'[q] = pen[q] /\ pen[q] # Idle /\ pen[q] \in Entries
            BY <1>1, <2>2, <3>1, <4>2 DEF LogTypes
        <5>2. pen[q].ts <= now /\ pen[q].id <= made
            BY <1>1, <5>1 DEF Past
        <5> QED BY <1>1, <5>1, <5>2 DEF Entries, Ids
      <4> QED BY <4>1, <4>2
    <3> QED BY <3>1
  <2>4. \A e \in said : e.ts <= now /\ e.id <= made + 1
    <3>1. \A e \in said : e.ts <= now /\ e.id <= made /\ e.id \in Nat
        BY <1>1 DEF Past, Entries, Ids
    <3> QED BY <1>1, <3>1
  <2>5. Past'
      BY <1>1, <2>1, <2>3, <2>4 DEF Past, Lines
  <2> QED BY <1>1, <2>1, <2>5, FeedTypesKept DEF FeedTypes
<1>3. ASSUME NEW o \in Oracles, SaveDecision(o) PROVE FeedTypes' /\ Past'
  <2> DEFINE e == pen[o]
  <2>1. /\ UNCHANGED <<now, made, rating, mixed, rewrites, marker, sync, fed, faults, crashes, overlaps>>
        /\ pen' = [pen EXCEPT ![o] = Idle] /\ pen[o] # Idle
      BY <1>3 DEF SaveDecision, feedVars
  <2>2. e \in Entries /\ e.ts <= now /\ e.id <= made /\ e.id \in Ids /\ file \in Seq(Entries)
      BY <1>1, <2>1 DEF LogTypes, Past, Entries
  <2>3. \A q \in Oracles : pen'[q] # Idle => pen'[q] = pen[q]
      BY <1>1, <2>1 DEF LogTypes
  <2>4. CASE UNCHANGED <<file, said, risked, forgone>>
      BY <1>1, <2>1, <2>3, <2>4, FeedTypesKept DEF Past, Lines, FeedTypes
  <2>5. CASE /\ file' = Append(file, e) /\ said' = said \cup {e}
             /\ risked' = IF \E r \in Raters : rating[r] # Idle THEN risked \cup {e} ELSE risked
             /\ forgone' \in {forgone, forgone \cup {e.id}}
    <3>1. Lines(file') = Lines(file) \cup {e}
        BY <2>2, <2>5, LinesOfAppend
    <3>2. Past'
        BY <1>1, <2>1, <2>2, <2>3, <2>5, <3>1 DEF Past, Lines
    <3>3. forgone' \subseteq Ids
        BY <1>1, <2>2, <2>5 DEF FeedTypes
    <3> QED BY <1>1, <2>1, <3>2, <3>3, FeedTypesKept DEF FeedTypes
  <2> QED BY <1>3, <2>4, <2>5 DEF SaveDecision
<1>4. ASSUME NEW r \in Raters, ReadForFeedback(r) PROVE FeedTypes' /\ Past'
  <2>1. /\ UNCHANGED <<now, made, pen, file, said, marker, sync, fed, forgone, faults, crashes, overlaps>>
        /\ rating' = [rating EXCEPT ![r] = [at |-> "truncate", lines |-> file]]
        /\ risked' = said \/ risked' = risked
        /\ mixed' = TRUE \/ mixed' = mixed
        /\ rewrites < MaxRewrites /\ rewrites' = rewrites + 1
      BY <1>4 DEF ReadForFeedback, logVars, feedVars
  <2>2. rewrites' \in 0 .. MaxRewrites
      BY <1>1, <2>1, FeedAssumption DEF FeedTypes
  <2>3. rating'[r].lines = file /\ \A q \in Raters : q # r => rating'[q] = rating[q]
      BY <1>1, <2>1 DEF LogTypes
  <2>4. Past'
      BY <1>1, <2>1, <2>3 DEF Past, Lines
  <2> QED BY <1>1, <2>1, <2>2, <2>4, FeedTypesKept DEF FeedTypes
<1>5. ASSUME NEW r \in Raters, TruncateLog(r) PROVE FeedTypes' /\ Past'
  <2>1. /\ UNCHANGED <<now, made, pen, said, risked, mixed, rewrites, marker, sync, fed, forgone,
                        faults, crashes, overlaps>>
        /\ file' = <<>> /\ rating' = [rating EXCEPT ![r].at = "write"] /\ rating[r].at = "truncate"
      BY <1>5 DEF TruncateLog, feedVars
  <2>2. rating[r] # Idle
      BY <2>1 DEF Idle
  <2>3. rating[r] \in [at : {"truncate", "write"}, lines : Seq(Entries)]
      BY <1>1, <2>2, RatingCases
  <2>4. rating'[r].lines = rating[r].lines /\ \A q \in Raters : q # r => rating'[q] = rating[q]
      BY <1>1, <2>1, <2>3 DEF LogTypes
  <2>5. Lines(file') = {}
      BY <2>1, EmptySeq DEF Lines
  <2>6. Past'
      BY <1>1, <2>1, <2>2, <2>4, <2>5 DEF Past, Lines
  <2> QED BY <1>1, <2>1, <2>6, FeedTypesKept DEF FeedTypes
<1>6. ASSUME NEW r \in Raters, WriteLog(r) PROVE FeedTypes' /\ Past'
  <2>1. /\ UNCHANGED <<now, made, pen, said, risked, mixed, rewrites, marker, sync, fed, forgone,
                        faults, crashes, overlaps>>
        /\ rating' = [rating EXCEPT ![r] = Idle] /\ rating[r].at = "write"
      BY <1>6 DEF WriteLog, feedVars
  <2>2. rating[r] # Idle
      BY <2>1 DEF Idle
  <2>3. PICK over \in (IF file = <<>> THEN {0} ELSE 1 .. Len(file)) :
            file' = rating[r].lines \o SubSeq(file, over + 1, Len(file))
      BY <1>6 DEF WriteLog, Overwritten
  <2>4. Lines(file') \subseteq Lines(rating[r].lines) \cup Lines(file)
    <3>1. rating[r].lines \in Seq(Entries) /\ file \in Seq(Entries) /\ over \in 0 .. Len(file)
        BY <1>1, <2>2, <2>3, RatingCases, LenProperties DEF LogTypes
    <3> QED BY <2>3, <3>1, LinesOfOver
  <2>5. Past'
      BY <1>1, <2>1, <2>2, <2>4, ZenonT(30) DEF Past, Lines, LogTypes
  <2> QED BY <1>1, <2>1, <2>5, FeedTypesKept DEF FeedTypes
<1>11. ASSUME NEW r \in Raters, WriteLogFails(r) PROVE FeedTypes' /\ Past'
  <2>1. /\ UNCHANGED <<now, made, pen, said, mixed, rewrites, marker, sync, fed, forgone, crashes, overlaps>>
        /\ rating' = [rating EXCEPT ![r] = Idle] /\ rating[r].at = "write"
        /\ risked' = risked \cup Lines(rating[r].lines)
        /\ faults < MaxFaults /\ faults' = faults + 1
      BY <1>11 DEF WriteLogFails, feedVars
  <2>2. rating[r] # Idle /\ Lines(rating[r].lines) \subseteq said
      BY <1>1, <2>1 DEF Idle, Past
  <2>3. PICK part \in 0 .. Len(rating[r].lines), over \in 0 .. Len(file) :
            file' = SubSeq(rating[r].lines, 1, part) \o SubSeq(file, over + 1, Len(file))
      BY <1>11 DEF WriteLogFails, Overwritten
  <2>4. Lines(file') \subseteq said
    <3> DEFINE kept == SubSeq(rating[r].lines, 1, part)
    <3>1. rating[r].lines \in Seq(Entries) /\ file \in Seq(Entries)
        BY <1>1, <2>2, RatingCases DEF LogTypes
    <3>2. kept \in Seq(Entries) /\ Lines(kept) \subseteq Lines(rating[r].lines)
        BY <3>1, PrefixOf
    <3>3. Lines(file') \subseteq Lines(kept) \cup Lines(file)
        BY <2>3, <3>1, <3>2, LinesOfOver
    <3> QED BY <1>1, <2>2, <3>2, <3>3 DEF Past
  <2>5. Past'
      BY <1>1, <2>1, <2>2, <2>4, ZenonT(30) DEF Past, Lines, LogTypes
  <2>6. faults' \in 0 .. MaxFaults
      BY <1>1, <2>1, FeedAssumption DEF FeedTypes
  <2> QED BY <1>1, <2>1, <2>5, <2>6, FeedTypesKept DEF FeedTypes
<1>7. ASSUME NEW p \in Processes, Crash(p) PROVE FeedTypes' /\ Past'
  <2>1. /\ UNCHANGED <<now, made, file, said, mixed, rewrites, marker, fed, forgone, faults, overlaps>>
        /\ crashes < MaxCrashes /\ crashes' = crashes + 1
        /\ sync' = [s \in Syncers |-> IF s \in p THEN Idle ELSE sync[s]]
        /\ rating' = [r \in Raters |-> IF r \in p THEN Idle ELSE rating[r]]
        /\ pen' = [o \in Oracles |-> IF o \in p THEN Idle ELSE pen[o]]
        /\ risked' = risked \cup UNION {Lines(rating[r].lines) : r \in {q \in Raters \cap p :
                                                                          rating[q].at = "write"}}
      BY <1>7 DEF Crash
  <2>2. FeedTypes'
    <3>1. crashes' \in 0 .. MaxCrashes
        BY <1>1, <2>1, FeedAssumption DEF FeedTypes
    <3>2. \A s \in Syncers : SyncOK(sync'[s])
        BY <1>1, <2>1 DEF FeedTypes, SyncOK
    <3>3. \A s \in Syncers : SyncOK(sync[s])'
        BY <2>1, <3>2 DEF SyncOK
    <3> QED BY <1>1, <2>1, <3>1, <3>3 DEF FeedTypes
  <2>4. risked' \subseteq said
    <3>1. \A r \in Raters : rating[r].at = "write" => rating[r] # Idle
        BY DEF Idle
    <3> QED BY <1>1, <2>1, <3>1 DEF Past
  <2>5. /\ \A s \in Syncers : sync'[s].at # "idle" => sync'[s] = sync[s]
        /\ \A r \in Raters : rating'[r] # Idle => rating'[r] = rating[r]
        /\ \A o \in Oracles : pen'[o] # Idle => pen'[o] = pen[o]
      BY <2>1 DEF Idle
  <2> QED BY <1>1, <2>1, <2>2, <2>4, <2>5 DEF Past, Lines
<1>8. ASSUME Tick PROVE FeedTypes' /\ Past'
  <2>1. /\ UNCHANGED <<made, pen, file, said, risked, rating, mixed, rewrites, marker, sync, fed, forgone,
                        faults, crashes, overlaps>>
        /\ now' = now + 1
      BY <1>8 DEF Tick, logVars, rateVars, feedVars
  <2>2. 0 .. now \subseteq 0 .. now' /\ 1 .. now \subseteq 1 .. now'
      BY <1>1, <2>1
  <2>3. FeedTypes'
    <3>1. marker' \in {Missing} \cup 0 .. now'
        BY <1>1, <2>1, <2>2 DEF FeedTypes
    <3>2. \A s \in Syncers : SyncOK(sync[s])'
        BY <1>1, <2>1, <2>2 DEF FeedTypes, SyncOK
    <3> QED BY <1>1, <2>1, <3>1, <3>2 DEF FeedTypes
  <2>4. \A t \in Nat : t <= now => t <= now'
      BY <1>1, <2>1
  <2>5. \A e \in Entries : e.ts \in Nat
      BY DEF Entries
  <2>6. \A o \in Oracles : pen[o] # Idle => pen[o] \in Entries
      BY <1>1 DEF LogTypes
  <2> QED BY <1>1, <2>1, <2>3, <2>4, <2>5, <2>6 DEF Past, Lines
<1>9. ASSUME NEW s \in Syncers, SyncStep(s) PROVE FeedTypes' /\ Past'
    BY <1>9, SyncTyped
<1>10. CASE UNCHANGED vars
    BY <1>1, <1>10 DEF vars, logVars, rateVars, feedVars, FeedTypes, Past, SyncOK, Lines
<1> QED BY <1>2, <1>3, <1>4, <1>5, <1>6, <1>7, <1>8, <1>9, <1>10, <1>11 DEF Next, RewriteStep

LEMMA FeedInvariance == Spec => []FeedInv
BY InitFeed, StepFeed, PTL DEF Spec

(* A marker, a time a sync is about to write and every line in hand are of *)
(* a second that has come (dashboard_api.py:598-622), for any number of    *)
(* oracles, raters and syncers.                                            *)
THEOREM TypeCorrect == Spec => []TypeOK
BY FeedIsTyped, FeedInvariance, PTL

--------------------------------------------------------------------------------
(* Once per decision.                                                      *)

(* A decision has one line, wherever the lines are, while no two feedbacks *)
(* run at once: two rewrites could leave a line in the file twice.         *)
OneLineEach ==
    /\ \A r, q \in Raters : rating[r] # Idle /\ rating[q] # Idle => r = q
    /\ \A e, f \in said : e.id = f.id => e = f
    /\ \A o \in Oracles : pen[o] # Idle => \A e \in said : e.id # pen[o].id
    /\ \A o, q \in Oracles : pen[o] # Idle /\ pen[q] # Idle /\ pen[o].id = pen[q].id => o = q
    /\ Distinct(file)
    /\ \A r \in Raters :
         /\ rating[r] # Idle => Distinct(rating[r].lines)
         /\ rating[r].at = "write" => \A e \in Lines(file), f \in Lines(rating[r].lines) : e.id # f.id
    /\ \A s \in Syncers : /\ sync[s].at = "marker" => Distinct(sync[s].lines)
                          /\ sync[s].at = "feed" => Distinct(sync[s].todo)

LEMMA InitOneLine == Init => OneLineEach
<1>1. Distinct(<<>>)
    BY EmptySeq DEF Distinct
<1> QED BY <1>1 DEF Init, OneLineEach, Idle

LEMMA SyncOneLine ==
    ASSUME FeedInv, OneLineEach, NEW s \in Syncers, SyncStep(s)
    PROVE  OneLineEach'
<1>1. /\ FeedTypes /\ Past /\ LogTypes /\ SyncOK(sync[s])
      /\ UNCHANGED <<now, made, pen, file, said, risked, rating, mixed, rewrites, crashes>>
    BY SyncKeeps DEF FeedInv, LogInv, FeedTypes
<1>2. ASSUME NEW c, Goto(s, c), c.at = "marker" => Distinct(c.lines), c.at = "feed" => Distinct(c.todo)
      PROVE  OneLineEach'
  <2>1. sync'[s] = c /\ \A q \in Syncers : q # s => sync'[q] = sync[q]
      BY <1>1, <1>2 DEF FeedTypes, Goto
  <2>2. \A q \in Syncers : /\ sync'[q].at = "marker" => Distinct(sync'[q].lines)
                           /\ sync'[q].at = "feed" => Distinct(sync'[q].todo)
      BY <1>2, <2>1 DEF OneLineEach
  <2> QED BY <1>1, <2>2 DEF OneLineEach, Lines, Distinct
<1>3. CASE ReadLog(s)
  <2>1. CASE UNCHANGED sync
      BY <1>1, <2>1 DEF OneLineEach, Lines, Distinct
  <2>2. CASE Goto(s, [at |-> "marker", lines |-> file])
    <3>1. Distinct(file)
        BY DEF OneLineEach
    <3> QED BY <1>2, <2>2, <3>1
  <2> QED BY <1>3, <2>1, <2>2 DEF ReadLog
<1>4. CASE ReadMarker(s)
  <2> DEFINE new == Newer(sync[s].lines, ValueRead)
  <2>1. sync[s].at = "marker"
      BY <1>4 DEF ReadMarker
  <2>2. sync[s].lines \in Seq(Entries) /\ Distinct(sync[s].lines) /\ ValueRead \in Int
    <3>1. sync[s].lines \in Seq(Entries)
        BY <1>1, <2>1 DEF SyncOK, Idle
    <3>2. ValueRead \in Int
        BY <1>1 DEF FeedTypes, LogTypes, ValueRead, Missing
    <3> QED BY <2>1, <3>1, <3>2 DEF OneLineEach
  <2>3. Distinct(new)
      BY <2>2, NewerKeeps
  <2> HIDE DEF new
  <2>4. CASE new = <<>>
    <3>1. Goto(s, Idle)
        BY <1>4, <2>4 DEF ReadMarker, new
    <3> QED BY <1>2, <3>1 DEF Idle
  <2>5. CASE new # <<>>
    <3>1. Goto(s, [at |-> "feed", todo |-> new, latest |-> Latest(sync[s].lines)])
        BY <1>4, <2>5 DEF ReadMarker, new
    <3> QED BY <1>2, <2>3, <3>1
  <2> QED BY <2>4, <2>5
<1>5. CASE Feed(s)
  <2> DEFINE rest == Tail(sync[s].todo)
  <2>1. sync[s].at = "feed"
      BY <1>5 DEF Feed
  <2>2. sync[s].todo \in Seq(Entries) /\ sync[s].todo # <<>> /\ Distinct(sync[s].todo)
    <3>1. sync[s].todo \in Seq(Entries) /\ sync[s].todo # <<>>
        BY <1>1, <2>1 DEF SyncOK, Idle
    <3> QED BY <2>1, <3>1 DEF OneLineEach
  <2>3. Distinct(rest)
      BY <2>2, LinesOfTail
  <2>4. CASE rest = <<>>
    <3>1. Goto(s, [at |-> "save", latest |-> sync[s].latest])
        BY <1>5, <2>4 DEF Feed
    <3> QED BY <1>2, <3>1
  <2>5. CASE rest # <<>>
    <3>1. Goto(s, [at |-> "feed", todo |-> rest, latest |-> sync[s].latest])
        BY <1>5, <2>5 DEF Feed
    <3> QED BY <1>2, <2>3, <3>1
  <2> QED BY <2>4, <2>5
<1>6. CASE NoMarker(s) \/ EmptyMarker(s)
  <2>1. \E at \in {"save", "put"} : \E n : Goto(s, [at |-> at, latest |-> n])
      BY <1>6 DEF NoMarker, EmptyMarker
  <2> QED BY <1>2, <2>1
<1>7. CASE FeedRaises(s) \/ PutMarker(s) \/ MarkerFails(s)
  <2>1. Goto(s, Idle)
      BY <1>7 DEF FeedRaises, PutMarker, MarkerFails
  <2> QED BY <1>2, <2>1 DEF Idle
<1> QED BY <1>3, <1>4, <1>5, <1>6, <1>7 DEF SyncStep

LEMMA StepOneLine ==
    ASSUME FeedInv, OneLineEach, [Next]_vars, ~mixed'
    PROVE  OneLineEach'
<1>1. /\ LogTypes /\ FeedTypes /\ Past /\ made \in Nat
      /\ \A e \in Entries : e.id \in Nat
    BY DEF FeedInv, LogInv, LogTypes, Entries, Ids
<1>2. ASSUME NEW o \in Oracles, Decide(o) PROVE OneLineEach'
  <2>1. UNCHANGED <<file, said, rating, sync>>
      BY <1>2 DEF Decide, rateVars, feedVars
  <2>2. PICK kind : pen' = [pen EXCEPT ![o] = [id |-> made + 1, ts |-> now, kind |-> kind]]
      BY <1>2 DEF Decide
  <2>3. pen'[o].id = made + 1 /\ \A q \in Oracles : q # o => pen'[q] = pen[q]
      BY <1>1, <2>2 DEF LogTypes
  <2>4. \A e \in said : e.id # made + 1
    <3>1. \A e \in said : e.id <= made /\ e.id \in Nat
        BY <1>1 DEF Past
    <3> QED BY <1>1, <3>1
  <2>5. \A q \in Oracles : pen[q] # Idle => pen[q].id # made + 1
    <3> SUFFICES ASSUME NEW q \in Oracles, pen[q] # Idle PROVE pen[q].id # made + 1
        OBVIOUS
    <3>1. pen[q] \in Entries /\ pen[q].id <= made
        BY <1>1 DEF LogTypes, Past
    <3> QED BY <1>1, <3>1
  <2> QED BY <2>1, <2>3, <2>4, <2>5 DEF OneLineEach, Lines, Distinct
<1>3. ASSUME NEW o \in Oracles, SaveDecision(o) PROVE OneLineEach'
  <2> DEFINE e == pen[o]
  <2>1. UNCHANGED <<rating, sync>> /\ pen' = [pen EXCEPT ![o] = Idle] /\ pen[o] # Idle
      BY <1>3 DEF SaveDecision, feedVars
  <2>2. /\ e \in Entries /\ file \in Seq(Entries)
        /\ pen'[o] = Idle /\ \A q \in Oracles : q # o => pen'[q] = pen[q]
      BY <1>1, <2>1 DEF LogTypes
  <2>3. CASE UNCHANGED <<file, said>>
      BY <2>1, <2>2, <2>3 DEF OneLineEach, Lines, Distinct
  <2>4. CASE file' = Append(file, e) /\ said' = said \cup {e}
    <3>1. Lines(file') = Lines(file) \cup {e} /\ Lines(file) \subseteq said
        BY <1>1, <2>2, <2>4, LinesOfAppend DEF Past
    <3>2. \A f \in said : f.id # e.id
        BY <2>1 DEF OneLineEach
    <3>3. Distinct(file')
      <4>1. Distinct(file)
          BY DEF OneLineEach
      <4> QED BY <2>2, <2>4, <3>1, <3>2, <4>1, DistinctAppend
    <3>4. \A f, g \in said' : f.id = g.id => f = g
        BY <2>4, <3>2 DEF OneLineEach
    <3>5. \A q \in Oracles : pen'[q] # Idle => \A f \in said' : f.id # pen'[q].id
        BY <2>1, <2>2, <2>4 DEF OneLineEach
    <3>6. \A p, q \in Oracles : pen'[p] # Idle /\ pen'[q] # Idle /\ pen'[p].id = pen'[q].id => p = q
        BY <2>2 DEF OneLineEach
    <3>7. \A r \in Raters : rating[r].at = "write" =>
              \A f \in Lines(file'), g \in Lines(rating[r].lines) : f.id # g.id
      <4> SUFFICES ASSUME NEW r \in Raters, rating[r].at = "write",
                          NEW f \in Lines(file'), NEW g \in Lines(rating[r].lines)
                   PROVE  f.id # g.id
          OBVIOUS
      <4>1. g \in said
          BY <1>1 DEF Past, Idle
      <4> QED BY <3>1, <3>2, <4>1 DEF OneLineEach
    <3> QED BY <2>1, <3>3, <3>4, <3>5, <3>6, <3>7 DEF OneLineEach, Lines, Distinct
  <2> QED BY <1>3, <2>3, <2>4 DEF SaveDecision
<1>4. ASSUME NEW r \in Raters, ReadForFeedback(r) PROVE OneLineEach'
  <2>1. /\ UNCHANGED <<pen, file, said, sync>>
        /\ rating' = [rating EXCEPT ![r] = [at |-> "truncate", lines |-> file]]
        /\ \A q \in Raters : rating[q] = Idle
      BY <1>4 DEF ReadForFeedback, logVars, feedVars
  <2>2. /\ rating'[r].at = "truncate" /\ rating'[r].lines = file
        /\ \A q \in Raters : q # r => rating'[q] = rating[q]
      BY <1>1, <2>1 DEF LogTypes
  <2> QED BY <2>1, <2>2 DEF OneLineEach, Lines, Distinct
<1>5. ASSUME NEW r \in Raters, TruncateLog(r) PROVE OneLineEach'
  <2>1. /\ UNCHANGED <<pen, said, sync>>
        /\ file' = <<>> /\ rating' = [rating EXCEPT ![r].at = "write"] /\ rating[r].at = "truncate"
      BY <1>5 DEF TruncateLog, feedVars
  <2>2. rating[r] # Idle
      BY <2>1 DEF Idle
  <2>3. rating[r] \in [at : {"truncate", "write"}, lines : Seq(Entries)]
      BY <1>1, <2>2, RatingCases
  <2>4. rating'[r].lines = rating[r].lines /\ \A q \in Raters : q # r => rating'[q] = rating[q]
      BY <1>1, <2>1, <2>3 DEF LogTypes
  <2>5. Lines(file') = {} /\ Distinct(file')
      BY <2>1, EmptySeq DEF Lines, Distinct
  <2>6. \A q \in Raters : rating'[q] # Idle => rating[q] # Idle /\ Distinct(rating'[q].lines)
      BY <2>2, <2>4 DEF OneLineEach
  <2> QED BY <2>1, <2>5, <2>6 DEF OneLineEach, Lines, Distinct
<1>6. ASSUME NEW r \in Raters, WriteLog(r) PROVE OneLineEach'
  <2>1. /\ UNCHANGED <<pen, said, sync>>
        /\ rating' = [rating EXCEPT ![r] = Idle] /\ rating[r].at = "write"
      BY <1>6 DEF WriteLog, feedVars
  <2>2. rating[r] # Idle
      BY <2>1 DEF Idle
  <2>3. PICK over \in (IF file = <<>> THEN {0} ELSE 1 .. Len(file)) :
            file' = rating[r].lines \o SubSeq(file, over + 1, Len(file))
      BY <1>6 DEF WriteLog, Overwritten
  <2>4. rating[r].lines \in Seq(Entries) /\ file \in Seq(Entries) /\ over \in 0 .. Len(file)
      BY <1>1, <2>2, <2>3, RatingCases, LenProperties DEF LogTypes
  <2>5. Distinct(file')
    <3>1. /\ Distinct(rating[r].lines) /\ Distinct(file)
          /\ \A e \in Lines(file), f \in Lines(rating[r].lines) : e.id # f.id
        BY <2>1, <2>2 DEF OneLineEach
    <3> QED BY <2>3, <2>4, <3>1, DistinctRewrite
  <2>6. \A q \in Raters : rating'[q] = Idle
      BY <1>1, <2>1, <2>2 DEF OneLineEach, LogTypes
  <2> QED BY <2>1, <2>5, <2>6 DEF OneLineEach, Idle
<1>9. ASSUME NEW r \in Raters, WriteLogFails(r) PROVE OneLineEach'
  <2>1. /\ UNCHANGED <<pen, said, sync>>
        /\ rating' = [rating EXCEPT ![r] = Idle] /\ rating[r].at = "write"
      BY <1>9 DEF WriteLogFails, feedVars
  <2>2. rating[r] # Idle
      BY <2>1 DEF Idle
  <2>3. PICK part \in 0 .. Len(rating[r].lines), over \in 0 .. Len(file) :
            file' = SubSeq(rating[r].lines, 1, part) \o SubSeq(file, over + 1, Len(file))
      BY <1>9 DEF WriteLogFails, Overwritten
  <2> DEFINE lines == rating[r].lines  kept == SubSeq(lines, 1, part)
  <2>4. lines \in Seq(Entries) /\ file \in Seq(Entries)
      BY <1>1, <2>2, RatingCases DEF LogTypes
  <2>5. /\ kept \in Seq(Entries) /\ Lines(kept) \subseteq Lines(lines) /\ DOMAIN kept \subseteq DOMAIN lines
        /\ \A i \in DOMAIN kept : kept[i] = lines[i]
      BY <2>4, PrefixOf
  <2>6. Distinct(file')
    <3>1. /\ Distinct(lines) /\ Distinct(file)
          /\ \A e \in Lines(file), f \in Lines(lines) : e.id # f.id
        BY <2>1, <2>2 DEF OneLineEach
    <3>2. Distinct(kept)
      <4> HIDE DEF kept, lines
      <4> QED BY <2>5, <3>1 DEF Distinct
    <3>3. \A e \in Lines(file), f \in Lines(kept) : e.id # f.id
        BY <2>5, <3>1
    <3> HIDE DEF kept
    <3>4. Distinct(kept \o SubSeq(file, over + 1, Len(file)))
        BY <2>4, <2>5, <3>1, <3>2, <3>3, DistinctRewrite
    <3> QED BY <2>3, <3>4 DEF kept
  <2>7. \A q \in Raters : rating'[q] = Idle
      BY <1>1, <2>1, <2>2 DEF OneLineEach, LogTypes
  <2> QED BY <2>1, <2>6, <2>7 DEF OneLineEach, Idle
<1>7. ASSUME NEW p \in Processes, Crash(p) PROVE OneLineEach'
  <2>1. /\ UNCHANGED <<file, said>>
        /\ \A s \in Syncers : sync'[s] = Idle \/ sync'[s] = sync[s]
        /\ \A r \in Raters : rating'[r] = Idle \/ rating'[r] = rating[r]
        /\ \A o \in Oracles : pen'[o] = Idle \/ pen'[o] = pen[o]
      BY <1>7 DEF Crash
  <2>2. \A r \in Raters :
         /\ rating'[r] # Idle => Distinct(rating'[r].lines)
         /\ rating'[r].at = "write" => \A e \in Lines(file), f \in Lines(rating'[r].lines) : e.id # f.id
      BY <2>1 DEF OneLineEach, Idle
  <2>3. \A s \in Syncers :
         /\ sync'[s].at = "marker" => Distinct(sync'[s].lines)
         /\ sync'[s].at = "feed" => Distinct(sync'[s].todo)
      BY <2>1 DEF OneLineEach, Idle
  <2> QED BY <2>1, <2>2, <2>3 DEF OneLineEach, Lines, Distinct
<1>8. ASSUME UNCHANGED <<pen, file, said, rating, sync>> PROVE OneLineEach'
    BY <1>8 DEF OneLineEach, Lines, Distinct
<1> QED BY <1>2, <1>3, <1>4, <1>5, <1>6, <1>7, <1>8, <1>9, SyncOneLine
        DEF Next, RewriteStep, Tick, vars, logVars, rateVars, feedVars

LEMMA SyncerAt ==
    ASSUME FeedInv, NEW s \in Syncers
    PROVE  /\ sync[s].at = "marker" => sync[s].lines \in Seq(Entries) /\ sync[s].lines # <<>>
                                       /\ Lines(sync[s].lines) \subseteq said
           /\ sync[s].at = "feed" => /\ sync[s].todo \in Seq(Entries) /\ sync[s].todo # <<>>
                                     /\ Lines(sync[s].todo) \subseteq said /\ sync[s].latest \in Nat
           /\ sync[s].at \in {"save", "put"} => sync[s].latest \in Nat
           /\ marker \in Int /\ ValueRead \in Int
<1>1. SyncOK(sync[s]) /\ marker \in {Missing} \cup 0 .. now /\ now \in Nat
    BY DEF FeedInv, FeedTypes, LogInv, LogTypes
<1>2. sync[s].at = "marker" => sync[s].lines \in Seq(Entries) /\ sync[s].lines # <<>>
    BY <1>1 DEF SyncOK, Idle
<1>3. sync[s].at = "feed" =>
          sync[s].todo \in Seq(Entries) /\ sync[s].todo # <<>> /\ sync[s].latest \in Nat
    BY <1>1 DEF SyncOK, Idle
<1>4. sync[s].at \in {"save", "put"} => sync[s].latest \in Nat
    BY <1>1 DEF SyncOK, Idle
<1>5. /\ sync[s].at = "marker" => Lines(sync[s].lines) \subseteq said
      /\ sync[s].at = "feed" => Lines(sync[s].todo) \subseteq said
    BY DEF FeedInv, Past
<1>6. marker \in Int /\ ValueRead \in Int
    BY <1>1 DEF ValueRead, Missing
<1> QED BY <1>2, <1>3, <1>4, <1>5, <1>6

(* What a reading of the marker finds new.                                 *)
LEMMA NewLines ==
    ASSUME FeedInv, NEW s \in Syncers, ReadMarker(s)
    PROVE  /\ sync[s].at = "marker" /\ marker = ValueRead /\ marker > 0
           /\ \/ Goto(s, Idle) /\ \A e \in Lines(sync[s].lines) : e.ts <= marker
              \/ /\ Goto(s, [at |-> "feed", todo |-> Newer(sync[s].lines, marker),
                             latest |-> Latest(sync[s].lines)])
                 /\ Newer(sync[s].lines, marker) \in Seq(Entries)
                 /\ Lines(Newer(sync[s].lines, marker)) = {e \in Lines(sync[s].lines) : e.ts > marker}
                 /\ marker < Latest(sync[s].lines)
                 /\ \A e \in Lines(sync[s].lines) : e.ts <= Latest(sync[s].lines)
<1> DEFINE lines == sync[s].lines  new == Newer(lines, marker)
<1>1. sync[s].at = "marker" /\ ValueRead # 0
    BY DEF ReadMarker
<1>2. marker = ValueRead /\ marker > 0
  <2>1. marker \in {Missing} \cup 0 .. now /\ now \in Nat
      BY DEF FeedInv, FeedTypes, LogInv, LogTypes
  <2> QED BY <1>1, <2>1 DEF ValueRead, Missing
<1>3. /\ lines \in Seq(Entries) /\ lines # <<>> /\ marker \in Int
      /\ \A e \in Lines(lines) : e.ts \in Nat
  <2>1. lines \in Seq(Entries) /\ lines # <<>> /\ marker \in Int /\ Lines(lines) \subseteq said
      BY <1>1, SyncerAt
  <2>2. said \subseteq Entries
      BY DEF FeedInv, Past
  <2> QED BY <2>1, <2>2 DEF Entries
<1>4. new \in Seq(Entries) /\ Lines(new) = {e \in Lines(lines) : e.ts > marker}
    BY <1>3, NewerKeeps
<1>5. \A e \in Lines(lines) : e.ts <= Latest(lines)
    BY <1>3, LatestIsLast
<1>6. Latest(lines) \in Nat
    BY <1>3, LatestIsLast
<1> HIDE DEF new
<1>7. CASE new = <<>>
  <2>1. Goto(s, Idle)
      BY <1>2, <1>7 DEF ReadMarker, new
  <2>2. Lines(new) = {}
      BY <1>7, EmptySeq DEF Lines
  <2>3. \A e \in Lines(lines) : e.ts <= marker
      BY <1>3, <1>4, <2>2
  <2> QED BY <1>1, <1>2, <2>1, <2>3
<1>8. CASE new # <<>>
  <2>1. Goto(s, [at |-> "feed", todo |-> new, latest |-> Latest(lines)])
      BY <1>2, <1>8 DEF ReadMarker, new
  <2>2. PICK e \in Lines(new) : TRUE
    <3>1. 1 \in DOMAIN new
        BY <1>4, <1>8, LenProperties, EmptySeq
    <3> QED BY <3>1 DEF Lines
  <2>3. marker < Latest(lines)
      BY <1>3, <1>4, <1>5, <1>6, <2>2
  <2> QED BY <1>1, <1>2, <1>4, <1>5, <2>1, <2>3 DEF new
<1> QED BY <1>7, <1>8

--------------------------------------------------------------------------------
(* The syncs under way, counted.                                           *)

(* A sync that may still feed e, or let a later one feed it again: it has  *)
(* not compared the marker yet, has e to feed, or will set the marker to a *)
(* time before e.                                                          *)
Threatens(s, e) ==
    \/ sync[s].at = "marker"
    \/ sync[s].at = "feed" /\ e \in Lines(sync[s].todo)
    \/ sync[s].at \in {"feed", "save", "put"} /\ sync[s].latest < e.ts
Threats(e) == {s \in Syncers : Threatens(s, e)}

Count(S) == Cardinality(S)

LEMMA Counting ==
    ASSUME NEW S \in SUBSET Syncers, NEW T \in SUBSET Syncers, NEW s \in Syncers
    PROVE  /\ Count(S) \in Nat /\ Count(T) \in Nat
           /\ S \subseteq T => Count(S) <= Count(T)
           /\ s \in T /\ S \subseteq T \ {s} => Count(S) + 1 <= Count(T)
           /\ S \subseteq T \cup {s} => Count(S) <= Count(T) + 1
<1>1. /\ IsFiniteSet(S) /\ IsFiniteSet(T) /\ IsFiniteSet(T \ {s}) /\ IsFiniteSet(T \cup {s})
  <2>1. IsFiniteSet(Syncers) /\ T \ {s} \subseteq Syncers /\ T \cup {s} \subseteq Syncers
      BY FeedAssumption
  <2> QED BY <2>1, FS_Subset
<1>2. Count(S) \in Nat /\ Count(T) \in Nat /\ Count(T \ {s}) \in Nat /\ Count(T \cup {s}) \in Nat
    BY <1>1, FS_CardinalityType DEF Count
<1>3. S \subseteq T => Count(S) <= Count(T)
    BY <1>1, FS_Subset DEF Count
<1>4. ASSUME s \in T, S \subseteq T \ {s} PROVE Count(S) + 1 <= Count(T)
  <2>1. Count(S) <= Count(T \ {s})
      BY <1>1, <1>4, FS_Subset DEF Count
  <2>2. Count(T \ {s}) = Count(T) - 1
      BY <1>1, <1>4, FS_RemoveElement DEF Count
  <2> QED BY <1>2, <2>1, <2>2
<1>5. ASSUME S \subseteq T \cup {s} PROVE Count(S) <= Count(T) + 1
  <2>1. Count(S) <= Count(T \cup {s})
      BY <1>1, <1>5, FS_Subset DEF Count
  <2>2. Count(T \cup {s}) <= Count(T) + 1
    <3>1. CASE s \in T
      <4>1. T \cup {s} = T
          BY <3>1
      <4> QED BY <1>2, <4>1
    <3>2. CASE s \notin T
        BY <1>1, <1>2, <3>2, FS_AddElement DEF Count
    <3> QED BY <3>1, <3>2
  <2> QED BY <1>2, <2>1, <2>2
<1> QED BY <1>2, <1>3, <1>4, <1>5

(* A step of one sync leaves the others what they are.                     *)
LEMMA OneSyncGoes ==
    ASSUME FeedInv, NEW s \in Syncers, NEW c, Goto(s, c)
    PROVE  /\ sync'[s] = c /\ \A q \in Syncers : q # s => sync'[q] = sync[q]
           /\ \A e : /\ Threats(e)' \subseteq Threats(e) \cup {s}
                     /\ s \notin Threats(e)' => Threats(e)' \subseteq Threats(e) \ {s}
           /\ InFlight' \subseteq InFlight \cup {s}
           /\ c = Idle => InFlight' \subseteq InFlight \ {s}
           /\ c # Idle => s \in InFlight'
<1>1. sync'[s] = c /\ \A q \in Syncers : q # s => sync'[q] = sync[q]
    BY DEF FeedInv, FeedTypes, Goto
<1>2. ASSUME NEW e, NEW q \in Threats(e)', q # s PROVE q \in Threats(e)
    BY <1>1, <1>2 DEF Threats, Threatens, Lines
<1>3. ASSUME NEW e PROVE /\ Threats(e)' \subseteq Threats(e) \cup {s}
                         /\ s \notin Threats(e)' => Threats(e)' \subseteq Threats(e) \ {s}
    BY <1>2
<1>4. \A q \in Syncers : q # s => (q \in InFlight' <=> q \in InFlight)
    BY <1>1 DEF InFlight
<1>5. /\ InFlight' \subseteq InFlight \cup {s} /\ (c = Idle => InFlight' \subseteq InFlight \ {s})
      /\ (c # Idle => s \in InFlight')
    BY <1>1, <1>4 DEF InFlight
<1> QED BY <1>1, <1>3, <1>5

--------------------------------------------------------------------------------
(* The syncs: what one is about to feed is no newer than what it will set  *)
(* the marker to, what was fed was said, and each sync under way but one   *)
(* was counted when it began.                                              *)
SyncsInv ==
    /\ \A s \in Syncers : sync[s].at = "feed" => \A e \in Lines(sync[s].todo) : e.ts <= sync[s].latest
    /\ \A d \in Ids : fed[d] # 0 => \E e \in said : e.id = d
    /\ Count(InFlight) <= 1 + overlaps

LEMMA StepSyncs ==
    ASSUME FeedInv, SyncsInv, [Next]_vars
    PROVE  SyncsInv'
<1> DEFINE Below == \A s \in Syncers :
               sync[s].at = "feed" => \A e \in Lines(sync[s].todo) : e.ts <= sync[s].latest
           FedSaid == \A d \in Ids : fed[d] # 0 => \E e \in said : e.id = d
           Counted == Count(InFlight) <= 1 + overlaps
<1>1. /\ FeedTypes /\ Past /\ InFlight \in SUBSET Syncers /\ InFlight' \in SUBSET Syncers
      /\ overlaps \in Nat /\ (Below' /\ FedSaid' /\ Counted' => SyncsInv')
  <2>1. FeedTypes /\ Past /\ InFlight \in SUBSET Syncers /\ InFlight' \in SUBSET Syncers
      BY DEF FeedInv, InFlight
  <2>2. overlaps \in Nat
      BY <2>1, FeedAssumption DEF FeedTypes
  <2>3. ASSUME Below', FedSaid', Counted' PROVE SyncsInv'
      BY <2>3 DEF SyncsInv
  <2> QED BY <2>1, <2>2, <2>3
<1>2. Below /\ FedSaid /\ Counted
    BY DEF SyncsInv
<1>3. Count(InFlight) \in Nat /\ Count(InFlight') \in Nat
      /\ (InFlight' \subseteq InFlight => Count(InFlight') <= Count(InFlight))
  <2>1. IsFiniteSet(InFlight) /\ IsFiniteSet(InFlight')
      BY <1>1, FS_Subset, FeedAssumption
  <2> QED BY <2>1, FS_Subset, FS_CardinalityType DEF Count
<1>4. ASSUME UNCHANGED <<sync, overlaps>> PROVE Below' /\ Counted'
  <2>1. InFlight' = InFlight
      BY <1>4 DEF InFlight
  <2> QED BY <1>2, <1>4, <2>1 DEF Lines, Count
<1>5. ASSUME NEW s \in Syncers, SyncStep(s) PROVE Below' /\ FedSaid' /\ Counted'
  <2>1. UNCHANGED said
      BY <1>5, SyncKeeps
  <2>2. ASSUME NEW c, Goto(s, c), c.at = "feed" => \A e \in Lines(c.todo) : e.ts <= c.latest
        PROVE  Below'
    <3>1. sync'[s] = c /\ \A q \in Syncers : q # s => sync'[q] = sync[q]
        BY <2>2, OneSyncGoes
    <3> QED BY <1>2, <2>2, <3>1 DEF Lines
  <2>3. ASSUME NEW c, Goto(s, c), sync[s] # Idle, UNCHANGED overlaps PROVE Counted'
    <3>1. s \in InFlight /\ InFlight' \subseteq InFlight \cup {s}
        BY <2>3, OneSyncGoes DEF InFlight
    <3>2. Count(InFlight') <= Count(InFlight)
        BY <1>3, <3>1
    <3>3. Count(InFlight') <= 1 + overlaps
        BY <1>1, <1>2, <1>3, <3>2
    <3> QED BY <2>3, <3>3 DEF Count
  <2>4. ASSUME UNCHANGED fed PROVE FedSaid'
      BY <1>2, <2>1, <2>4
  <2>5. CASE ReadLog(s)
    <3>1. UNCHANGED fed /\ sync[s] = Idle
        BY <2>5 DEF ReadLog
    <3>2. CASE UNCHANGED <<sync, overlaps>>
        BY <1>4, <2>4, <3>1, <3>2
    <3>3. CASE /\ Goto(s, [at |-> "marker", lines |-> file])
               /\ IF InFlight = {} THEN UNCHANGED overlaps
                  ELSE overlaps < MaxOverlaps /\ overlaps' = overlaps + 1
      <4>1. Below'
          BY <2>2, <3>3
      <4>2. InFlight' \subseteq InFlight \cup {s}
          BY <3>3, OneSyncGoes
      <4>3. Count(InFlight') <= Count(InFlight) + 1
          BY <1>1, <4>2, Counting
      <4>4. CASE InFlight = {}
        <5>1. Count(InFlight) = 0
            BY <4>4, FS_EmptySet DEF Count
        <5>2. Count(InFlight') <= 1 + overlaps'
            BY <1>1, <1>3, <3>3, <4>3, <4>4, <5>1
        <5> QED BY <2>4, <3>1, <4>1, <5>2 DEF Count
      <4>5. CASE InFlight # {}
        <5>1. Count(InFlight') <= 1 + overlaps'
            BY <1>1, <1>2, <1>3, <3>3, <4>3, <4>5
        <5> QED BY <2>4, <3>1, <4>1, <5>1 DEF Count
      <4> QED BY <4>4, <4>5
    <3> QED BY <2>5, <3>2, <3>3 DEF ReadLog
  <2>6. CASE NoMarker(s) \/ EmptyMarker(s)
    <3>1. UNCHANGED <<fed, overlaps>> /\ sync[s] # Idle
        BY <2>6 DEF NoMarker, EmptyMarker, Idle
    <3>2. \E at \in {"save", "put"} : \E n : Goto(s, [at |-> at, latest |-> n])
        BY <2>6 DEF NoMarker, EmptyMarker
    <3> QED BY <2>2, <2>3, <2>4, <3>1, <3>2
  <2>7. CASE FeedRaises(s) \/ PutMarker(s) \/ MarkerFails(s)
    <3>1. UNCHANGED <<fed, overlaps>> /\ sync[s] # Idle
        BY <2>7 DEF FeedRaises, PutMarker, MarkerFails, Idle
    <3>2. Goto(s, Idle) /\ Idle.at # "feed"
        BY <2>7 DEF FeedRaises, PutMarker, MarkerFails, Idle
    <3> QED BY <2>2, <2>3, <2>4, <3>1, <3>2
  <2>8. CASE ReadMarker(s)
    <3> DEFINE lines == sync[s].lines  new == Newer(lines, marker)
               c == [at |-> "feed", todo |-> new, latest |-> Latest(lines)]
    <3>1. UNCHANGED <<fed, overlaps>> /\ sync[s] # Idle
        BY <2>8 DEF ReadMarker, Idle
    <3>2. CASE Goto(s, Idle)
      <4>1. Idle.at # "feed"
          BY DEF Idle
      <4> QED BY <2>2, <2>3, <2>4, <3>1, <3>2, <4>1
    <3>3. CASE /\ Goto(s, c) /\ Lines(new) = {e \in Lines(lines) : e.ts > marker}
               /\ \A e \in Lines(lines) : e.ts <= Latest(lines)
      <4>1. c.todo = new /\ c.latest = Latest(lines) /\ \A e \in Lines(new) : e.ts <= Latest(lines)
          BY <3>3
      <4> HIDE DEF c
      <4> QED BY <2>2, <2>3, <2>4, <3>1, <3>3, <4>1
    <3> QED BY <2>8, <3>2, <3>3, NewLines
  <2>9. CASE Feed(s)
    <3> DEFINE f == Head(sync[s].todo)  rest == Tail(sync[s].todo)
    <3>1. sync[s].at = "feed" /\ UNCHANGED overlaps /\ sync[s] # Idle
        BY <2>9 DEF Feed, Idle
    <3>2. /\ f \in said /\ f.id \in Ids /\ Lines(rest) \subseteq Lines(sync[s].todo)
      <4>1. Lines(sync[s].todo) \subseteq said /\ Lines(sync[s].todo) = {f} \cup Lines(rest) /\ f \in Entries
          BY <3>1, SyncerAt, LinesOfTail
      <4> QED BY <4>1 DEF Entries
    <3>3. FedSaid'
      <4>1. fed' = fed \/ fed' = FedOnceMore(f.id)
          BY <2>9 DEF Feed
      <4>2. \A d \in Ids : fed'[d] = fed[d] \/ d = f.id
          BY <1>1, <4>1 DEF FedOnceMore, FeedTypes
      <4> QED BY <1>2, <2>1, <3>2, <4>2
    <3>4. CASE rest = <<>>
      <4>1. Goto(s, [at |-> "save", latest |-> sync[s].latest])
          BY <2>9, <3>4 DEF Feed
      <4> QED BY <2>2, <2>3, <3>1, <3>3, <4>1
    <3>5. CASE rest # <<>>
      <4> DEFINE c == [at |-> "feed", todo |-> rest, latest |-> sync[s].latest]
      <4>1. Goto(s, c)
          BY <2>9, <3>5 DEF Feed
      <4>2. c.todo = rest /\ c.latest = sync[s].latest /\ \A e \in Lines(rest) : e.ts <= sync[s].latest
          BY <1>2, <3>1, <3>2
      <4> HIDE DEF c
      <4> QED BY <2>2, <2>3, <3>1, <3>3, <4>1, <4>2
    <3> QED BY <3>4, <3>5
  <2> QED BY <1>5, <2>5, <2>6, <2>7, <2>8, <2>9 DEF SyncStep
<1>6. ASSUME NEW p \in Processes, Crash(p) PROVE Below' /\ FedSaid' /\ Counted'
  <2>1. /\ UNCHANGED <<fed, said, overlaps>>
        /\ \A s \in Syncers : sync'[s] = Idle \/ sync'[s] = sync[s]
      BY <1>6 DEF Crash
  <2>2. InFlight' \subseteq InFlight
      BY <2>1 DEF InFlight
  <2>3. Count(InFlight') <= 1 + overlaps
      BY <1>1, <1>2, <1>3, <2>2
  <2>4. Below'
      BY <1>2, <2>1 DEF Idle, Lines
  <2> QED BY <1>2, <2>1, <2>3, <2>4 DEF Count
<1>7. ASSUME UNCHANGED <<fed, sync, overlaps>>, said \subseteq said' PROVE Below' /\ FedSaid' /\ Counted'
    BY <1>2, <1>4, <1>7
<1>8. CASE UNCHANGED <<fed, sync, overlaps, said>>
    BY <1>1, <1>7, <1>8
<1>9. ASSUME NEW o \in Oracles, SaveDecision(o) PROVE SyncsInv'
  <2>1. UNCHANGED <<fed, sync, overlaps>> /\ said \subseteq said'
      BY <1>9 DEF SaveDecision, feedVars
  <2> QED BY <1>1, <1>7, <2>1
<1> QED BY <1>1, <1>5, <1>6, <1>8, <1>9 DEF Next, RewriteStep, Decide, ReadForFeedback, TruncateLog,
        WriteLog, WriteLogFails, Tick, vars, logVars, rateVars, feedVars

--------------------------------------------------------------------------------
(* How often a decision was fed and may still be: a mishap allows once     *)
(* more.  A sync that has still to compare the marker, when the marker is  *)
(* not before the decision, is not one that will feed it.                  *)
Budget == 1 + crashes + faults + overlaps
Exposed(e) == marker < e.ts
Unsettled(e) == Exposed(e) \/ \E s \in InFlight : sync[s].at # "marker"

OnceFor(e) ==
    /\ fed[e.id] + Count(Threats(e)) <= Budget + 1
    /\ Unsettled(e) => fed[e.id] + Count(Threats(e)) <= Budget
    /\ InFlight = {} => fed[e.id] <= Budget /\ (Exposed(e) => fed[e.id] + 1 <= Budget)

LEMMA OnceTypes ==
    ASSUME FeedInv, NEW e \in said
    PROVE  /\ e \in Entries /\ e.id \in Ids /\ e.ts \in Nat /\ e.ts >= 1 /\ fed[e.id] \in Nat
           /\ Budget \in Nat /\ marker \in Int
           /\ Threats(e) \in SUBSET Syncers /\ InFlight \in SUBSET Syncers
           /\ Threats(e) \subseteq InFlight
<1>1. e \in Entries /\ FeedTypes /\ now \in Nat
    BY DEF FeedInv, Past, LogInv, LogTypes
<1>2. e.id \in Ids /\ e.ts \in Nat /\ e.ts >= 1
    BY <1>1, FeedAssumption DEF Entries
<1>3. fed[e.id] \in Nat /\ marker \in Int
    BY <1>1, <1>2, FeedAssumption DEF FeedTypes, Missing
<1>4. Budget \in Nat
    BY <1>1, FeedAssumption DEF FeedTypes, Budget
<1>5. Threats(e) \subseteq InFlight
    BY DEF Threats, Threatens, InFlight, Idle
<1> QED BY <1>1, <1>2, <1>3, <1>4, <1>5 DEF InFlight

(* What a step means for the count, in numbers.                            *)
LEMMA OnceKept ==
    ASSUME FeedInv, FeedInv', NEW e \in said, e \in said', OnceFor(e),
           fed'[e.id] + Count(Threats(e)') <= fed[e.id] + Count(Threats(e)), fed'[e.id] = fed[e.id],
           InFlight' \subseteq InFlight,
           \A s \in InFlight' : sync'[s] = sync[s],
           marker' = marker, Budget' = Budget \/ Budget' = Budget + 1,
           InFlight' # InFlight => Budget' = Budget + 1
    PROVE  OnceFor(e)'
<1> DEFINE F == fed[e.id]  N == Count(Threats(e))  B == Budget
           F1 == fed'[e.id]  N1 == Count(Threats(e)')  B1 == Budget'
<1>1. F \in Nat /\ N \in Nat /\ B \in Nat /\ N1 \in Nat
  <2>1. Threats(e) \in SUBSET Syncers /\ F \in Nat /\ B \in Nat
      BY OnceTypes
  <2>2. Threats(e)' \in SUBSET Syncers
      BY DEF Threats
  <2>3. IsFiniteSet(Threats(e)) /\ IsFiniteSet(Threats(e)')
      BY <2>1, <2>2, FS_Subset, FeedAssumption
  <2> QED BY <2>1, <2>3, FS_CardinalityType DEF Count
<1>2. /\ F + N <= B + 1 /\ (Unsettled(e) => F + N <= B)
      /\ (InFlight = {} => F <= B /\ (Exposed(e) => F + 1 <= B))
    BY DEF OnceFor
<1>3. Exposed(e)' = Exposed(e) /\ (Unsettled(e)' => Unsettled(e))
    BY DEF Exposed, Unsettled
<1>4. F1 = F /\ N1 <= N /\ (B1 = B \/ B1 = B + 1)
    BY <1>1
<1>5. F1 + N1 <= B1 + 1 /\ (Unsettled(e)' => F1 + N1 <= B1)
    BY <1>1, <1>2, <1>3, <1>4
<1>6. ASSUME InFlight' = {} PROVE F1 <= B1 /\ (Exposed(e)' => F1 + 1 <= B1)
  <2>1. CASE InFlight = {}
      BY <1>1, <1>2, <1>3, <1>4, <2>1
  <2>2. CASE InFlight # {}
    <3>1. B1 = B + 1
        BY <1>6, <2>2
    <3>2. Exposed(e) => Unsettled(e)
        BY DEF Unsettled
    <3> HIDE DEF F, N, B, F1, N1, B1
    <3> QED BY <1>1, <1>2, <1>3, <1>4, <3>1, <3>2
  <2> QED BY <2>1, <2>2
<1>7. OnceFor(e)' = /\ F1 + N1 <= B1 + 1
                    /\ (Unsettled(e)' => F1 + N1 <= B1)
                    /\ (InFlight' = {} => F1 <= B1 /\ (Exposed(e)' => F1 + 1 <= B1))
    BY DEF OnceFor, Count
<1> HIDE DEF F, N, B, F1, N1, B1
<1> QED BY <1>5, <1>6, <1>7

LEMMA SyncOnce ==
    ASSUME FeedInv, SyncsInv, OneLineEach, NEW e \in said, OnceFor(e), Readable,
           NEW s \in Syncers, SyncStep(s)
    PROVE  OnceFor(e)'
<1> DEFINE F == fed[e.id]  N == Count(Threats(e))  B == Budget
           F1 == fed'[e.id]  N1 == Count(Threats(e)')  B1 == Budget'
<1>1. /\ e \in Entries /\ e.ts \in Nat /\ e.ts >= 1 /\ marker \in Int
      /\ Threats(e) \in SUBSET Syncers /\ Threats(e)' \in SUBSET Syncers
      /\ Threats(e) \subseteq InFlight /\ InFlight' \in SUBSET Syncers
    BY OnceTypes DEF Threats, InFlight
<1>2. F \in Nat /\ N \in Nat /\ B \in Nat /\ N1 \in Nat
    BY <1>1, Counting, OnceTypes
<1>3. /\ F + N <= B + 1 /\ (Unsettled(e) => F + N <= B)
      /\ (InFlight = {} => F <= B /\ (Exposed(e) => F + 1 <= B))
    BY DEF OnceFor
<1>4. OnceFor(e)' = /\ F1 + N1 <= B1 + 1
                    /\ (Unsettled(e)' => F1 + N1 <= B1)
                    /\ (InFlight' = {} => F1 <= B1 /\ (Exposed(e)' => F1 + 1 <= B1))
    BY DEF OnceFor, Count
<1>5. ASSUME NEW c, Goto(s, c)
      PROVE  /\ sync'[s] = c
             /\ N1 <= N + 1
             /\ s \in Threats(e) => N1 <= N
             /\ s \notin Threats(e)' => N1 <= N
             /\ s \in Threats(e) /\ s \notin Threats(e)' => N1 + 1 <= N
             /\ s \in Threats(e)' <=> \/ c.at = "marker"
                                      \/ c.at = "feed" /\ e \in Lines(c.todo)
                                      \/ c.at \in {"feed", "save", "put"} /\ c.latest < e.ts
  <2>1. /\ sync'[s] = c /\ Threats(e)' \subseteq Threats(e) \cup {s}
        /\ s \notin Threats(e)' => Threats(e)' \subseteq Threats(e) \ {s}
      BY <1>5, OneSyncGoes
  <2>2. s \in Threats(e)' <=> \/ c.at = "marker"
                              \/ c.at = "feed" /\ e \in Lines(c.todo)
                              \/ c.at \in {"feed", "save", "put"} /\ c.latest < e.ts
      BY <2>1 DEF Threats, Threatens, Lines
  <2> QED BY <1>1, <2>1, <2>2, Counting
<1>6. s \in Threats(e) <=> \/ sync[s].at = "marker"
                           \/ sync[s].at = "feed" /\ e \in Lines(sync[s].todo)
                           \/ sync[s].at \in {"feed", "save", "put"} /\ sync[s].latest < e.ts
    BY DEF Threats, Threatens
<1>7. sync[s].at \in {"feed", "save", "put"} => Unsettled(e)
    BY DEF Unsettled, InFlight, Idle
<1>8. UNCHANGED crashes
    BY SyncKeeps
<1> HIDE DEF F, N, B, F1, N1, B1
<1>9. ASSUME F1 + N1 <= B1, InFlight' = {} => F1 <= B1 /\ (Exposed(e)' => F1 + 1 <= B1), F1 \in Nat, B1 \in Nat
      PROVE  OnceFor(e)'
    BY <1>2, <1>4, <1>9
(* A sync that goes on, past the comparison.                               *)
<1>10. ASSUME NEW c, Goto(s, c), c # Idle, F1 + N1 <= B1, F1 \in Nat, B1 \in Nat PROVE OnceFor(e)'
  <2>1. InFlight' # {}
      BY <1>10, OneSyncGoes
  <2> QED BY <1>9, <1>10, <2>1
<1>11. CASE ReadLog(s)
  <2>1. sync[s] = Idle /\ UNCHANGED <<marker, fed, faults>> /\ F1 = F /\ Exposed(e)' = Exposed(e)
      BY <1>11 DEF ReadLog, F, F1, Exposed
  <2>2. CASE UNCHANGED <<sync, overlaps>>
    <3>1. /\ N1 = N /\ B1 = B /\ InFlight' = InFlight
          /\ Unsettled(e)' = Unsettled(e)
        BY <1>8, <2>1, <2>2 DEF N, N1, B, B1, Threats, Threatens, Lines, Count, Budget, InFlight,
                                Unsettled, Exposed
    <3> QED BY <1>2, <1>3, <1>4, <2>1, <3>1
  <2>3. CASE /\ Goto(s, [at |-> "marker", lines |-> file])
             /\ IF InFlight = {} THEN UNCHANGED overlaps
                ELSE overlaps < MaxOverlaps /\ overlaps' = overlaps + 1
    <3> DEFINE c == [at |-> "marker", lines |-> file]
    <3>1. N1 <= N + 1 /\ sync'[s] = c
        BY <1>5, <2>3
    <3>2. s \in InFlight' /\ c # Idle
      <4>1. c # Idle
          BY DEF Idle
      <4> HIDE DEF c
      <4> QED BY <2>3, <4>1, OneSyncGoes DEF c
    <3>3. \A q \in Syncers : q # s => sync'[q] = sync[q]
        BY <2>3, OneSyncGoes
    <3>4. Unsettled(e)' => Unsettled(e)
      <4>1. ASSUME NEW q \in InFlight', sync'[q].at # "marker" PROVE q \in InFlight /\ sync[q].at # "marker"
        <5>1. q # s
            BY <3>1, <4>1
        <5> QED BY <3>3, <4>1, <5>1 DEF InFlight
      <4> QED BY <2>1, <4>1 DEF Unsettled
    <3>5. CASE InFlight = {}
      <4>1. N = 0 /\ B1 = B
        <5>1. Threats(e) = {}
            BY <1>1, <3>5
        <5> QED BY <1>8, <2>1, <2>3, <3>5, <5>1, FS_EmptySet DEF N, B, B1, Budget, Count
      <4>2. Unsettled(e)' => Exposed(e)
        <5>1. Unsettled(e) => Exposed(e)
            BY <3>5 DEF Unsettled
        <5> QED BY <3>4, <5>1
      <4> QED BY <1>2, <1>3, <1>4, <2>1, <3>1, <3>2, <3>5, <4>1, <4>2
    <3>6. CASE InFlight # {}
      <4>1. B1 = B + 1
        <5>1. /\ crashes \in Nat /\ faults \in Nat /\ overlaps \in Nat
              /\ crashes' = crashes /\ faults' = faults /\ overlaps' = overlaps + 1
            BY <1>8, <2>1, <2>3, <3>6, FeedAssumption DEF FeedInv, FeedTypes
        <5> QED BY <5>1 DEF B, B1, Budget
      <4> QED BY <1>2, <1>3, <1>4, <2>1, <3>1, <3>2, <3>4, <4>1
    <3> QED BY <3>5, <3>6
  <2> QED BY <1>11, <2>2, <2>3 DEF ReadLog
<1>12. CASE NoMarker(s)
  <2>1. /\ sync[s].at = "marker" /\ ValueRead = 0 /\ UNCHANGED <<marker, fed, faults, overlaps>>
        /\ Goto(s, [at |-> "save", latest |-> Latest(sync[s].lines)])
      BY <1>12 DEF NoMarker
  <2>2. F1 = F /\ B1 = B
      BY <1>8, <2>1 DEF F, F1, B, B1, Budget
  <2>3. N1 <= N
      BY <1>5, <1>6, <2>1
  <2>4. Unsettled(e)
      BY <1>1, <2>1 DEF ValueRead, Missing, Exposed, Unsettled
  <2>5. [at |-> "save", latest |-> Latest(sync[s].lines)] # Idle
      BY DEF Idle
  <2> QED BY <1>2, <1>3, <1>10, <2>1, <2>2, <2>3, <2>4, <2>5
<1>13. CASE ReadMarker(s)
  <2> DEFINE lines == sync[s].lines  new == Newer(lines, marker)
             c == [at |-> "feed", todo |-> new, latest |-> Latest(lines)]
  <2>1. sync[s].at = "marker" /\ UNCHANGED <<marker, fed, faults, overlaps>>
      BY <1>13 DEF ReadMarker
  <2>2. F1 = F /\ B1 = B /\ Exposed(e)' = Exposed(e) /\ s \in Threats(e)
      BY <1>6, <1>8, <2>1 DEF F, F1, B, B1, Budget, Exposed
  <2>3. Exposed(e) => Unsettled(e)
      BY DEF Unsettled
  <2>4. CASE Goto(s, Idle)
    <3>1. N1 + 1 <= N
        BY <1>5, <2>2, <2>4 DEF Idle
    <3> QED BY <1>2, <1>3, <1>9, <2>2, <2>3, <3>1
  <2>5. CASE /\ Goto(s, c) /\ Lines(new) = {f \in Lines(lines) : f.ts > marker}
             /\ marker < Latest(lines)
    <3>1. c # Idle /\ c.at = "feed" /\ c.todo = new /\ c.latest = Latest(lines)
        BY DEF Idle
    <3> HIDE DEF c
    <3>2. CASE Exposed(e)
      <4>1. N1 <= N
          BY <1>5, <2>2, <2>5
      <4> QED BY <1>2, <1>3, <1>10, <2>2, <2>3, <2>5, <3>1, <3>2, <4>1
    <3>3. CASE ~Exposed(e)
      <4>1. e.ts <= marker
          BY <1>1, <3>3 DEF Exposed
      <4>2. e \notin Lines(new) /\ ~(Latest(lines) < e.ts)
        <5>1. Latest(lines) \in Nat
          <6>1. lines \in Seq(Entries) /\ lines # <<>>
              BY <2>1, SyncerAt
          <6>2. \A f \in Entries : f.ts \in Nat
              BY DEF Entries
          <6>3. Lines(lines) \subseteq Entries
            <7>1. \A i \in DOMAIN lines : lines[i] \in Entries
                BY <6>1, LenProperties
            <7> QED BY <7>1 DEF Lines
          <6> QED BY <6>1, <6>2, <6>3, LatestIsLast
        <5> HIDE DEF lines, new
        <5> QED BY <1>1, <2>5, <4>1, <5>1
      <4>3. s \notin Threats(e)'
          BY <1>5, <2>5, <3>1, <4>2
      <4>4. N1 + 1 <= N
          BY <1>5, <2>2, <2>5, <4>3
      <4> QED BY <1>2, <1>3, <1>10, <2>2, <2>5, <3>1, <4>4
    <3> QED BY <3>2, <3>3
  <2> QED BY <1>13, <2>4, <2>5, NewLines
<1>14. CASE Feed(s)
  <2> DEFINE f == Head(sync[s].todo)  rest == Tail(sync[s].todo)
  <2>1. sync[s].at = "feed" /\ UNCHANGED <<marker, overlaps>> /\ Unsettled(e)
      BY <1>7, <1>14 DEF Feed
  <2>2. /\ sync[s].todo \in Seq(Entries) /\ sync[s].todo # <<>> /\ Lines(sync[s].todo) \subseteq said
        /\ sync[s].latest \in Nat /\ Distinct(sync[s].todo)
        /\ \A g \in Lines(sync[s].todo) : g.ts <= sync[s].latest
      BY <2>1, SyncerAt DEF OneLineEach, SyncsInv
  <2>3. /\ f \in Lines(sync[s].todo) /\ Lines(rest) \subseteq Lines(sync[s].todo)
        /\ \A g \in Lines(rest) : g.id # f.id
      BY <2>2, LinesOfTail
  <2>4. \E c : /\ Goto(s, c) /\ c # Idle
               /\ \/ c.at = "feed" /\ c.todo = rest /\ c.latest = sync[s].latest
                  \/ c.at = "save" /\ c.latest = sync[s].latest
    <3>1. CASE rest = <<>>
      <4> DEFINE c == [at |-> "save", latest |-> sync[s].latest]
      <4>1. Goto(s, c)
          BY <1>14, <3>1 DEF Feed
      <4>2. c # Idle /\ c.at = "save" /\ c.latest = sync[s].latest
          BY DEF Idle
      <4> HIDE DEF c
      <4> QED BY <4>1, <4>2
    <3>2. CASE rest # <<>>
      <4> DEFINE c == [at |-> "feed", todo |-> rest, latest |-> sync[s].latest]
      <4>1. Goto(s, c)
          BY <1>14, <3>2 DEF Feed
      <4>2. c # Idle /\ c.at = "feed" /\ c.todo = rest /\ c.latest = sync[s].latest
          BY DEF Idle
      <4> HIDE DEF c
      <4> QED BY <4>1, <4>2
    <3> QED BY <3>1, <3>2
  <2>5. PICK c : /\ Goto(s, c) /\ c # Idle
                 /\ \/ c.at = "feed" /\ c.todo = rest /\ c.latest = sync[s].latest
                    \/ c.at = "save" /\ c.latest = sync[s].latest
      BY <2>4
  <2> HIDE DEF f, rest
  <2>6. s \in Threats(e)' => s \in Threats(e)
      BY <1>5, <1>6, <2>1, <2>3, <2>5
  <2>7. N1 <= N
      BY <1>5, <2>5, <2>6
  <2>8. CASE fed' = FedOnceMore(f.id) /\ UNCHANGED faults
    <3>1. B1 = B
        BY <1>8, <2>1, <2>8 DEF B, B1, Budget
    <3>2. /\ fed \in [Ids -> 0 .. MaxFed] /\ e.id \in Ids /\ MaxFed \in Nat
        BY <1>1, FeedAssumption DEF FeedInv, FeedTypes, Entries
    <3>3. CASE f = e
      <4>1. F1 \in Nat /\ F1 <= F + 1
        <5>1. F1 = IF F < MaxFed THEN F + 1 ELSE F
            BY <2>8, <3>2, <3>3 DEF F, F1, FedOnceMore
        <5> QED BY <1>2, <5>1
      <4>2. s \in Threats(e) /\ s \notin Threats(e)'
        <5>1. e \in Lines(sync[s].todo) /\ e \notin Lines(rest) /\ ~(sync[s].latest < e.ts)
            BY <1>1, <2>2, <2>3, <3>3
        <5> QED BY <1>5, <1>6, <2>1, <2>5, <5>1
      <4>3. N1 + 1 <= N
          BY <1>5, <2>5, <4>2
      <4>4. F1 + N1 <= B1
          BY <1>2, <1>3, <2>1, <3>1, <4>1, <4>3
      <4> QED BY <1>2, <1>10, <2>5, <3>1, <4>1, <4>4
    <3>4. CASE f # e
      <4>1. f.id # e.id
          BY <2>2, <2>3, <3>4 DEF OneLineEach
      <4>2. F1 = F
          BY <2>8, <3>2, <4>1 DEF F, F1, FedOnceMore
      <4>3. F1 + N1 <= B1
          BY <1>2, <1>3, <2>1, <2>7, <3>1, <4>2
      <4> QED BY <1>2, <1>10, <2>5, <3>1, <4>2, <4>3
    <3> QED BY <3>3, <3>4
  <2>9. CASE UNCHANGED fed /\ (UNCHANGED faults \/ faults' = faults + 1)
    <3>1. B1 = B \/ B1 = B + 1
      <4>1. crashes \in Nat /\ faults \in Nat /\ overlaps \in Nat
          BY FeedAssumption DEF FeedInv, FeedTypes
      <4> QED BY <1>8, <2>1, <2>9, <4>1 DEF B, B1, Budget
    <3>2. F1 = F
        BY <2>9 DEF F, F1
    <3>3. F1 + N1 <= B1
        BY <1>2, <1>3, <2>1, <2>7, <3>1, <3>2
    <3> QED BY <1>2, <1>10, <2>5, <3>1, <3>2, <3>3
  <2> QED BY <1>14, <2>8, <2>9 DEF Feed, f
<1>15. CASE FeedRaises(s)
  <2>1. sync[s].at = "feed" /\ Head(sync[s].todo).kind = "malformed"
      BY <1>15 DEF FeedRaises
  <2>2. Head(sync[s].todo) \in said
    <3>1. sync[s].todo \in Seq(Entries) /\ sync[s].todo # <<>> /\ Lines(sync[s].todo) \subseteq said
        BY <2>1, SyncerAt
    <3> QED BY <3>1, LinesOfTail
  <2> QED BY <2>1, <2>2 DEF Readable
<1>16. CASE EmptyMarker(s)
  <2> DEFINE c == [at |-> "put", latest |-> sync[s].latest]
  <2>1. /\ sync[s].at = "save" /\ UNCHANGED <<fed, faults, overlaps>> /\ Goto(s, c)
      BY <1>16 DEF EmptyMarker
  <2>2. c # Idle /\ c.at = "put" /\ c.latest = sync[s].latest
      BY DEF Idle
  <2> HIDE DEF c
  <2>3. F1 = F /\ B1 = B /\ Unsettled(e)
      BY <1>7, <1>8, <2>1 DEF F, F1, B, B1, Budget
  <2>4. N1 <= N
      BY <1>5, <1>6, <2>1, <2>2
  <2> QED BY <1>2, <1>3, <1>10, <2>1, <2>2, <2>3, <2>4
<1>17. CASE PutMarker(s)
  <2>1. /\ sync[s].at = "put" /\ marker' = sync[s].latest /\ UNCHANGED <<fed, faults, overlaps>>
        /\ Goto(s, Idle)
      BY <1>17 DEF PutMarker
  <2>2. F1 = F /\ B1 = B /\ Unsettled(e)
      BY <1>7, <1>8, <2>1 DEF F, F1, B, B1, Budget
  <2>3. s \notin Threats(e)' /\ N1 <= N
      BY <1>5, <2>1 DEF Idle
  <2>4. ASSUME Exposed(e)' PROVE N1 + 1 <= N
    <3>1. sync[s].latest < e.ts
        BY <2>1, <2>4 DEF Exposed
    <3> QED BY <1>5, <1>6, <2>1, <2>3, <3>1
  <2> QED BY <1>2, <1>3, <1>9, <2>2, <2>3, <2>4
<1>18. CASE MarkerFails(s)
  <2>1. /\ sync[s].at \in {"save", "put"} /\ faults' = faults + 1 /\ UNCHANGED <<marker, fed, overlaps>>
        /\ Goto(s, Idle)
      BY <1>18 DEF MarkerFails
  <2>2. B1 = B + 1
    <3>1. crashes \in Nat /\ faults \in Nat /\ overlaps \in Nat
        BY FeedAssumption DEF FeedInv, FeedTypes
    <3> QED BY <1>8, <2>1, <3>1 DEF B, B1, Budget
  <2>3. F1 = F /\ Unsettled(e)
      BY <1>7, <2>1 DEF F, F1
  <2>4. N1 <= N
      BY <1>5, <2>1 DEF Idle
  <2> QED BY <1>2, <1>3, <1>9, <2>2, <2>3, <2>4
<1> QED BY <1>11, <1>12, <1>13, <1>14, <1>15, <1>16, <1>17, <1>18 DEF SyncStep

(* Of a decision just saved nothing was fed; the syncs under way number    *)
(* one and the overlaps at most.                                           *)
LEMMA SavedOnce ==
    ASSUME FeedInv, FeedInv', SyncsInv, OneLineEach, NEW o \in Oracles, SaveDecision(o),
           NEW e \in said', e \notin said
    PROVE  OnceFor(e)'
<1>1. /\ UNCHANGED <<marker, sync, fed, faults, crashes, overlaps>> /\ pen[o] # Idle /\ e = pen[o]
    BY DEF SaveDecision, feedVars
<1>2. /\ e.id \in Ids /\ fed[e.id] = 0
  <2>1. e \in Entries
      BY <1>1 DEF FeedInv, LogInv, LogTypes
  <2>2. e.id \in Ids
      BY <2>1 DEF Entries
  <2>3. \A f \in said : f.id # e.id
      BY <1>1 DEF OneLineEach
  <2> QED BY <2>2, <2>3 DEF SyncsInv
<1>3. Threats(e)' = Threats(e) /\ InFlight' = InFlight /\ fed'[e.id] = 0 /\ Budget' = Budget
    BY <1>1, <1>2 DEF Threats, Threatens, Lines, InFlight, Budget
<1>4. /\ Count(InFlight) \in Nat /\ Count(Threats(e)) \in Nat /\ Count(Threats(e)) <= Count(InFlight)
  <2>1. Threats(e) \subseteq InFlight /\ InFlight \subseteq Syncers
      BY DEF Threats, Threatens, InFlight, Idle
  <2>2. IsFiniteSet(InFlight) /\ IsFiniteSet(Threats(e))
      BY <2>1, FS_Subset, FeedAssumption
  <2> QED BY <2>1, <2>2, FS_Subset, FS_CardinalityType DEF Count
<1>5. Count(Threats(e)) <= Budget /\ Budget \in Nat /\ Budget >= 1
  <2>1. crashes \in Nat /\ faults \in Nat /\ overlaps \in Nat
      BY FeedAssumption DEF FeedInv, FeedTypes
  <2> QED BY <1>4, <2>1 DEF SyncsInv, Budget
<1>6. 0 + Count(Threats(e)) <= Budget + 1 /\ 0 + Count(Threats(e)) <= Budget /\ 0 <= Budget /\ 0 + 1 <= Budget
    BY <1>4, <1>5
<1> QED BY <1>3, <1>6 DEF OnceFor, Count

Once == Readable /\ ~mixed => \A e \in said : OnceFor(e)

LEMMA StepOnce ==
    ASSUME FeedInv, FeedInv', SyncsInv, ~mixed => OneLineEach, Once, [Next]_vars
    PROVE  Once'
<1>1. said \subseteq said' /\ (~mixed' => ~mixed)
  <2>1. said' = said \/ \E o \in Oracles : said' = said \cup {pen[o]}
      BY DEF Next, Decide, SaveDecision, ReadForFeedback, RewriteStep, TruncateLog, WriteLog, WriteLogFails,
             SyncStep, ReadLog, NoMarker, ReadMarker, Feed, FeedRaises, EmptyMarker, PutMarker, MarkerFails,
             Crash, Tick, vars, logVars, rateVars, feedVars
  <2>2. ~mixed' => ~mixed
      BY DEF Next, Decide, SaveDecision, ReadForFeedback, RewriteStep, TruncateLog, WriteLog, WriteLogFails,
             SyncStep, ReadLog, NoMarker, ReadMarker, Feed, FeedRaises, EmptyMarker, PutMarker, MarkerFails,
             Crash, Tick, vars, logVars, rateVars, feedVars
  <2> QED BY <2>1, <2>2
<1> SUFFICES ASSUME Readable', ~mixed', NEW e \in said' PROVE OnceFor(e)'
    BY DEF Once
<1>2. Readable /\ OneLineEach /\ (e \in said => OnceFor(e))
    BY <1>1 DEF Readable, Once
<1>3. crashes \in Nat /\ faults \in Nat /\ overlaps \in Nat
    BY FeedAssumption DEF FeedInv, FeedTypes
<1>4. e \in said => Count(Threats(e)) \in Nat /\ fed[e.id] \in Nat
  <2> SUFFICES ASSUME e \in said PROVE Count(Threats(e)) \in Nat /\ fed[e.id] \in Nat
      OBVIOUS
  <2>1. Threats(e) \in SUBSET Syncers /\ fed[e.id] \in Nat
      BY OnceTypes
  <2>2. IsFiniteSet(Threats(e))
      BY <2>1, FS_Subset, FeedAssumption
  <2> QED BY <2>1, <2>2, FS_CardinalityType DEF Count
<1>5. ASSUME UNCHANGED <<marker, sync, fed, crashes, overlaps>>, faults' = faults \/ faults' = faults + 1,
             e \in said
      PROVE  OnceFor(e)'
  <2>1. Threats(e)' = Threats(e) /\ InFlight' = InFlight
      BY <1>5 DEF Threats, Threatens, Lines, InFlight
  <2>2. Budget' = Budget \/ Budget' = Budget + 1
      BY <1>3, <1>5 DEF Budget
  <2>3. fed'[e.id] = fed[e.id] /\ \A s \in InFlight' : sync'[s] = sync[s]
      BY <1>5
  <2>4. fed'[e.id] + Count(Threats(e)') <= fed[e.id] + Count(Threats(e))
      BY <1>4, <1>5, <2>1, <2>3
  <2> QED BY <1>2, <1>5, <2>1, <2>2, <2>3, <2>4, OnceKept
<1>6. ASSUME NEW s \in Syncers, SyncStep(s) PROVE OnceFor(e)'
  <2>1. UNCHANGED said
      BY <1>6, SyncKeeps
  <2> QED BY <1>2, <1>6, <2>1, SyncOnce
<1>7. ASSUME NEW o \in Oracles, SaveDecision(o) PROVE OnceFor(e)'
  <2>1. CASE e \in said
    <3>1. UNCHANGED <<marker, sync, fed, crashes, overlaps, faults>>
        BY <1>7 DEF SaveDecision, feedVars
    <3> QED BY <1>5, <2>1, <3>1
  <2>2. CASE e \notin said
      BY <1>2, <1>7, <2>2, SavedOnce
  <2> QED BY <2>1, <2>2
<1>8. ASSUME NEW p \in Processes, Crash(p) PROVE OnceFor(e)'
  <2>1. /\ UNCHANGED <<said, marker, fed, overlaps, faults>> /\ crashes' = crashes + 1
        /\ \A s \in Syncers : sync'[s] = Idle \/ sync'[s] = sync[s]
      BY <1>8 DEF Crash
  <2>2. Budget' = Budget + 1
      BY <1>3, <2>1 DEF Budget
  <2>3. /\ InFlight' \subseteq InFlight /\ \A s \in InFlight' : sync'[s] = sync[s]
      BY <2>1 DEF InFlight
  <2>4. Threats(e)' \subseteq Threats(e) /\ Threats(e) \subseteq Syncers
      BY <2>1 DEF Threats, Threatens, Idle, Lines
  <2>5. Count(Threats(e)') <= Count(Threats(e)) /\ Count(Threats(e)') \in Nat
    <3>1. IsFiniteSet(Threats(e)) /\ IsFiniteSet(Threats(e)')
        BY <2>4, FS_Subset, FeedAssumption
    <3> QED BY <2>4, <3>1, FS_Subset, FS_CardinalityType DEF Count
  <2>6. fed'[e.id] + Count(Threats(e)') <= fed[e.id] + Count(Threats(e))
      BY <1>4, <2>1, <2>5
  <2> QED BY <1>2, <2>1, <2>2, <2>3, <2>6, OnceKept
<1>9. ASSUME UNCHANGED <<marker, sync, fed, crashes, overlaps, said>>, faults' = faults \/ faults' = faults + 1
      PROVE  OnceFor(e)'
    BY <1>5, <1>9
<1> QED BY <1>6, <1>7, <1>8, <1>9 DEF Next, RewriteStep, Decide, ReadForFeedback, TruncateLog,
        WriteLog, WriteLogFails, Tick, vars, logVars, rateVars, feedVars

LEMMA OnceInvariance == Spec => [](FeedInv /\ SyncsInv /\ (~mixed => OneLineEach) /\ Once)
<1> DEFINE Inv == FeedInv /\ SyncsInv /\ (~mixed => OneLineEach) /\ Once
<1>1. Init => Inv
  <2> SUFFICES ASSUME Init PROVE Inv
      OBVIOUS
  <2>1. InFlight = {} /\ Count(InFlight) = 0 /\ overlaps = 0
      BY FS_EmptySet DEF Init, InFlight, Count
  <2>2. SyncsInv
      BY <2>1 DEF Init, SyncsInv, Idle
  <2>3. Once
      BY DEF Init, Once
  <2> QED BY <2>2, <2>3, InitFeed, InitOneLine
<1>2. Inv /\ [Next]_vars => Inv'
  <2> SUFFICES ASSUME Inv, [Next]_vars PROVE Inv'
      OBVIOUS
  <2>1. FeedInv'
      BY StepFeed
  <2>2. SyncsInv'
      BY StepSyncs
  <2>3. ~mixed' => ~mixed
      BY DEF Next, Decide, SaveDecision, ReadForFeedback, RewriteStep, TruncateLog, WriteLog, WriteLogFails,
           SyncStep, ReadLog, NoMarker, ReadMarker, Feed, FeedRaises, EmptyMarker, PutMarker, MarkerFails,
           Crash, Tick, vars, logVars, rateVars, feedVars
  <2>4. ~mixed' => OneLineEach'
      BY <2>3, StepOneLine
  <2>5. Once'
      BY <2>1, StepOnce
  <2> QED BY <2>1, <2>2, <2>4, <2>5
<1> HIDE DEF Inv
<1>3. Spec => []Inv
    BY <1>1, <1>2, PTL DEF Spec
<1> QED BY <1>3 DEF Inv

(* A decision reaches the memory and Telegram once, and once more at most  *)
(* for each process that dies, each write or feed that fails and each sync *)
(* that began while another was under way (dashboard_api.py:591-622), for  *)
(* any number of oracles, raters and syncers, as long as every line of the *)
(* log can be fed and no two feedbacks ran at once.                        *)
THEOREM FedOncePerDecision == Spec => []OnceWhileReadable
<1>1. ASSUME FeedInv, SyncsInv, Once PROVE OnceWhileReadable
  <2> SUFFICES ASSUME Readable, ~mixed, NEW d \in Ids PROVE fed[d] <= Budget
      BY DEF OnceWhileReadable, OncePerDecision, Budget
  <2>1. CASE fed[d] = 0
    <3>1. crashes \in Nat /\ faults \in Nat /\ overlaps \in Nat
        BY <1>1, FeedAssumption DEF FeedInv, FeedTypes
    <3> QED BY <2>1, <3>1 DEF Budget
  <2>2. CASE fed[d] # 0
    <3>1. PICK e \in said : e.id = d
        BY <1>1, <2>2 DEF SyncsInv
    <3>2. /\ fed[e.id] + Count(Threats(e)) <= Budget + 1
          /\ Unsettled(e) => fed[e.id] + Count(Threats(e)) <= Budget
          /\ InFlight = {} => fed[e.id] <= Budget
        BY <1>1 DEF Once, OnceFor
    <3>3. /\ fed[e.id] \in Nat /\ Budget \in Nat /\ Threats(e) \in SUBSET Syncers /\ InFlight \in SUBSET Syncers
        BY <1>1, OnceTypes
    <3>4. IsFiniteSet(Threats(e)) /\ Count(Threats(e)) \in Nat
      <4>1. IsFiniteSet(Threats(e))
          BY <3>3, FS_Subset, FeedAssumption
      <4> QED BY <4>1, FS_CardinalityType DEF Count
    <3>5. CASE InFlight = {}
        BY <3>1, <3>2, <3>5
    <3>6. CASE \E s \in InFlight : sync[s].at # "marker"
        BY <3>1, <3>2, <3>3, <3>4, <3>6 DEF Unsettled
    <3>7. CASE \E s \in InFlight : sync[s].at = "marker"
      <4>1. PICK s \in Syncers : s \in Threats(e)
          BY <3>3, <3>7 DEF Threats, Threatens
      <4>2. Count(Threats(e)) # 0
          BY <3>4, <4>1, FS_EmptySet DEF Count
      <4> QED BY <3>1, <3>2, <3>3, <3>4, <4>2
    <3> QED BY <3>3, <3>5, <3>6, <3>7
  <2> QED BY <2>1, <2>2
<1> QED BY <1>1, OnceInvariance, PTL

--------------------------------------------------------------------------------
(* No decision is passed over, but those that are forgone: a usable one    *)
(* that was not fed is still ahead of the marker and of whatever a sync    *)
(* will set it to, or in the hands of that sync.                           *)
Ahead(e) ==
    /\ marker < e.ts
    /\ \A s \in Syncers :
         /\ sync[s].at = "marker" => e \in Lines(sync[s].lines) \/ Latest(sync[s].lines) < e.ts
         /\ sync[s].at = "feed" => e \in Lines(sync[s].todo) \/ sync[s].latest < e.ts
         /\ sync[s].at \in {"save", "put"} => sync[s].latest < e.ts

Waiting(e) == e.kind = "usable" /\ fed[e.id] = 0 /\ e.id \notin forgone
SkipInv == \A e \in said : Waiting(e) => Ahead(e)

LEMMA WaitsOn ==
    ASSUME FeedInv, [Next]_vars, NEW e \in said, Waiting(e)'
    PROVE  Waiting(e)
<1>1. forgone \subseteq forgone'
    BY DEF Next, Decide, SaveDecision, ReadForFeedback, RewriteStep, TruncateLog, WriteLog, WriteLogFails,
           SyncStep, ReadLog, NoMarker, ReadMarker, Feed, FeedRaises, EmptyMarker, PutMarker, MarkerFails,
           Crash, Tick, vars, logVars, rateVars, feedVars
<1>2. e.id \in Ids /\ fed \in [Ids -> 0 .. MaxFed] /\ MaxFed \in Nat
    BY OnceTypes, FeedAssumption DEF FeedInv, FeedTypes
<1>3. UNCHANGED fed \/ \E s \in Syncers : fed' = FedOnceMore(Head(sync[s].todo).id)
    BY DEF Next, Decide, SaveDecision, ReadForFeedback, RewriteStep, TruncateLog, WriteLog, WriteLogFails,
           SyncStep, ReadLog, NoMarker, ReadMarker, Feed, FeedRaises, EmptyMarker, PutMarker, MarkerFails,
           Crash, Tick, vars, logVars, rateVars, feedVars
<1>4. fed[e.id] = 0
  <2>1. ASSUME NEW d, fed' = FedOnceMore(d) PROVE fed[e.id] = 0
    <3>1. fed'[e.id] = IF d = e.id THEN (IF fed[e.id] < MaxFed THEN fed[e.id] + 1 ELSE fed[e.id]) ELSE fed[e.id]
        BY <1>2, <2>1 DEF FedOnceMore
    <3> QED BY <1>2, <3>1 DEF Waiting
  <2> QED BY <1>3, <2>1 DEF Waiting
<1> QED BY <1>1, <1>4 DEF Waiting

LEMMA SyncAhead ==
    ASSUME FeedInv, FeedInv', NEW e \in said, Waiting(e)', Ahead(e), NEW s \in Syncers, SyncStep(s)
    PROVE  Ahead(e)'
<1>1. /\ marker < e.ts /\ e.ts \in Nat /\ e.ts >= 1 /\ marker \in Int /\ e \in Entries /\ e.id \in Ids
    BY OnceTypes DEF Ahead
<1>2. ASSUME NEW c, Goto(s, c), marker' < e.ts,
             c.at = "marker" => e \in Lines(c.lines) \/ Latest(c.lines) < e.ts,
             c.at = "feed" => e \in Lines(c.todo) \/ c.latest < e.ts,
             c.at \in {"save", "put"} => c.latest < e.ts
      PROVE  Ahead(e)'
  <2>1. sync'[s] = c /\ \A q \in Syncers : q # s => sync'[q] = sync[q]
      BY <1>2, OneSyncGoes
  <2>2. ASSUME NEW q \in Syncers
        PROVE  /\ sync'[q].at = "marker" => e \in Lines(sync'[q].lines) \/ Latest(sync'[q].lines) < e.ts
               /\ sync'[q].at = "feed" => e \in Lines(sync'[q].todo) \/ sync'[q].latest < e.ts
               /\ sync'[q].at \in {"save", "put"} => sync'[q].latest < e.ts
    <3>1. CASE q = s
        BY <1>2, <2>1, <3>1
    <3>2. CASE q # s
        BY <2>1, <3>2 DEF Ahead
    <3> QED BY <3>1, <3>2
  <2> QED BY <1>2, <2>2 DEF Ahead, Lines, Latest
<1>3. CASE ReadLog(s)
  <2>1. UNCHANGED marker
      BY <1>3 DEF ReadLog
  <2>2. CASE UNCHANGED sync
      BY <2>1, <2>2 DEF Ahead, Lines, Latest
  <2>3. CASE Goto(s, [at |-> "marker", lines |-> file]) /\ forgone' = forgone \cup IdsOf(said \ Lines(file))
    <3>1. e \in Lines(file)
        BY <2>3 DEF Waiting, IdsOf
    <3> QED BY <1>1, <1>2, <2>1, <2>3, <3>1
  <2> QED BY <1>3, <2>2, <2>3 DEF ReadLog
<1>4. CASE NoMarker(s)
  <2>1. /\ sync[s].at = "marker" /\ UNCHANGED marker
        /\ Goto(s, [at |-> "save", latest |-> Latest(sync[s].lines)])
        /\ forgone' = forgone \cup IdsOf(Lines(sync[s].lines))
      BY <1>4 DEF NoMarker
  <2>2. e \notin Lines(sync[s].lines)
      BY <2>1 DEF Waiting, IdsOf
  <2>3. Latest(sync[s].lines) < e.ts
      BY <2>1, <2>2 DEF Ahead
  <2> QED BY <1>1, <1>2, <2>1, <2>3
<1>5. CASE ReadMarker(s)
  <2> DEFINE lines == sync[s].lines  new == Newer(lines, marker)
             c == [at |-> "feed", todo |-> new, latest |-> Latest(lines)]
  <2>1. sync[s].at = "marker" /\ UNCHANGED marker
      BY <1>5 DEF ReadMarker
  <2>2. CASE Goto(s, Idle)
      BY <1>1, <1>2, <2>1, <2>2 DEF Idle
  <2>3. CASE Goto(s, c) /\ Lines(new) = {f \in Lines(lines) : f.ts > marker}
    <3>1. c.at = "feed" /\ c.todo = new /\ c.latest = Latest(lines)
        OBVIOUS
    <3>2. e \in Lines(new) \/ Latest(lines) < e.ts
        BY <1>1, <2>1, <2>3 DEF Ahead
    <3> HIDE DEF c
    <3> QED BY <1>1, <1>2, <2>1, <2>3, <3>1, <3>2
  <2> QED BY <1>5, <2>2, <2>3, NewLines
<1>6. CASE Feed(s)
  <2> DEFINE f == Head(sync[s].todo)  rest == Tail(sync[s].todo)
  <2>1. sync[s].at = "feed" /\ f.kind # "malformed" /\ UNCHANGED marker
      BY <1>6 DEF Feed
  <2>2. Lines(sync[s].todo) = {f} \cup Lines(rest)
      BY <2>1, SyncerAt, LinesOfTail
  <2>3. f # e
    <3>1. f.kind = "usable" => fed' = FedOnceMore(f.id) \/ f.id \in forgone'
        BY <1>6 DEF Feed
    <3>2. fed' = FedOnceMore(e.id) => fed'[e.id] # 0
      <4>1. fed \in [Ids -> 0 .. MaxFed] /\ MaxFed \in Nat /\ MaxFed # 0
          BY FeedAssumption DEF FeedInv, FeedTypes
      <4> QED BY <1>1, <4>1 DEF FedOnceMore
    <3> QED BY <3>1, <3>2 DEF Waiting
  <2>4. e \in Lines(rest) \/ sync[s].latest < e.ts
      BY <2>1, <2>2, <2>3 DEF Ahead
  <2>5. CASE rest = <<>>
    <3>1. Goto(s, [at |-> "save", latest |-> sync[s].latest])
        BY <1>6, <2>5 DEF Feed
    <3>2. Lines(rest) = {}
        BY <2>5, EmptySeq DEF Lines
    <3> QED BY <1>1, <1>2, <2>1, <2>4, <3>1, <3>2
  <2>6. CASE rest # <<>>
    <3> DEFINE c == [at |-> "feed", todo |-> rest, latest |-> sync[s].latest]
    <3>1. Goto(s, c) /\ c.at = "feed" /\ c.todo = rest /\ c.latest = sync[s].latest
        BY <1>6, <2>6 DEF Feed
    <3> HIDE DEF c
    <3> QED BY <1>1, <1>2, <2>1, <2>4, <3>1
  <2> QED BY <2>5, <2>6
<1>7. CASE FeedRaises(s) \/ MarkerFails(s)
  <2>1. Goto(s, Idle) /\ UNCHANGED marker
      BY <1>7 DEF FeedRaises, MarkerFails
  <2> QED BY <1>1, <1>2, <2>1 DEF Idle
<1>8. CASE EmptyMarker(s)
  <2>1. sync[s].at = "save" /\ marker' = 0 /\ Goto(s, [at |-> "put", latest |-> sync[s].latest])
      BY <1>8 DEF EmptyMarker
  <2>2. sync[s].latest < e.ts
      BY <2>1 DEF Ahead
  <2> QED BY <1>1, <1>2, <2>1, <2>2
<1>9. CASE PutMarker(s)
  <2>1. sync[s].at = "put" /\ marker' = sync[s].latest /\ Goto(s, Idle)
      BY <1>9 DEF PutMarker
  <2>2. sync[s].latest < e.ts
      BY <2>1 DEF Ahead
  <2> QED BY <1>2, <2>1, <2>2 DEF Idle
<1> QED BY <1>3, <1>4, <1>5, <1>6, <1>7, <1>8, <1>9 DEF SyncStep

(* A decision is saved ahead of every sync, or it is forgone.              *)
LEMMA SavedAhead ==
    ASSUME FeedInv, FeedInv', NEW o \in Oracles, SaveDecision(o), NEW e \in said', e \notin said, Waiting(e)'
    PROVE  Ahead(e)'
<1>1. /\ UNCHANGED <<marker, sync>> /\ e = pen[o] /\ pen[o] # Idle
      /\ forgone' = IF marker >= pen[o].ts \/ \E s \in InFlight : LatestRead(s) >= pen[o].ts
                    THEN forgone \cup {pen[o].id} ELSE forgone
    BY DEF SaveDecision, feedVars
<1>2. ~(marker >= e.ts) /\ \A s \in InFlight : ~(LatestRead(s) >= e.ts)
    BY <1>1 DEF Waiting
<1>3. e.ts \in Nat /\ marker \in Int
  <2>1. e \in Entries
      BY <1>1 DEF FeedInv, LogInv, LogTypes
  <2>2. e.ts \in Nat
      BY <2>1 DEF Entries
  <2>3. marker \in Int
      BY DEF FeedInv, FeedTypes, LogInv, LogTypes, Missing
  <2> QED BY <2>2, <2>3
<1>4. ASSUME NEW s \in Syncers
      PROVE  /\ sync[s].at = "marker" => Latest(sync[s].lines) < e.ts
             /\ sync[s].at \in {"feed", "save", "put"} => sync[s].latest < e.ts
  <2>1. ASSUME sync[s].at = "marker" PROVE Latest(sync[s].lines) < e.ts
    <3>1. s \in InFlight /\ LatestRead(s) = Latest(sync[s].lines)
        BY <2>1 DEF InFlight, Idle, LatestRead
    <3>2. Latest(sync[s].lines) \in Nat
      <4>1. sync[s].lines \in Seq(Entries) /\ sync[s].lines # <<>>
            /\ \A f \in Lines(sync[s].lines) : f.ts \in Nat
        <5>1. said \subseteq Entries /\ \A f \in Entries : f.ts \in Nat
            BY DEF FeedInv, Past, Entries
        <5>2. sync[s].lines \in Seq(Entries) /\ sync[s].lines # <<>> /\ Lines(sync[s].lines) \subseteq said
            BY <2>1, SyncerAt
        <5> QED BY <5>1, <5>2
      <4> QED BY <4>1, LatestIsLast
    <3> QED BY <1>2, <1>3, <3>1, <3>2
  <2>2. ASSUME sync[s].at \in {"feed", "save", "put"} PROVE sync[s].latest < e.ts
    <3>1. s \in InFlight /\ LatestRead(s) = sync[s].latest /\ sync[s].latest \in Nat
        BY <2>2, SyncerAt DEF InFlight, Idle, LatestRead
    <3> QED BY <1>2, <1>3, <3>1
  <2> QED BY <2>1, <2>2
<1>5. marker < e.ts
    BY <1>2, <1>3
<1>6. Ahead(e)
    BY <1>4, <1>5 DEF Ahead
<1> QED BY <1>1, <1>6 DEF Ahead, Lines, Latest

LEMMA StepSkip ==
    ASSUME FeedInv, FeedInv', SkipInv, [Next]_vars
    PROVE  SkipInv'
<1> SUFFICES ASSUME NEW e \in said', Waiting(e)' PROVE Ahead(e)'
    BY DEF SkipInv
<1>1. e \in said => Ahead(e)
    BY WaitsOn DEF SkipInv
<1>2. ASSUME UNCHANGED <<marker, sync>>, e \in said PROVE Ahead(e)'
    BY <1>1, <1>2 DEF Ahead, Lines, Latest
<1>3. ASSUME UNCHANGED <<marker, sync, said>> PROVE Ahead(e)'
    BY <1>2, <1>3
<1>4. ASSUME NEW s \in Syncers, SyncStep(s) PROVE Ahead(e)'
  <2>1. e \in said
      BY <1>4, SyncKeeps
  <2> QED BY <1>1, <1>4, <2>1, SyncAhead
<1>5. ASSUME NEW o \in Oracles, SaveDecision(o) PROVE Ahead(e)'
  <2>1. UNCHANGED <<marker, sync>>
      BY <1>5 DEF SaveDecision, feedVars
  <2> QED BY <1>2, <1>5, <2>1, SavedAhead
<1>6. ASSUME NEW p \in Processes, Crash(p) PROVE Ahead(e)'
  <2>1. /\ UNCHANGED <<said, marker>> /\ \A s \in Syncers : sync'[s] = Idle \/ sync'[s] = sync[s]
      BY <1>6 DEF Crash
  <2>2. Ahead(e)
      BY <1>1, <2>1
  <2>3. ASSUME NEW s \in Syncers
        PROVE  /\ sync'[s].at = "marker" => e \in Lines(sync'[s].lines) \/ Latest(sync'[s].lines) < e.ts
               /\ sync'[s].at = "feed" => e \in Lines(sync'[s].todo) \/ sync'[s].latest < e.ts
               /\ sync'[s].at \in {"save", "put"} => sync'[s].latest < e.ts
    <3>1. CASE sync'[s] = Idle
        BY <3>1 DEF Idle
    <3>2. CASE sync'[s] = sync[s]
        BY <2>2, <3>2 DEF Ahead
    <3> QED BY <2>1, <3>1, <3>2
  <2>4. marker' < e.ts
      BY <2>1, <2>2 DEF Ahead
  <2> QED BY <2>3, <2>4 DEF Ahead, Lines, Latest
<1> QED BY <1>3, <1>4, <1>5, <1>6 DEF Next, RewriteStep, Decide, ReadForFeedback, TruncateLog,
        WriteLog, WriteLogFails, Tick, vars, logVars, rateVars, feedVars

(* The marker passes over no usable decision that was not fed, but those   *)
(* that are forgone (dashboard_api.py:610-622): for any number of oracles  *)
(* that save late or in one second, of syncs at once, of rewrites,         *)
(* processes that die and writes that fail.                                *)
THEOREM NoDecisionSkipped == Spec => []NoneSkipped
<1>1. Init => SkipInv
    BY DEF Init, SkipInv
<1>2. FeedInv /\ FeedInv' /\ SkipInv /\ [Next]_vars => SkipInv'
    BY StepSkip
<1>3. FeedInv /\ SkipInv => NoneSkipped
  <2> SUFFICES ASSUME FeedInv, SkipInv, NEW e \in said, e.kind = "usable", e.ts <= marker, fed[e.id] = 0,
                      e.id \notin forgone
               PROVE  FALSE
      BY DEF NoneSkipped
  <2>1. marker < e.ts /\ marker \in Int /\ e.ts \in Nat
      BY OnceTypes DEF SkipInv, Waiting, Ahead
  <2> QED BY <2>1
<1> QED BY <1>1, <1>2, <1>3, FeedInvariance, PTL DEF Spec
================================================================================
