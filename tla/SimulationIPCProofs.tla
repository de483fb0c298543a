-------------------------- MODULE SimulationIPCProofs --------------------------
(***************************************************************************)
(* What holds of SimulationIPC for any number of requests, of runs, of     *)
(* failed writes and of lost handles.                                      *)
(***************************************************************************)
EXTENDS SimulationIPC, SequenceTheorems, TLAPS

--------------------------------------------------------------------------------
(* The directory of commands, as a sequence without repetition.            *)

(* A new file is one more file, behind the others.                         *)
LEMMA AppendFile ==
    ASSUME NEW S, NEW c \in Seq(S), IsInjective(c), NEW r \in S, r \notin ToSet(c)
    PROVE  /\ Append(c, r) \in Seq(S) /\ IsInjective(Append(c, r))
           /\ ToSet(Append(c, r)) = ToSet(c) \cup {r}
<1> DEFINE d == Append(c, r)
<1>1. d \in Seq(S) /\ Len(d) = Len(c) + 1 /\ DOMAIN d = 1 .. Len(c) + 1 /\ DOMAIN c = 1 .. Len(c)
  OBVIOUS
<1>2. Len(c) \in Nat /\ (\A i \in 1 .. Len(c) : d[i] = c[i]) /\ d[Len(c) + 1] = r
  OBVIOUS
<1>3. IsInjective(d)
  <2> SUFFICES ASSUME NEW i \in 1 .. Len(c) + 1, NEW j \in 1 .. Len(c) + 1, d[i] = d[j]
               PROVE  i = j
    BY <1>1 DEF IsInjective
  <2>1. \A k \in 1 .. Len(c) : c[k] \in ToSet(c)
    BY <1>1 DEF ToSet
  <2>2. \A k, l \in 1 .. Len(c) : c[k] = c[l] => k = l
    BY <1>1 DEF IsInjective
  <2> QED
    BY <1>2, <2>1, <2>2
<1>4. ToSet(d) = ToSet(c) \cup {r}
  BY <1>1, <1>2 DEF ToSet
<1> QED
  BY <1>1, <1>3, <1>4

(* Removing a file removes that file, and nothing where it is not there.   *)
LEMMA RemoveFile ==
    ASSUME NEW S, NEW c \in Seq(S), IsInjective(c), NEW r
    PROVE  /\ RemoveFirst(c, r) \in Seq(S) /\ IsInjective(RemoveFirst(c, r))
           /\ ToSet(RemoveFirst(c, r)) = ToSet(c) \ {r}
<1>0. DOMAIN c = 1 .. Len(c) /\ Len(c) \in Nat
  OBVIOUS
<1>1. CASE ~ \E i \in 1 .. Len(c) : c[i] = r
  <2>1. RemoveFirst(c, r) = c
    BY <1>1 DEF RemoveFirst
  <2>2. r \notin ToSet(c)
    BY <1>0, <1>1 DEF ToSet
  <2> QED
    BY <2>1, <2>2
<1>2. CASE \E i \in 1 .. Len(c) : c[i] = r
  <2>1. PICK i \in 1 .. Len(c) : c[i] = r
    BY <1>2
  <2>2. \A k, l \in 1 .. Len(c) : c[k] = c[l] => k = l
    BY <1>0 DEF IsInjective
  <2>3. {k \in 1 .. Len(c) : c[k] = r} = {i}
    BY <2>1, <2>2
  <2>4. Min({i}) = i
    BY DEF Min
  <2>5. SelectInSeq(c, LAMBDA v : v = r) = i
    BY <2>3, <2>4 DEF SelectInSeq
  <2> DEFINE d == SubSeq(c, 1, i - 1) \o SubSeq(c, i + 1, Len(c))
  <2>6. RemoveFirst(c, r) = d
    BY <1>2, <2>5 DEF RemoveFirst, RemoveAt
  <2>7. /\ d \in Seq(S) /\ Len(d) = Len(c) - 1 /\ DOMAIN d = 1 .. Len(c) - 1
        /\ \A k \in 1 .. Len(c) - 1 : d[k] = IF k < i THEN c[k] ELSE c[k + 1]
    <3> DEFINE a == SubSeq(c, 1, i - 1)
               b == SubSeq(c, i + 1, Len(c))
    <3>1. i - 1 \in Nat /\ i - 1 <= Len(c) /\ Len(c) - i \in Nat /\ i \in Nat
      OBVIOUS
    <3>2. a \in Seq(S) /\ Len(a) = i - 1 /\ \A k \in 1 .. i - 1 : a[k] = c[k]
      BY <3>1
    <3>3. b \in Seq(S) /\ Len(b) = Len(c) - i /\ \A k \in 1 .. Len(c) - i : b[k] = c[i + k]
      BY <3>1
    <3> HIDE DEF a, b
    <3>4. /\ a \o b \in Seq(S) /\ Len(a \o b) = Len(a) + Len(b)
          /\ \A k \in 1 .. Len(a) + Len(b) : (a \o b)[k] = IF k <= Len(a) THEN a[k] ELSE b[k - Len(a)]
      BY <3>2, <3>3, ConcatProperties
    <3>5. d = a \o b
      BY DEF a, b
    <3> HIDE DEF d
    <3>6. Len(a) + Len(b) = Len(c) - 1
      BY <3>1, <3>2, <3>3
    <3>7. ASSUME NEW k \in 1 .. Len(c) - 1 PROVE d[k] = IF k < i THEN c[k] ELSE c[k + 1]
      <4>1. CASE k < i
        BY <3>1, <3>2, <3>4, <3>5, <3>6, <4>1
      <4>2. CASE ~(k < i)
        <5>1. d[k] = b[k - Len(a)]
          BY <3>1, <3>2, <3>4, <3>5, <3>6, <4>2
        <5>2. k - Len(a) \in 1 .. Len(c) - i /\ i + (k - Len(a)) = k + 1
          BY <3>1, <3>2, <4>2
        <5> QED
          BY <3>3, <4>2, <5>1, <5>2
      <4> QED
        BY <4>1, <4>2
    <3>8. d \in Seq(S) /\ Len(d) = Len(c) - 1
      BY <3>4, <3>5, <3>6
    <3>9. DOMAIN d = 1 .. Len(c) - 1
      BY <3>8
    <3> QED
      BY <3>7, <3>8, <3>9
  <2> HIDE DEF d
  <2>8. IsInjective(d)
    <3> SUFFICES ASSUME NEW k \in 1 .. Len(c) - 1, NEW l \in 1 .. Len(c) - 1, d[k] = d[l]
                 PROVE  k = l
      BY <2>7 DEF IsInjective
    <3> QED
      BY <1>0, <2>2, <2>7
  <2>9. ASSUME NEW x \in ToSet(d) PROVE x \in ToSet(c) \ {r}
    <3>1. PICK k \in 1 .. Len(c) - 1 : x = d[k]
      BY <2>7 DEF ToSet
    <3>2. PICK l \in 1 .. Len(c) : l # i /\ x = c[l]
      BY <1>0, <2>7, <3>1, SMTT(20)
    <3> QED
      BY <1>0, <2>1, <2>2, <3>2 DEF ToSet
  <2>10. ASSUME NEW x \in ToSet(c) \ {r} PROVE x \in ToSet(d)
    <3>1. PICK l \in 1 .. Len(c) : x = c[l] /\ l # i
      BY <1>0, <2>1 DEF ToSet
    <3>2. CASE l < i
      BY <1>0, <2>7, <3>1, <3>2 DEF ToSet
    <3>3. CASE l > i
      <4>1. l - 1 \in 1 .. Len(c) - 1 /\ ~(l - 1 < i) /\ (l - 1) + 1 = l
        BY <1>0, <3>3
      <4> QED
        BY <2>7, <3>1, <4>1 DEF ToSet
    <3> QED
      BY <3>1, <3>2, <3>3
  <2> QED
    BY <2>6, <2>7, <2>8, <2>9, <2>10
<1> QED
  BY <1>1, <1>2

--------------------------------------------------------------------------------
(* The invariant of the files.                                             *)

(* Places in which a run has no command at hand.                           *)
Idle == {"off", "rounds", "opening"} \cup Polling

Typed == /\ req \in [Requests -> Phases] /\ at \in [Runs -> Places]
         /\ hand \in [Runs -> Requests \cup {NoOne}] /\ taken \in [Runs -> SUBSET Requests]
         /\ commands \in Seq(Requests) /\ IsInjective(commands)

(* Before its client writes a command, and after the client is done with   *)
(* it, there is no file.                                                   *)
AbsentFile == \A r \in Requests :
    req[r] \in {"new", "checked", "refused", "cleaning", "done", "gaveup"} => r \notin Files

(* A command being written is torn, and so may be one whose client fell    *)
(* over; no other is.                                                      *)
TornFile == /\ torn \subseteq Files /\ \A r \in torn : req[r] \in {"writing", "dead"}
            /\ \A r \in Requests : req[r] = "writing" => r \in torn

(* A run only ever took up what had been written out.                      *)
TakenWhole == \A s \in Runs : \A r \in taken[s] :
    r \notin torn /\ req[r] \notin {"new", "checked", "refused", "writing"}

HandTaken == \A s \in Runs : hand[s] # NoOne => hand[s] \in taken[s]
HandFree  == \A s \in Runs : at[s] \in Idle => hand[s] = NoOne

FileInv == Typed /\ AbsentFile /\ TornFile /\ TakenWhole /\ HandTaken /\ HandFree /\ ServedOnce

LEMMA FileInit == Init => FileInv
<1> SUFFICES ASSUME Init PROVE FileInv
  OBVIOUS
<1>1. <<>> \in Seq(Requests) /\ DOMAIN <<>> = {}
  OBVIOUS
<1>2. IsInjective(commands) /\ Files = {}
  BY <1>1 DEF Init, IsInjective, Files, ToSet
<1>3. Typed
  BY <1>1, <1>2 DEF Init, Typed, Phases, Places
<1>4. AbsentFile /\ TornFile /\ TakenWhole /\ HandTaken /\ HandFree /\ ServedOnce
  BY <1>2 DEF Init, AbsentFile, TornFile, TakenWhole, HandTaken, HandFree, ServedOnce
<1> QED
  BY <1>3, <1>4 DEF FileInv

(* A step that moves no file and no command and gives no run rest.         *)
LEMMA QuietStep ==
    ASSUME FileInv, at' \in [Runs -> Places], UNCHANGED <<req, commands, torn, hand, taken>>,
           \A x \in Runs : at'[x] \in Idle => at[x] \in Idle
    PROVE  FileInv'
<1>1. Files' = Files
  BY DEF Files
<1>2. Typed'
  BY DEF FileInv, Typed
<1>3. AbsentFile' /\ TornFile' /\ TakenWhole' /\ HandTaken' /\ ServedOnce'
  BY <1>1 DEF FileInv, AbsentFile, TornFile, TakenWhole, HandTaken, ServedOnce
<1>4. HandFree'
  BY DEF FileInv, HandFree
<1> QED
  BY <1>2, <1>3, <1>4 DEF FileInv

(* A request thread moves on without touching a file: it may not become    *)
(* one that is done with its command.                                      *)
LEMMA ClientStep ==
    ASSUME FileInv, UNCHANGED <<commands, torn, at, hand, taken>>, req' \in [Requests -> Phases],
           \A r \in Requests :
              \/ req'[r] = req[r]
              \/ (req'[r] \in {"checked", "refused"} /\ req[r] = "new")
              \/ (req'[r] = "received" /\ req[r] = "waiting")
              \/ req'[r] = "dead"
              \/ (req'[r] = "done" /\ req[r] = "cleaning")
    PROVE  FileInv'
<1>1. Files' = Files
  BY DEF Files
<1>2. Typed' /\ HandTaken' /\ HandFree' /\ ServedOnce'
  BY <1>1 DEF FileInv, Typed, HandTaken, HandFree, ServedOnce
<1>3. AbsentFile'
  BY <1>1 DEF FileInv, AbsentFile
<1>4. TornFile'
  <2>1. \A r \in torn : r \in Requests
    <3>1. commands \in Seq(Requests) /\ torn \subseteq Files
      BY DEF FileInv, Typed, TornFile
    <3> QED
      BY <3>1 DEF Files, ToSet
  <2> QED
    BY <1>1, <2>1 DEF FileInv, TornFile
<1>5. TakenWhole'
  BY DEF FileInv, TakenWhole, Typed
<1> QED
  BY <1>2, <1>3, <1>4, <1>5 DEF FileInv

LEMMA FileClient ==
    ASSUME FileInv, NEW r \in Requests,
           \/ Check(r) \/ OpenCommand(r) \/ WriteCommand(r) \/ WriteFails(r)
           \/ Receive(r) \/ RemoveCommand(r) \/ RemoveResponse(r) \/ GiveUp(r)
           \/ DecodeResponseFails(r)
    PROVE  FileInv'
<1>0. Typed /\ AbsentFile /\ TornFile /\ TakenWhole /\ HandTaken /\ HandFree /\ ServedOnce
  BY DEF FileInv
<1>1. ASSUME \/ Check(r) \/ WriteFails(r) \/ Receive(r) \/ RemoveResponse(r)
             \/ DecodeResponseFails(r)
      PROVE  FileInv'
  <2>1. UNCHANGED <<commands, torn, at, hand, taken>>
    BY <1>1 DEF Check, WriteFails, Receive, RemoveResponse, DecodeResponseFails, runVars
  <2>2. PICK p \in Phases : /\ req' = [req EXCEPT ![r] = p]
                            /\ \/ p \in {"checked", "refused"} /\ req[r] = "new"
                               \/ p = "received" /\ req[r] = "waiting"
                               \/ p = "dead"
                               \/ p = "done" /\ req[r] = "cleaning"
    BY <1>1 DEF Check, WriteFails, Receive, RemoveResponse, DecodeResponseFails, Phases, Ended,
                Become
  <2>3. req \in [Requests -> Phases] /\ req' = [req EXCEPT ![r] = p]
    BY <1>0, <2>2 DEF Typed
  <2>4. req' \in [Requests -> Phases] /\ req'[r] = p
    BY <2>3
  <2>5. \A q \in Requests \ {r} : req'[q] = req[q]
    BY <2>3
  <2> QED
    BY <2>1, <2>2, <2>4, <2>5, ClientStep
<1>2. ASSUME OpenCommand(r) PROVE FileInv'
  <2>1. /\ req[r] = "checked" /\ req' = [req EXCEPT ![r] = "writing"]
        /\ commands' = Append(commands, r) /\ torn' = torn \cup {r} /\ UNCHANGED <<at, hand, taken>>
    BY <1>2 DEF OpenCommand, Become, runVars
  <2>2. r \notin Files
    BY <1>0, <2>1 DEF AbsentFile
  <2>3. commands' \in Seq(Requests) /\ IsInjective(commands') /\ ToSet(commands') = Files \cup {r}
    BY <1>0, <2>1, <2>2, AppendFile DEF Typed, Files
  <2>4. Files' = Files \cup {r}
    BY <2>3 DEF Files
  <2>5. Typed'
    BY <1>0, <2>1, <2>3 DEF Typed, Phases
  <2>6. AbsentFile' /\ TornFile' /\ TakenWhole'
    BY <1>0, <2>1, <2>4 DEF AbsentFile, TornFile, TakenWhole, Typed
  <2>7. HandTaken' /\ HandFree'
    BY <1>0, <2>1 DEF HandTaken, HandFree
  <2>8. ServedOnce'
    BY <1>0, <2>1, <2>4 DEF ServedOnce, TakenWhole
  <2> QED
    BY <2>5, <2>6, <2>7, <2>8 DEF FileInv
<1>3. ASSUME WriteCommand(r) PROVE FileInv'
  <2>1. /\ req[r] = "writing" /\ req' = [req EXCEPT ![r] = "waiting"]
        /\ commands' = Append(RemoveFirst(commands, r), r) /\ torn' = torn \ {r}
        /\ UNCHANGED <<at, hand, taken>>
    BY <1>3 DEF WriteCommand, Become, runVars
  <2>2. /\ RemoveFirst(commands, r) \in Seq(Requests) /\ IsInjective(RemoveFirst(commands, r))
        /\ ToSet(RemoveFirst(commands, r)) = Files \ {r}
    BY <1>0, RemoveFile DEF Typed, Files
  <2>3. /\ commands' \in Seq(Requests) /\ IsInjective(commands')
        /\ ToSet(commands') = (Files \ {r}) \cup {r}
    BY <2>1, <2>2, AppendFile
  <2>4. Files' = Files \cup {r}
    BY <2>3 DEF Files
  <2>5. Typed'
    BY <1>0, <2>1, <2>3 DEF Typed, Phases
  <2>6. AbsentFile' /\ TornFile' /\ TakenWhole'
    BY <1>0, <2>1, <2>4 DEF AbsentFile, TornFile, TakenWhole, Typed
  <2>7. HandTaken' /\ HandFree'
    BY <1>0, <2>1 DEF HandTaken, HandFree
  <2>8. ServedOnce'
    BY <1>0, <2>1, <2>4 DEF ServedOnce, TakenWhole
  <2> QED
    BY <2>5, <2>6, <2>7, <2>8 DEF FileInv
<1>4. ASSUME RemoveCommand(r) \/ GiveUp(r) PROVE FileInv'
  <2>1. PICK p \in {"cleaning", "done", "gaveup"} :
           /\ req[r] \in {"received", "waiting"} /\ req' = [req EXCEPT ![r] = p]
           /\ commands' = RemoveFirst(commands, r) /\ UNCHANGED <<torn, at, hand, taken>>
    BY <1>4 DEF RemoveCommand, GiveUp, Become, runVars
  <2>2. commands' \in Seq(Requests) /\ IsInjective(commands') /\ ToSet(commands') = Files \ {r}
    BY <1>0, <2>1, RemoveFile DEF Typed, Files
  <2>3. Files' = Files \ {r}
    BY <2>2 DEF Files
  <2>4. Typed'
    BY <1>0, <2>1, <2>2 DEF Typed, Phases, Ended
  <2>5. AbsentFile' /\ TakenWhole'
    BY <1>0, <2>1, <2>3 DEF AbsentFile, TakenWhole, Typed
  <2>6. TornFile'
    BY <1>0, <2>1, <2>3 DEF TornFile, Typed
  <2>7. HandTaken' /\ HandFree' /\ ServedOnce'
    BY <1>0, <2>1, <2>3 DEF HandTaken, HandFree, ServedOnce
  <2> QED
    BY <2>4, <2>5, <2>6, <2>7 DEF FileInv
<1> QED
  BY <1>1, <1>2, <1>3, <1>4

LEMMA FileRun ==
    ASSUME FileInv, NEW s \in Runs,
           \/ Start(s) \/ MonitorForgets(s) \/ Signal(s) \/ FinishRounds(s) \/ AnnounceAlive(s)
           \/ Serve(s) \/ ResponseFails(s) \/ Killed(s)
    PROVE  FileInv'
<1>0. Typed /\ AbsentFile /\ TornFile /\ TakenWhole /\ HandTaken /\ HandFree /\ ServedOnce
  BY DEF FileInv
<1>1. ASSUME \/ Start(s) \/ MonitorForgets(s) \/ Signal(s) \/ FinishRounds(s) \/ AnnounceAlive(s)
             \/ Leave(s) \/ ListCommands(s) \/ SortByTime(s) \/ TimeFails(s) \/ DecodeFails(s) \/ Skip(s)
             \/ OpenResponse(s) \/ Answer(s) \/ AnnounceStopped(s) \/ ResponseFails(s) \/ Killed(s)
      PROVE  FileInv'
  <2>1. UNCHANGED <<req, commands, torn, hand, taken>>
    BY <1>1 DEF Start, MonitorForgets, Signal, FinishRounds, AnnounceAlive, Leave, ListCommands,
                SortByTime, TimeFails, DecodeFails, Skip, OpenResponse, Answer, AnnounceStopped, ResponseFails,
                Killed, clientVars
  <2>2. \/ at' = at
        \/ at[s] \in Idle /\ \E p \in Places : at' = [at EXCEPT ![s] = p]
        \/ \E p \in Places \ Idle : at' = [at EXCEPT ![s] = p]
    BY <1>1 DEF Start, MonitorForgets, Signal, FinishRounds, AnnounceAlive, Leave, ListCommands,
                SortByTime, TimeFails, DecodeFails, Skip, OpenResponse, Answer, AnnounceStopped, ResponseFails,
                Killed, StopListening, Goto, Idle, Places, Polling
  <2> QED
    BY <1>0, <2>1, <2>2, QuietStep DEF Typed
<1>2. ASSUME Take(s) PROVE FileInv'
  <2>1. PICK r : /\ r \in Files \ torn /\ at[s] = "scan" /\ hand' = [hand EXCEPT ![s] = r]
                 /\ taken' = [taken EXCEPT ![s] = @ \cup {r}] /\ at' = [at EXCEPT ![s] = "work"]
                 /\ UNCHANGED <<req, commands, torn>>
    BY <1>2 DEF Take, Goto, clientVars
  <2>2. Files' = Files
    BY <2>1 DEF Files
  <2>3. r \in Requests /\ r # NoOne
    BY <1>0, <2>1, IPCAssumption DEF Files, ToSet, Typed
  <2>4. Typed'
    BY <1>0, <2>1, <2>3 DEF Typed, Places
  <2>5. AbsentFile' /\ TornFile'
    BY <1>0, <2>1, <2>2 DEF AbsentFile, TornFile
  <2>6. req[r] \notin {"new", "checked", "refused"} 
    BY <1>0, <2>1, <2>3 DEF AbsentFile
  <2>7. req[r] # "writing"
    BY <1>0, <2>1, <2>3 DEF TornFile
  <2>8. TakenWhole'
    BY <1>0, <2>1, <2>6, <2>7 DEF TakenWhole, Typed
  <2>9. hand[s] = NoOne
    BY <1>0, <2>1 DEF HandFree, Idle, Polling
  <2>10. HandTaken'
    BY <1>0, <2>1 DEF HandTaken, Typed
  <2>11. HandFree'
    BY <1>0, <2>1 DEF HandFree, Typed, Idle, Polling
  <2>12. ServedOnce'
    <3> SUFFICES ASSUME NEW x \in Runs, NEW q \in taken'[x], hand'[x] # q PROVE q \notin Files'
      BY DEF ServedOnce
    <3>1. CASE x = s
      <4>1. q \in taken[s] \cup {r} /\ q # r
        BY <1>0, <2>1, <3>1 DEF Typed
      <4>2. q # NoOne
        BY <1>0, <4>1, IPCAssumption DEF Typed
      <4> QED
        BY <1>0, <2>2, <2>9, <4>1, <4>2 DEF ServedOnce
    <3>2. CASE x # s
      BY <1>0, <2>1, <2>2, <3>2 DEF ServedOnce, Typed
    <3> QED
      BY <3>1, <3>2
  <2> QED
    BY <2>4, <2>5, <2>8, <2>10, <2>11, <2>12 DEF FileInv
<1>3. ASSUME RemoveServed(s) PROVE FileInv'
  <2>1. /\ commands' = RemoveFirst(commands, hand[s]) /\ hand' = [hand EXCEPT ![s] = NoOne]
        /\ UNCHANGED <<req, torn, taken>>
        /\ \E p \in {"closing", "listen"} : at' = [at EXCEPT ![s] = p]
    BY <1>3 DEF RemoveServed, StopListening, Goto, clientVars
  <2>2. commands' \in Seq(Requests) /\ IsInjective(commands') /\ ToSet(commands') = Files \ {hand[s]}
    BY <1>0, <2>1, RemoveFile DEF Typed, Files
  <2>3. Files' = Files \ {hand[s]}
    BY <2>2 DEF Files
  <2>4. Typed'
    BY <1>0, <2>1, <2>2 DEF Typed, Places, Polling
  <2>5. AbsentFile' /\ TakenWhole'
    BY <1>0, <2>1, <2>3 DEF AbsentFile, TakenWhole
  <2>6. hand[s] \notin torn
    <3>1. CASE hand[s] = NoOne
      BY <1>0, <3>1, IPCAssumption DEF TornFile, Files, ToSet, Typed
    <3>2. CASE hand[s] # NoOne
      BY <1>0, <3>2 DEF HandTaken, TakenWhole
    <3> QED
      BY <3>1, <3>2
  <2>7. TornFile'
    BY <1>0, <2>1, <2>3, <2>6 DEF TornFile
  <2>8. HandTaken' /\ HandFree' /\ ServedOnce'
    BY <1>0, <2>1, <2>3 DEF HandTaken, HandFree, ServedOnce, Typed
  <2> QED
    BY <2>4, <2>5, <2>7, <2>8 DEF FileInv
<1> QED
  BY <1>1, <1>2, <1>3 DEF Serve

LEMMA FileStep == FileInv /\ [Next]_vars => FileInv'
<1> SUFFICES ASSUME FileInv, [Next]_vars PROVE FileInv'
  OBVIOUS
<1>0. Typed
  BY DEF FileInv
<1>1. ASSUME NEW r \in Requests,
             \/ Check(r) \/ OpenCommand(r) \/ WriteCommand(r) \/ WriteFails(r)
             \/ Receive(r) \/ RemoveCommand(r) \/ RemoveResponse(r) \/ GiveUp(r)
             \/ DecodeResponseFails(r)
      PROVE  FileInv'
  BY <1>1, FileClient
<1>2. ASSUME NEW s \in Runs,
             \/ Start(s) \/ MonitorForgets(s) \/ Signal(s) \/ FinishRounds(s) \/ AnnounceAlive(s)
             \/ Serve(s) \/ ResponseFails(s) \/ Killed(s)
      PROVE  FileInv'
  BY <1>2, FileRun
<1>3. ASSUME BackendDies PROVE FileInv'
  <2>1. /\ UNCHANGED <<commands, torn, at, hand, taken>>
        /\ req' = [r \in Requests |-> IF req[r] \in Ended \cup {"new"} THEN req[r] ELSE "dead"]
    BY <1>3 DEF BackendDies
  <2>2. req' \in [Requests -> Phases]
    BY <1>0, <2>1 DEF Typed, Phases, Ended
  <2>3. \A r \in Requests : req'[r] = req[r] \/ req'[r] = "dead"
    BY <2>1
  <2> QED
    BY <2>1, <2>2, <2>3, ClientStep
<1>4. ASSUME UNCHANGED vars PROVE FileInv'
  BY <1>0, <1>4, QuietStep DEF vars, clientVars, runVars, Typed
<1> QED
  BY <1>1, <1>2, <1>3, <1>4 DEF Next, Finished

LEMMA FilesAlways == Spec => []FileInv
BY FileInit, FileStep, PTL DEF Spec

(* ServedOnce (send_response removes the command it answered, a client     *)
(* its own at its deadline): a command that a run took up lies in the      *)
(* directory only while that run is on it or was cut short on it.          *)
THEOREM CommandsServedOnce == Spec => []ServedOnce
<1>1. FileInv => ServedOnce
  BY DEF FileInv
<1> QED
  BY <1>1, FilesAlways, PTL

(* ServedWhileWanted (the clean-up at simulation_ipc.py:181): no run takes *)
(* up a command whose client has its answer or has given up.               *)
THEOREM CommandsServedWhileWanted == Spec => ServedWhileWanted
<1> DEFINE Wanted == \A s \in Runs :
      hand'[s] \notin {hand[s], NoOne} => req[hand'[s]] \notin {"done", "gaveup"}
<1>1. FileInv /\ [Next]_vars => [Wanted]_vars
  <2> SUFFICES ASSUME FileInv, Next, NEW x \in Runs, hand'[x] \notin {hand[x], NoOne}
               PROVE  req[hand'[x]] \notin {"done", "gaveup"}
    OBVIOUS
  <2>0. Typed /\ AbsentFile
    BY DEF FileInv
  <2>1. \E s \in Runs : Take(s)
    <3>1. hand' # hand
      OBVIOUS
    <3>2. ASSUME NEW s \in Runs, RemoveServed(s) PROVE FALSE
      BY <2>0, <3>2 DEF RemoveServed, Typed
    <3>3. ASSUME NEW r \in Requests,
                 \/ Check(r) \/ OpenCommand(r) \/ WriteCommand(r) \/ WriteFails(r)
                 \/ Receive(r) \/ RemoveCommand(r) \/ RemoveResponse(r) \/ GiveUp(r)
             \/ DecodeResponseFails(r)
          PROVE  FALSE
      BY <3>1, <3>3 DEF Check, OpenCommand, WriteCommand, WriteFails, Receive, RemoveCommand,
                        RemoveResponse, GiveUp, DecodeResponseFails, runVars
    <3>4. ASSUME NEW s \in Runs,
                 \/ Start(s) \/ MonitorForgets(s) \/ Signal(s) \/ FinishRounds(s) \/ AnnounceAlive(s)
                 \/ Leave(s) \/ ListCommands(s) \/ SortByTime(s) \/ TimeFails(s) \/ DecodeFails(s) \/ Skip(s)
                 \/ OpenResponse(s) \/ Answer(s) \/ AnnounceStopped(s) \/ ResponseFails(s) \/ Killed(s)
          PROVE  FALSE
      BY <3>1, <3>4 DEF Start, MonitorForgets, Signal, FinishRounds, AnnounceAlive, Leave,
                        ListCommands, SortByTime, TimeFails, DecodeFails, Skip, OpenResponse, Answer,
                        AnnounceStopped, ResponseFails, Killed
    <3>5. ~BackendDies /\ ~Finished
      BY <3>1 DEF BackendDies, Finished, vars, runVars
    <3> QED
      BY <3>2, <3>3, <3>4, <3>5 DEF Next, Serve
  <2>2. PICK s \in Runs : Take(s)
    BY <2>1
  <2>3. PICK r : r \in Files /\ hand' = [hand EXCEPT ![s] = r]
    BY <2>2 DEF Take
  <2>4. hand'[x] = r
    BY <2>0, <2>3 DEF Typed
  <2>5. r \in Requests
    BY <2>0, <2>3 DEF Typed, Files, ToSet
  <2> QED
    BY <2>0, <2>3, <2>4, <2>5 DEF AbsentFile
<1>2. [][Wanted]_vars <=> ServedWhileWanted
  BY DEF ServedWhileWanted
<1> QED
  BY <1>1, <1>2, FilesAlways, PTL DEF Spec

--------------------------------------------------------------------------------
(* The status file.  A run that was never up together with another one is  *)
(* the only one to write the file while it is up.                          *)

Looping == Polling \cup {"work", "answering", "answered"}

StatusInv == /\ at \in [Runs -> Places]
             /\ \A s \in Runs : Up(s) /\ s \notin overlapped => \A x \in Runs : Up(x) => x = s
             /\ ListeningIsAdvertised

LEMMA StatusInit == Init => StatusInv
BY DEF Init, StatusInv, Up, ListeningIsAdvertised, InLoop, Polling, Places

(* A step of one run that starts no other one: it was up                  *)
(* before, and it is alive in the file if it enters its loop.              *)
LEMMA RunStep ==
    ASSUME StatusInv, NEW s \in Runs, NEW p \in Places, Up(s), UNCHANGED overlapped,
           at' = [at EXCEPT ![s] = p],
           p \in Looping => (alive' \/ (at[s] \in Looping /\ UNCHANGED alive))
    PROVE  StatusInv'
BY DEF StatusInv, Up, ListeningIsAdvertised, InLoop, Looping, Polling, Places

LEMMA StatusStep == StatusInv /\ [Next]_vars => StatusInv'
<1> SUFFICES ASSUME StatusInv, [Next]_vars PROVE StatusInv'
  OBVIOUS
<1>1. ASSUME UNCHANGED <<at, overlapped, alive>> PROVE StatusInv'
  BY <1>1 DEF StatusInv, Up, ListeningIsAdvertised, InLoop
<1>2. ASSUME NEW r \in Requests,
             \/ Check(r) \/ OpenCommand(r) \/ WriteCommand(r) \/ WriteFails(r)
             \/ Receive(r) \/ RemoveCommand(r) \/ RemoveResponse(r) \/ GiveUp(r)
             \/ DecodeResponseFails(r)
      PROVE  StatusInv'
  BY <1>1, <1>2 DEF Check, OpenCommand, WriteCommand, WriteFails, Receive, RemoveCommand,
                    RemoveResponse, GiveUp, DecodeResponseFails, runVars
<1>3. ASSUME NEW s \in Runs, Start(s) PROVE StatusInv'
  <2> DEFINE others == {x \in Runs : Up(x)}
  <2>1. /\ at[s] = "off" /\ at' = [at EXCEPT ![s] = "rounds"]
        /\ overlapped' = IF others = {} THEN overlapped ELSE overlapped \cup others \cup {s}
    BY <1>3 DEF Start, Goto
  <2>2. at' \in [Runs -> Places] /\ at'[s] = "rounds" /\ \A x \in Runs \ {s} : at'[x] = at[x]
    BY <2>1 DEF StatusInv, Places
  <2>3. ASSUME NEW x \in Runs \ {s}, Up(x)' PROVE x \in overlapped' /\ s \in overlapped'
    BY <2>1, <2>2, <2>3 DEF Up
  <2>4. \A x \in Runs : Up(x)' /\ x \notin overlapped' => \A y \in Runs : Up(y)' => y = x
    BY <2>3
  <2>5. ListeningIsAdvertised'
    BY <2>2, <2>3 DEF ListeningIsAdvertised, InLoop, Up, Polling
  <2> QED
    BY <2>2, <2>4, <2>5 DEF StatusInv
<1>4. ASSUME NEW s \in Runs, MonitorForgets(s) PROVE StatusInv'
  BY <1>1, <1>4 DEF MonitorForgets
<1>5. ASSUME NEW s \in Runs, Signal(s) PROVE StatusInv'
  BY <1>1, <1>5 DEF Signal
<1>6. ASSUME NEW s \in Runs, FinishRounds(s) \/ AnnounceAlive(s) PROVE StatusInv'
  <2>1. Up(s) /\ UNCHANGED overlapped
    BY <1>6 DEF FinishRounds, AnnounceAlive, Up
  <2>2. \/ at' = [at EXCEPT ![s] = "opening"]
        \/ at' = [at EXCEPT ![s] = "listen"] /\ alive'
    BY <1>6 DEF FinishRounds, AnnounceAlive, Goto
  <2> QED
    BY <2>1, <2>2, RunStep DEF Places, Polling, Looping
<1>7. ASSUME NEW s \in Runs,
             \/ Leave(s) \/ TimeFails(s) \/ DecodeFails(s) \/ AnnounceStopped(s) \/ ResponseFails(s) \/ Killed(s)
             \/ RemoveServed(s) /\ hand[s] \in Closing
      PROVE  StatusInv'
  <2>1. Up(s) /\ UNCHANGED overlapped
    BY <1>7 DEF Leave, TimeFails, DecodeFails, AnnounceStopped, ResponseFails, Killed, RemoveServed, Up
  <2>2. \E p \in Places \ Looping : at' = [at EXCEPT ![s] = p]
    BY <1>7 DEF Leave, TimeFails, DecodeFails, AnnounceStopped, ResponseFails, Killed, RemoveServed,
                StopListening, Goto, Places, Polling, Looping
  <2> QED
    BY <2>1, <2>2, RunStep
<1>8. ASSUME NEW s \in Runs,
             \/ ListCommands(s) \/ SortByTime(s) \/ Skip(s) \/ Take(s) \/ OpenResponse(s) \/ Answer(s)
             \/ RemoveServed(s) /\ hand[s] \notin Closing
      PROVE  StatusInv'
  <2>1. at[s] \in Looping /\ Up(s) /\ UNCHANGED <<overlapped, alive>>
    BY <1>8 DEF ListCommands, SortByTime, Skip, Take, OpenResponse, Answer, RemoveServed,
                Polling, Looping, Up
  <2>2. \/ at' = at
        \/ \E p \in Places : at' = [at EXCEPT ![s] = p]
    BY <1>8 DEF ListCommands, SortByTime, Skip, Take, OpenResponse, Answer, RemoveServed,
                Goto, Places, Polling
  <2> QED
    BY <1>1, <2>1, <2>2, RunStep
<1>9. ASSUME NEW s \in Runs, RemoveServed(s) PROVE StatusInv'
  BY <1>7, <1>8, <1>9
<1>10. ASSUME BackendDies PROVE StatusInv'
  BY <1>1, <1>10 DEF BackendDies
<1>11. ASSUME UNCHANGED vars PROVE StatusInv'
  BY <1>1, <1>11 DEF vars, runVars
<1> QED
  BY <1>2, <1>3, <1>4, <1>5, <1>6, <1>7, <1>8, <1>9, <1>10, <1>11 DEF Next, Serve, Finished

(* ListeningIsAdvertised (check_env_alive reads what update_status wrote): *)
(* a run that takes commands says so in the status file that successive    *)
(* runs share, unless it was up together with another run.                 *)
THEOREM ListeningAdvertised == Spec => []ListeningIsAdvertised
<1>1. StatusInv => ListeningIsAdvertised
  BY DEF StatusInv
<1> QED
  BY <1>1, StatusInit, StatusStep, PTL DEF Spec

--------------------------------------------------------------------------------
(* The types of what is left: the responses, the status file, the lists of *)
(* the runs and the books of the backend.                                  *)

Rest == /\ response \in [Requests -> {"none", "torn", "whole"}] /\ alive \in BOOLEAN
        /\ todo \in [Runs -> Seq(Requests)] /\ signalled \subseteq Runs
        /\ known \in Runs \cup {NoOne} /\ mishaps \in 0 .. MaxMishaps
        /\ overlapped \subseteq Runs

LEMMA RestInit == Init => Rest
<1>0. SUFFICES ASSUME Init PROVE Rest
  OBVIOUS
<1>1. <<>> \in Seq(Requests)
  OBVIOUS
<1>2. 0 \in 0 .. MaxMishaps /\ FALSE \in BOOLEAN
  BY IPCAssumption
<1>3. /\ response = [r \in Requests |-> "none"] /\ alive = FALSE
      /\ todo = [s \in Runs |-> <<>>] /\ signalled = {} /\ known = NoOne
      /\ overlapped = {} /\ mishaps = 0
  BY <1>0 DEF Init
<1>4. response \in [Requests -> {"none", "torn", "whole"}]
  BY <1>3
<1>5. todo \in [Runs -> Seq(Requests)]
  BY <1>1, <1>3
<1>6. alive \in BOOLEAN /\ mishaps \in 0 .. MaxMishaps /\ overlapped \subseteq Runs
  BY <1>2, <1>3
<1> QED
  BY <1>3, <1>4, <1>5, <1>6 DEF Rest

(* What lies in the directory, in any order, is a list of commands.        *)
LEMMA OrderTyped ==
    ASSUME NEW c \in Seq(Requests), NEW f \in [DOMAIN c -> ToSet(c)]
    PROVE  f \in Seq(Requests)
<1>1. DOMAIN c = 1 .. Len(c) /\ Len(c) \in Nat /\ ToSet(c) \subseteq Requests
  BY DEF ToSet
<1>2. f \in [1 .. Len(c) -> Requests]
  BY <1>1
<1> QED
  BY <1>1, <1>2

(* The list of a run: a copy of the directory, in order of time, or what   *)
(* is left of it.                                                          *)
LEMMA ListTyped ==
    ASSUME Rest, commands \in Seq(Requests), NEW s \in Runs,
           \/ Start(s) \/ MonitorForgets(s) \/ Signal(s) \/ FinishRounds(s) \/ AnnounceAlive(s)
           \/ Serve(s) \/ ResponseFails(s) \/ Killed(s)
    PROVE  todo' \in [Runs -> Seq(Requests)]
<1>0. todo \in [Runs -> Seq(Requests)] /\ todo[s] \in Seq(Requests) /\ <<>> \in Seq(Requests)
  BY DEF Rest
<1>1. ASSUME NEW t \in Seq(Requests), todo' = [todo EXCEPT ![s] = t]
      PROVE  todo' \in [Runs -> Seq(Requests)]
  BY <1>0, <1>1
<1>2. ASSUME ListCommands(s) PROVE todo' \in [Runs -> Seq(Requests)]
  BY <1>1, <1>2 DEF ListCommands
<1>3. ASSUME SortByTime(s) PROVE todo' \in [Runs -> Seq(Requests)]
  <2>1. PICK order \in [DOMAIN todo[s] -> ToSet(todo[s])] : todo' = [todo EXCEPT ![s] = order]
    BY <1>3 DEF SortByTime
  <2>2. order \in Seq(Requests)
    BY <1>0, OrderTyped
  <2> QED
    BY <1>1, <2>1, <2>2
<1>4. ASSUME TimeFails(s) \/ DecodeFails(s) \/ Take(s) \/ Killed(s) PROVE todo' \in [Runs -> Seq(Requests)]
  BY <1>0, <1>1, <1>4 DEF TimeFails, DecodeFails, Take, Killed
<1>5. ASSUME Skip(s) PROVE todo' \in [Runs -> Seq(Requests)]
  <2>1. CASE todo[s] = <<>>
    BY <1>0, <1>5, <2>1 DEF Skip
  <2>2. CASE todo[s] # <<>>
    <3>1. Tail(todo[s]) \in Seq(Requests) /\ todo' = [todo EXCEPT ![s] = Tail(todo[s])]
      BY <1>0, <1>5, <2>2 DEF Skip
    <3> QED
      BY <1>1, <3>1
  <2> QED
    BY <2>1, <2>2
<1>6. ASSUME UNCHANGED todo PROVE todo' \in [Runs -> Seq(Requests)]
  BY <1>0, <1>6
<1> QED
  BY <1>2, <1>3, <1>4, <1>5, <1>6
  DEF Start, MonitorForgets, Signal, FinishRounds, AnnounceAlive, ResponseFails, Serve, Leave,
      OpenResponse, Answer, RemoveServed, AnnounceStopped

LEMMA RestRun ==
    ASSUME Rest, commands \in Seq(Requests), NEW s \in Runs,
           \/ Start(s) \/ MonitorForgets(s) \/ Signal(s) \/ FinishRounds(s) \/ AnnounceAlive(s)
           \/ Serve(s) \/ ResponseFails(s) \/ Killed(s)
    PROVE  Rest'
<1>1. response' \in [Requests -> {"none", "torn", "whole"}]
  BY DEF Rest, Start, MonitorForgets, Signal, FinishRounds, AnnounceAlive, ResponseFails, Killed,
         Serve, Leave, ListCommands, SortByTime, TimeFails, DecodeFails, Take, Skip, OpenResponse, Answer,
         RemoveServed, AnnounceStopped
<1>2. alive' \in BOOLEAN
  <2>1. alive' \in {alive, FALSE, TRUE}
    BY DEF Start, MonitorForgets, Signal, FinishRounds, AnnounceAlive, ResponseFails,
           Killed, Serve, Leave, ListCommands, SortByTime, TimeFails, DecodeFails, Take, Skip, OpenResponse,
           Answer, RemoveServed, AnnounceStopped, StopListening
  <2> QED
    BY <2>1, Zenon DEF Rest
<1>3. signalled' \subseteq Runs
  BY DEF Rest, Start, MonitorForgets, Signal, FinishRounds, AnnounceAlive, ResponseFails, Killed,
         Serve, Leave, ListCommands, SortByTime, TimeFails, DecodeFails, Take, Skip, OpenResponse, Answer,
         RemoveServed, AnnounceStopped, StopListening
<1>4. known' \in Runs \cup {NoOne}
  BY DEF Rest, Start, MonitorForgets, Signal, FinishRounds, AnnounceAlive, ResponseFails, Killed,
         Serve, Leave, ListCommands, SortByTime, TimeFails, DecodeFails, Take, Skip, OpenResponse, Answer,
         RemoveServed, AnnounceStopped
<1>5. mishaps' \in 0 .. MaxMishaps
  <2>1. \/ mishaps' = mishaps
        \/ mishaps < MaxMishaps /\ mishaps' = mishaps + 1
    BY DEF Start, MonitorForgets, Signal, FinishRounds, AnnounceAlive, ResponseFails, Killed,
           Serve, Leave, ListCommands, SortByTime, TimeFails, DecodeFails, Take, Skip, OpenResponse, Answer,
           RemoveServed, AnnounceStopped
  <2>2. mishaps \in 0 .. MaxMishaps /\ MaxMishaps \in Nat
    BY IPCAssumption DEF Rest
  <2> QED
    BY <2>1, <2>2
<1>6. overlapped' \subseteq Runs
  <2>1. overlapped' \in {overlapped, overlapped \cup {x \in Runs : Up(x)} \cup {s}}
    BY DEF Start, MonitorForgets, Signal, FinishRounds, AnnounceAlive, ResponseFails, Killed,
           Serve, Leave, ListCommands, SortByTime, TimeFails, DecodeFails, Take, Skip,
           OpenResponse, Answer, RemoveServed, AnnounceStopped
  <2> QED
    BY <2>1 DEF Rest
<1> QED
  BY <1>1, <1>2, <1>3, <1>4, <1>5, <1>6, ListTyped DEF Rest

LEMMA RestClient ==
    ASSUME Rest, NEW r \in Requests,
           \/ Check(r) \/ OpenCommand(r) \/ WriteCommand(r) \/ WriteFails(r)
           \/ Receive(r) \/ RemoveCommand(r) \/ RemoveResponse(r) \/ GiveUp(r)
           \/ DecodeResponseFails(r)
    PROVE  Rest'
<1>1. UNCHANGED <<alive, todo, signalled, known, overlapped>>
  BY DEF Check, OpenCommand, WriteCommand, WriteFails, Receive, RemoveCommand, RemoveResponse,
         GiveUp, DecodeResponseFails, runVars
<1>2. response' \in [Requests -> {"none", "torn", "whole"}]
  BY DEF Rest, Check, OpenCommand, WriteCommand, WriteFails, Receive, RemoveCommand,
         RemoveResponse, GiveUp, DecodeResponseFails
<1>3. mishaps' \in 0 .. MaxMishaps
  BY IPCAssumption DEF Rest, Check, OpenCommand, WriteCommand, WriteFails, Receive,
     RemoveCommand, RemoveResponse, GiveUp, DecodeResponseFails
<1> QED
  BY <1>1, <1>2, <1>3 DEF Rest

LEMMA RestStep == FileInv /\ Rest /\ [Next]_vars => Rest'
<1> SUFFICES ASSUME FileInv, Rest, [Next]_vars PROVE Rest'
  OBVIOUS
<1>0. commands \in Seq(Requests)
  BY DEF FileInv, Typed
<1>1. ASSUME BackendDies PROVE Rest'
  <2>1. mishaps' \in 0 .. MaxMishaps
    BY <1>1, IPCAssumption DEF BackendDies, Rest
  <2> QED
    BY <1>1, <2>1 DEF BackendDies, Rest
<1>2. ASSUME UNCHANGED vars PROVE Rest'
  BY <1>2 DEF vars, runVars, Rest
<1> QED
  BY <1>0, <1>1, <1>2, RestRun, RestClient DEF Next, Finished

(* Whatever crosses, is killed or is lost: no command has two files, only  *)
(* files that are there are torn, a run lists and takes nothing but        *)
(* commands, and every other variable keeps its type.                      *)
THEOREM TypeCorrect == Spec => []TypeOK
<1>1. FileInv /\ Rest => TypeOK
  BY DEF FileInv, Typed, TornFile, Rest, TypeOK
<1> QED
  BY <1>1, FileInit, FileStep, RestInit, RestStep, PTL DEF Spec
================================================================================
