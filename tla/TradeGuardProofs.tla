---------------------------- MODULE TradeGuardProofs ----------------------------
(***************************************************************************)
(* Theorems about TradeGuard for any finite number of callers, any limits, *)
(* windows and results, and any number of trades, ticks and exceptions.    *)
(***************************************************************************)
EXTENDS TradeGuard, FiniteSetTheorems, TLAPS

(* Rows whose fields are what the queries expect.                          *)
Trade == [tagged : BOOLEAN, closed : Int, outcome : {"none", "hit_tp", "hit_sl", "manual"},
          pnl : Int, under : Nat]
RowsOK == /\ trades \in Seq(Trade) /\ log \in Seq([until : Int])
          /\ stats \in [wins : Nat, losses : Nat]

TypeInv == TypeOK /\ RowsOK

(* A call leaves every other caller where it is.                           *)
LEMMA Moved ==
    ASSUME DOMAIN call = Procs, NEW p \in Procs, NEW c, Goto(p, c)
    PROVE  /\ DOMAIN call' = Procs /\ call'[p] = c
           /\ \A q \in Procs : q # p => call'[q] = call[q]
           /\ call' = [call EXCEPT ![p] = c]
  BY DEF Goto

LEMMA InGuard ==
    ASSUME TypeInv, NEW p \in Procs
    PROVE  /\ call[p].at \in {"daily", "weekly", "consecutive"} =>
                 call[p] \in [at : {"daily", "weekly", "consecutive"}, asked : 0 .. now, bad : BOOLEAN]
           /\ call[p].at = "record" => call[p].until \in Cooldown .. now + Cooldown
           /\ call[p].at = "insert" => call[p].tagged \in BOOLEAN
           /\ call[p].at = "idle" <=> call[p] = Idle
  <1>1. call[p] \in Calls
    BY DEF TypeInv, TypeOK
  <1>2. QED
    BY <1>1 DEF Calls, Idle

LEMMA Numbers ==
    ASSUME TypeInv
    PROVE  /\ now \in Nat /\ closings \in Nat /\ faults \in Nat /\ Cooldown \in Nat
           /\ Day \in Nat /\ Week \in Nat /\ DailyLimit \in Int /\ WeeklyLimit \in Int
           /\ MaxConsecutive \in Nat /\ DOMAIN call = Procs
           /\ Len(trades) \in Nat /\ DOMAIN trades = 1 .. Len(trades)
           /\ Len(log) \in Nat /\ DOMAIN log = 1 .. Len(log)
  BY GuardAssumption DEF TypeInv, TypeOK, RowsOK

--------------------------------------------------------------------------------
(* Type correctness.                                                       *)

LEMMA ClosedRow ==
    ASSUME NEW t \in Trade, NEW m \in Int, NEW o \in {"hit_tp", "hit_sl", "manual"}, NEW n \in Int
    PROVE  [t EXCEPT !.closed = m, !.outcome = o, !.pnl = n] \in Trade
  BY DEF Trade

(* Rows and locals that were right stay right as the clock and the log grow.*)
RowTypes == \A i \in DOMAIN trades : TradeOK(trades[i])
LogTypes == \A i \in DOMAIN log : log[i].until \in Cooldown .. now + Cooldown

LEMMA Later ==
    ASSUME NEW n \in Nat, NEW m \in Nat, NEW c \in Nat, m >= n
    PROVE  0 .. n \subseteq 0 .. m /\ c .. n + c \subseteq c .. m + c
  OBVIOUS

LEMMA CallsGrow ==
    ASSUME now \in Nat, now' \in Nat, now' >= now, Cooldown \in Nat PROVE Calls \subseteq Calls'
  <1>1. 0 .. now \subseteq 0 .. now' /\ Cooldown .. now + Cooldown \subseteq Cooldown .. now' + Cooldown
    BY Later
  <1>2. QED
    BY <1>1 DEF Calls

LEMMA CallType ==
    ASSUME TypeInv, NEW p \in Procs, NEW c \in Calls, Goto(p, c), UNCHANGED now
    PROVE  call' \in [Procs -> Calls']
  BY DEF TypeInv, TypeOK, Goto, Calls

LEMMA RowsKept ==
    ASSUME TypeInv, UNCHANGED trades, now' \in Nat, now' >= now, Len(log') \in Nat, Len(log') >= Len(log)
    PROVE  RowTypes' /\ trades' \in Seq(Trade)
  <1>1. ASSUME NEW i \in DOMAIN trades PROVE TradeOK(trades[i])'
    <2>1. TradeOK(trades[i])
      BY DEF TypeInv, TypeOK
    <2>2. QED
      BY <2>1, Numbers, SMTT(20) DEF TradeOK
  <1>2. QED
    BY <1>1 DEF RowTypes, TypeInv, RowsOK

LEMMA LogKept ==
    ASSUME TypeInv, UNCHANGED log, now' \in Nat, now' >= now
    PROVE  LogTypes' /\ log' \in Seq([until : Int])
  <1>1. /\ now \in Nat /\ Cooldown \in Nat /\ log \in Seq([until : Int])
        /\ \A i \in DOMAIN log : log[i].until \in Cooldown .. now + Cooldown
    BY Numbers DEF TypeInv, TypeOK, RowsOK
  <1>2. Cooldown .. now + Cooldown \subseteq Cooldown .. now' + Cooldown
    BY <1>1, Later
  <1>3. QED
    BY <1>1, <1>2 DEF LogTypes

LEMMA InitType == Init => TypeInv
  <1> SUFFICES ASSUME Init PROVE TypeInv
    OBVIOUS
  <1>1. /\ trades = <<>> /\ log = <<>> /\ stats \in [wins : Nat, losses : Nat]
        /\ <<>> \in Seq(Trade) /\ <<>> \in Seq([until : Int]) /\ DOMAIN <<>> = {}
    BY DEF Init
  <1>2. Idle \in Calls
    BY DEF Idle, Calls
  <1>3. QED
    BY <1>1, <1>2, GuardAssumption DEF Init, TypeInv, TypeOK, RowsOK

LEMMA StepType == TypeInv /\ [Next]_vars => TypeInv'
  <1> SUFFICES ASSUME TypeInv, [Next]_vars PROVE TypeInv'
    OBVIOUS
  <1>0. hot \in [Procs -> BOOLEAN]
    BY DEF TypeInv, TypeOK
  <1>1. CASE UNCHANGED vars
    BY <1>1 DEF vars, TypeInv, TypeOK, RowsOK, TradeOK, Calls
  <1>2. ASSUME Observe PROVE hot' \in [Procs -> BOOLEAN]
    BY <1>2 DEF Observe
  (* Steps that change nothing but where a caller is.                      *)
  <1>3. ASSUME Observe, NEW p \in Procs, NEW c \in Calls, Goto(p, c),
               UNCHANGED <<now, trades, stats, closings, log>>, faults' \in 0 .. MaxFaults
        PROVE  TypeInv'
    <2>1. call' \in [Procs -> Calls'] /\ RowTypes' /\ LogTypes' /\ RowsOK'
      BY <1>3, CallType, RowsKept, LogKept, Numbers DEF RowsOK, TypeInv
    <2>2. QED
      BY <1>2, <1>3, <2>1 DEF TypeInv, TypeOK, RowTypes, LogTypes
  <1>4. ASSUME Observe, NEW p \in Procs, Ask(p) PROVE TypeInv'
    <2>1. [at |-> "daily", asked |-> now, bad |-> FALSE] \in Calls
      BY Numbers DEF Calls
    <2>2. QED
      BY <1>3, <1>4, <2>1 DEF Ask, TypeInv, TypeOK
  <1>5. ASSUME Observe, NEW p \in Procs, ReadDaily(p) PROVE TypeInv'
    <2>1. [call[p] EXCEPT !.at = "weekly", !.bad = PnlSince(call[p].asked - Day) <= DailyLimit] \in Calls
      <3>1. call[p] \in [at : {"daily", "weekly", "consecutive"}, asked : 0 .. now, bad : BOOLEAN]
        BY <1>5, InGuard DEF ReadDaily
      <3>2. (PnlSince(call[p].asked - Day) <= DailyLimit) \in BOOLEAN
        OBVIOUS
      <3>3. QED
        BY <3>1, <3>2 DEF Calls
    <2>2. QED
      BY <1>3, <1>5, <2>1 DEF ReadDaily, TypeInv, TypeOK
  <1>6. ASSUME Observe, NEW p \in Procs, ReadWeekly(p) PROVE TypeInv'
    <2>1. [call[p] EXCEPT !.at = "consecutive",
                          !.bad = @ \/ PnlSince(call[p].asked - Week) <= WeeklyLimit] \in Calls
      BY <1>6, InGuard DEF ReadWeekly, Calls
    <2>2. QED
      BY <1>3, <1>6, <2>1 DEF ReadWeekly, TypeInv, TypeOK
  <1>7. ASSUME Observe, NEW p \in Procs, ReadConsecutive(p) PROVE TypeInv'
    <2>1. [at |-> "arm"] \in Calls /\ [at |-> "simulate"] \in Calls
      BY DEF Calls
    <2>2. PICK c \in Calls : Goto(p, c)
      BY <1>7, <2>1 DEF ReadConsecutive
    <2>3. QED
      BY <1>3, <1>7, <2>2 DEF ReadConsecutive, TypeInv, TypeOK
  <1>8. ASSUME Observe, NEW p \in Procs, Arm(p) PROVE TypeInv'
    <2>1. [at |-> "record", until |-> now + Cooldown] \in Calls
      BY Numbers DEF Calls
    <2>2. QED
      BY <1>3, <1>8, <2>1 DEF Arm, TypeInv, TypeOK
  <1>9. ASSUME Observe, NEW p \in Procs, Record(p) PROVE TypeInv'
    <2> DEFINE n == Len(log)
    <2>1. /\ call[p].until \in Cooldown .. now + Cooldown /\ Goto(p, Idle) /\ Idle \in Calls
          /\ log' = Append(log, [until |-> call[p].until])
          /\ UNCHANGED <<now, trades, stats, closings, faults>>
      BY <1>9, InGuard DEF Record, Idle, Calls
    <2>2. log \in Seq([until : Int]) /\ [until |-> call[p].until] \in [until : Int]
      BY <2>1, Numbers DEF TypeInv, RowsOK
    <2>3. /\ log' \in Seq([until : Int]) /\ Len(log') = n + 1 /\ n \in Nat
          /\ DOMAIN log = 1 .. n /\ DOMAIN log' = 1 .. n + 1
          /\ log'[n + 1] = [until |-> call[p].until] /\ \A i \in 1 .. n : log'[i] = log[i]
      BY <2>1, <2>2
    <2> HIDE DEF n
    <2>4. LogTypes'
      <3>1. ASSUME NEW i \in 1 .. n + 1 PROVE log'[i].until \in Cooldown .. now + Cooldown
        <4>1. CASE i \in 1 .. n
          BY <2>3, <4>1 DEF TypeInv, TypeOK
        <4>2. CASE i = n + 1
          BY <2>1, <2>3, <4>2
        <4>3. QED
          BY <2>3, <4>1, <4>2
      <3>2. QED
        BY <2>1, <2>3, <3>1 DEF LogTypes
    <2>5. call' \in [Procs -> Calls'] /\ RowTypes' /\ trades' \in Seq(Trade)
      BY <2>1, <2>3, CallType, RowsKept, Numbers DEF n
    <2>6. QED
      BY <1>2, <1>9, <2>1, <2>3, <2>4, <2>5 DEF TypeInv, TypeOK, RowsOK, RowTypes, LogTypes
  <1>10. ASSUME Observe, NEW p \in Procs, GuardRaises(p) PROVE TypeInv'
    <2>1. [at |-> "simulate"] \in Calls /\ faults' \in 0 .. MaxFaults
      BY <1>10, Numbers, GuardAssumption DEF GuardRaises, Calls
    <2>2. QED
      BY <1>3, <1>10, <2>1 DEF GuardRaises
  <1>11. ASSUME Observe, NEW p \in Procs, Simulate(p) PROVE TypeInv'
    <2>1. Idle \in Calls /\ \A o \in Orders : [at |-> "insert", tagged |-> o.tagged] \in Calls
      BY DEF Idle, Calls, Orders
    <2>2. PICK c \in Calls : Goto(p, c)
      BY <1>11, <2>1 DEF Simulate
    <2>3. QED
      BY <1>3, <1>11, <2>2 DEF Simulate, TypeInv, TypeOK
  <1>12. ASSUME Observe, NEW p \in Procs, Insert(p) PROVE TypeInv'
    <2> DEFINE n == Len(trades)
               x == [tagged |-> call[p].tagged, closed |-> Open, outcome |-> "none", pnl |-> 0,
                     under  |-> IF ActiveCooldown THEN Len(log) ELSE 0]
    <2>1. /\ call[p].tagged \in BOOLEAN /\ Goto(p, Idle) /\ Idle \in Calls
          /\ trades' = Append(trades, x)
          /\ UNCHANGED <<now, stats, closings, faults, log>>
      BY <1>12, InGuard DEF Insert, Idle, Calls
    <2>2. /\ x \in Trade /\ trades \in Seq(Trade)
          /\ x.closed = Open /\ x.outcome = "none" /\ x.pnl = 0 /\ x.under \in 0 .. Len(log)
      BY <2>1, Numbers DEF Trade, Open, TypeInv, RowsOK
    <2> HIDE DEF x
    <2>3. /\ trades' \in Seq(Trade) /\ n \in Nat
          /\ DOMAIN trades = 1 .. n /\ DOMAIN trades' = 1 .. n + 1
          /\ trades'[n + 1] = x /\ \A i \in 1 .. n : trades'[i] = trades[i]
      BY <2>1, <2>2
    <2> HIDE DEF n
    <2>4. RowTypes'
      <3>1. ASSUME NEW i \in 1 .. n + 1 PROVE TradeOK(trades[i])'
        <4>1. CASE i \in 1 .. n
          <5>1. TradeOK(trades[i]) /\ trades'[i] = trades[i]
            BY <2>3, <4>1 DEF TypeInv, TypeOK
          <5>2. QED
            BY <2>1, <5>1 DEF TradeOK
        <4>2. CASE i = n + 1
          <5>1. trades'[i] = x /\ x.tagged \in BOOLEAN
            BY <2>2, <2>3, <4>2 DEF Trade
          <5>2. QED
            BY <2>1, <2>2, <5>1 DEF TradeOK
        <4>3. QED
          BY <2>3, <4>1, <4>2
      <3>2. QED
        BY <2>3, <3>1 DEF RowTypes
    <2>5. call' \in [Procs -> Calls'] /\ LogTypes' /\ log' \in Seq([until : Int])
      BY <2>1, CallType, LogKept, Numbers
    <2>6. QED
      BY <1>2, <1>12, <2>1, <2>3, <2>4, <2>5 DEF TypeInv, TypeOK, RowsOK, RowTypes, LogTypes
  <1>13. ASSUME Observe, NEW p \in Procs, Close(p) PROVE TypeInv'
    <2>1. PICK i \in DOMAIN trades, c \in Closings :
          /\ trades' = [trades EXCEPT ![i].closed = now, ![i].outcome = c.outcome, ![i].pnl = c.pnl]
          /\ stats' = IF ~trades[i].tagged THEN stats
                      ELSE IF c.outcome = "hit_tp" THEN [stats EXCEPT !.wins = @ + 1]
                      ELSE [stats EXCEPT !.losses = @ + 1]
      BY <1>13 DEF Close
    <2>2. /\ closings < MaxClosings /\ closings' = closings + 1
          /\ UNCHANGED <<now, faults, log, call>>
      BY <1>13 DEF Close
    <2>3. c.outcome \in {"hit_tp", "hit_sl", "manual"} /\ c.pnl \in Int
      BY GuardAssumption
    <2>4. /\ stats' \in [wins : Nat, losses : Nat] /\ stats'.wins + stats'.losses <= closings'
          /\ closings' \in 0 .. MaxClosings
      <3>1. /\ stats \in [wins : Nat, losses : Nat] /\ stats.wins + stats.losses <= closings
            /\ closings \in Nat /\ closings' = closings + 1 /\ closings < MaxClosings /\ MaxClosings \in Nat
        BY <2>2, Numbers, GuardAssumption DEF TypeInv, TypeOK, RowsOK
      <3>2. \/ stats' = stats
            \/ stats' = [stats EXCEPT !.wins = @ + 1]
            \/ stats' = [stats EXCEPT !.losses = @ + 1]
        BY <2>1
      <3>3. QED
        BY <3>1, <3>2
    <2>5. /\ DOMAIN trades' = DOMAIN trades /\ \A j \in DOMAIN trades : j # i => trades'[j] = trades[j]
          /\ trades'[i] = [trades[i] EXCEPT !.closed = now, !.outcome = c.outcome, !.pnl = c.pnl]
          /\ \A j \in DOMAIN trades : trades[j] \in Trade /\ TradeOK(trades[j])
          /\ trades \in Seq(Trade)
      BY <2>1 DEF TypeInv, TypeOK, RowsOK
    <2>6. trades'[i] \in Trade /\ TradeOK(trades[i])'
      <3>1. trades[i] \in Trade /\ trades[i].under \in 0 .. Len(log) /\ now \in Nat
        BY <2>5, Numbers DEF TradeOK
      <3>2. trades'[i] \in Trade
        <4>1. PICK t \in Trade, m \in Int, o \in {"hit_tp", "hit_sl", "manual"}, n \in Int :
                 t = trades[i] /\ m = now /\ o = c.outcome /\ n = c.pnl
          BY <2>3, <3>1
        <4>2. [t EXCEPT !.closed = m, !.outcome = o, !.pnl = n] \in Trade
          BY ClosedRow
        <4>3. QED
          BY <2>5, <4>1, <4>2
      <3>3. /\ trades'[i].tagged = trades[i].tagged /\ trades'[i].closed = now
            /\ trades'[i].outcome = c.outcome /\ trades'[i].pnl = c.pnl
            /\ trades'[i].under = trades[i].under
        BY <2>5, <3>1 DEF Trade
      <3>4. now \in 0 .. now /\ now # Open /\ trades[i].tagged \in BOOLEAN
        BY <3>1 DEF Open, Trade
      <3>5. QED
        BY <2>2, <2>3, <3>1, <3>2, <3>3, <3>4 DEF TradeOK
    <2>7. trades' \in Seq(Trade)
      <3>1. trades' = [trades EXCEPT ![i] = trades'[i]]
        BY <2>1, <2>5
      <3>2. QED
        BY <2>5, <2>6, <3>1
    <2>8. RowTypes'
      BY <2>2, <2>5, <2>6 DEF RowTypes, TradeOK
    <2>9. call' \in [Procs -> Calls'] /\ LogTypes' /\ log' \in Seq([until : Int])
      BY <2>2, LogKept, Numbers DEF TypeInv, TypeOK, Calls
    <2>10. QED
      BY <1>2, <1>13, <2>2, <2>4, <2>7, <2>8, <2>9 DEF TypeInv, TypeOK, RowsOK, RowTypes, LogTypes
  <1>14. ASSUME Observe, Tick PROVE TypeInv'
    <2>1. /\ now' \in 0 .. MaxNow /\ now' \in Nat /\ now' >= now
          /\ UNCHANGED <<trades, stats, closings, faults, log, call>>
      BY <1>14, Numbers, GuardAssumption DEF Tick
    <2>2. Calls \subseteq Calls' /\ RowTypes' /\ LogTypes' /\ RowsOK'
      BY <2>1, Numbers, CallsGrow, RowsKept, LogKept DEF TypeInv, RowsOK
    <2>3. call' \in [Procs -> Calls']
      BY <2>1, <2>2 DEF TypeInv, TypeOK
    <2>4. QED
      BY <1>2, <1>14, <2>1, <2>2, <2>3 DEF TypeInv, TypeOK, RowTypes, LogTypes
  <1>15. QED
    BY <1>1, <1>4, <1>5, <1>6, <1>7, <1>8, <1>9, <1>10, <1>11, <1>12, <1>13, <1>14
       DEF Next, Call, Quiet

LEMMA TypeInvariance == Spec => []TypeInv
  BY InitType, StepType, PTL DEF Spec

(* Rows, statistics, cool-downs and the locals of every call keep their    *)
(* types: a row is closed exactly when it has an outcome, and statistics   *)
(* count at most one result per close_trade.                               *)
THEOREM TypeCorrect == Spec => []TypeOK
  <1>1. TypeInv => TypeOK
    BY DEF TypeInv
  <1>2. QED
    BY <1>1, TypeInvariance, PTL

--------------------------------------------------------------------------------
(* Trades under a cool-down.  While the newest row is active nobody passes *)
(* its check, so every late trade was already on its way when the row was  *)
(* stored, or got past the guard by an exception: the callers on their way *)
(* and the late trades together never exceed the bound.                    *)

Late(r) == {i \in DOMAIN trades : trades[i].under = r}
Busy    == {p \in Procs : call[p] # Idle}

LateInv ==
    /\ LateTradesBounded
    /\ ActiveCooldown =>
          Cardinality(Late(Len(log))) + Cardinality(Busy) < Cardinality(Procs) + faults

Counts ==
    /\ faults \in Nat /\ IsFiniteSet(Busy) /\ Cardinality(Busy) \in Nat
    /\ IsFiniteSet(Procs) /\ Cardinality(Procs) \in Nat
    /\ \A r : IsFiniteSet(Late(r)) /\ Cardinality(Late(r)) \in Nat

LEMMA CountsNow == TypeInv => Counts
  <1> SUFFICES ASSUME TypeInv PROVE Counts
    OBVIOUS
  <1>1. IsFiniteSet(Procs) /\ Busy \in SUBSET Procs /\ faults \in Nat
    BY GuardAssumption, Numbers DEF Busy
  <1>2. IsFiniteSet(1 .. Len(trades)) /\ \A r : Late(r) \in SUBSET (1 .. Len(trades))
    BY Numbers, FS_Interval DEF Late
  <1>3. \A r : IsFiniteSet(Late(r))
    BY <1>2, FS_Subset
  <1>4. IsFiniteSet(Busy)
    BY <1>1, FS_Subset
  <1>5. QED
    BY <1>1, <1>3, <1>4, FS_CardinalityType DEF Counts

LEMMA CountsNext == TypeInv' => Counts'
  BY CountsNow, PTL

LEMMA LastElement ==
    ASSUME NEW S, NEW s \in Seq(S), s # <<>> PROVE s[Len(s)] \in S
  OBVIOUS

(* Rows keep what they are under, and no caller becomes busy unless the    *)
(* cool-down is over or an exception let it through.                       *)
LEMMA LateFrame ==
    ASSUME TypeInv, TypeInv', LateInv, UNCHANGED log,
           DOMAIN trades' = DOMAIN trades, \A i \in DOMAIN trades : trades'[i].under = trades[i].under,
           ActiveCooldown' => ActiveCooldown,
           \/ faults' = faults /\ (ActiveCooldown => Busy' \subseteq Busy)
           \/ faults' = faults + 1 /\ \E p \in Procs : Busy' \subseteq Busy \cup {p}
    PROVE  LateInv'
  <1>1. \A r : Late(r)' = Late(r)
    BY DEF Late
  <1>2. /\ \A r \in DOMAIN log : Cardinality(Late(r)) < Cardinality(Procs) + faults
        /\ \A r : Cardinality(Late(r)) \in Nat
        /\ IsFiniteSet(Busy) /\ Cardinality(Busy) \in Nat /\ Cardinality(Procs) \in Nat
        /\ Cardinality(Busy') \in Nat /\ faults \in Nat /\ faults' \in Nat
    BY CountsNow, CountsNext DEF Counts, LateInv, LateTradesBounded, Late
  <1>3. LateTradesBounded'
    <2>1. \A r \in DOMAIN log' : Cardinality(Late(r)') < Cardinality(Procs) + faults'
      BY <1>1, <1>2
    <2>2. QED
      BY <2>1 DEF LateTradesBounded, Late
  <1>4. ASSUME ActiveCooldown'
        PROVE  Cardinality(Late(Len(log))') + Cardinality(Busy') < Cardinality(Procs) + faults'
    <2>1. Late(Len(log))' = Late(Len(log))
      BY DEF Late
    <2>2. Cardinality(Late(Len(log))) + Cardinality(Busy) < Cardinality(Procs) + faults
      BY <1>4 DEF LateInv
    <2>3. CASE faults' = faults /\ Busy' \subseteq Busy
      <3>1. Cardinality(Busy') <= Cardinality(Busy)
        BY <1>2, <2>3, FS_Subset
      <3>2. QED
        BY <1>2, <2>1, <2>2, <2>3, <3>1
    <2>4. ASSUME faults' = faults + 1, NEW p \in Procs, Busy' \subseteq Busy \cup {p}
          PROVE  Cardinality(Late(Len(log))') + Cardinality(Busy') < Cardinality(Procs) + faults'
      <3>1. /\ IsFiniteSet(Busy \cup {p}) /\ Cardinality(Busy \cup {p}) \in Nat
            /\ Cardinality(Busy \cup {p}) <= Cardinality(Busy) + 1
        <4>1. /\ IsFiniteSet(Busy \cup {p})
              /\ Cardinality(Busy \cup {p}) = IF p \in Busy THEN Cardinality(Busy) ELSE Cardinality(Busy) + 1
          BY <1>2, FS_AddElement
        <4>2. QED
          BY <1>2, <4>1
      <3>2. Cardinality(Busy') <= Cardinality(Busy) + 1
        <4>1. Cardinality(Busy') <= Cardinality(Busy \cup {p})
          BY <2>4, <3>1, FS_Subset
        <4>2. QED
          BY <1>2, <3>1, <4>1
      <3>3. QED
        BY <1>2, <2>1, <2>2, <2>4, <3>2
    <2>5. QED
      BY <1>4, <2>3, <2>4
  <1>5. QED
    BY <1>3, <1>4 DEF LateInv

LEMMA InitLate == Init => LateInv
  <1> SUFFICES ASSUME Init PROVE LateInv
    OBVIOUS
  <1>1. log = <<>> /\ DOMAIN <<>> = {}
    BY DEF Init
  <1>2. QED
    BY <1>1 DEF LateInv, LateTradesBounded, ActiveCooldown

LEMMA StepLate == TypeInv /\ LateInv /\ [Next]_vars => LateInv'
  <1> SUFFICES ASSUME TypeInv, LateInv, [Next]_vars PROVE LateInv'
    OBVIOUS
  <1>0. TypeInv' /\ faults \in Nat /\ DOMAIN call = Procs
    BY StepType, Numbers
  <1>1. CASE UNCHANGED vars
    BY <1>0, <1>1, LateFrame DEF vars, ActiveCooldown, Busy
  <1>2. CASE Tick
    <2>1. /\ UNCHANGED <<trades, log, call, faults>> /\ now' = now + 1 /\ now \in Nat
      BY <1>2, Numbers DEF Tick
    <2>2. ASSUME ActiveCooldown' PROVE ActiveCooldown
      <3>1. log # <<>> /\ log[Len(log)].until > now + 1
        BY <2>1, <2>2 DEF ActiveCooldown
      <3>2. log[Len(log)].until \in Int
        <4>1. log[Len(log)] \in [until : Int]
          BY <3>1, LastElement DEF TypeInv, RowsOK
        <4>2. QED
          BY <4>1
      <3>3. QED
        BY <2>1, <3>1, <3>2 DEF ActiveCooldown
    <2>3. Busy' = Busy
      BY <2>1 DEF Busy
    <2>4. QED
      BY <1>0, <2>1, <2>2, <2>3, LateFrame
  <1>3. ASSUME NEW p \in Procs, Ask(p) PROVE LateInv'
    <2>1. ~ActiveCooldown /\ UNCHANGED <<now, log, trades, faults>>
      BY <1>3 DEF Ask
    <2>2. ~ActiveCooldown'
      BY <2>1 DEF ActiveCooldown
    <2>3. QED
      BY <1>0, <2>1, <2>2, LateFrame
  <1>4. ASSUME NEW p \in Procs,
               ReadDaily(p) \/ ReadWeekly(p) \/ ReadConsecutive(p) \/ Arm(p) \/ Simulate(p)
        PROVE  LateInv'
    <2>1. /\ UNCHANGED <<now, log, trades, faults>> /\ call[p] # Idle
          /\ \A q \in Procs : q # p => call'[q] = call[q]
      BY <1>0, <1>4, Moved DEF ReadDaily, ReadWeekly, ReadConsecutive, Arm, Simulate, Idle, Goto
    <2>2. Busy' \subseteq Busy /\ ActiveCooldown' = ActiveCooldown
      BY <2>1 DEF Busy, ActiveCooldown
    <2>3. QED
      BY <1>0, <2>1, <2>2, LateFrame
  <1>5. ASSUME NEW p \in Procs, GuardRaises(p) PROVE LateInv'
    <2>1. /\ UNCHANGED <<now, log, trades>> /\ faults' = faults + 1
          /\ \A q \in Procs : q # p => call'[q] = call[q]
      BY <1>0, <1>5 DEF GuardRaises, Goto
    <2>2. Busy' \subseteq Busy \cup {p} /\ ActiveCooldown' = ActiveCooldown
      BY <2>1 DEF Busy, ActiveCooldown
    <2>3. QED
      BY <1>0, <2>1, <2>2, LateFrame
  <1>6. ASSUME NEW p \in Procs, Close(p) PROVE LateInv'
    <2>1. PICK i \in DOMAIN trades, c \in Closings :
            trades' = [trades EXCEPT ![i].closed = now, ![i].outcome = c.outcome, ![i].pnl = c.pnl]
      BY <1>6 DEF Close
    <2>2. /\ UNCHANGED <<now, log, call, faults>>
          /\ DOMAIN trades' = DOMAIN trades /\ \A j \in DOMAIN trades : trades[j] \in Trade
      BY <1>6, <2>1 DEF Close, TypeInv, RowsOK
    <2>3. \A j \in DOMAIN trades : trades'[j].under = trades[j].under
      BY <2>1, <2>2 DEF Trade
    <2>4. Busy' = Busy /\ ActiveCooldown' = ActiveCooldown
      BY <2>2 DEF Busy, ActiveCooldown
    <2>5. QED
      BY <1>0, <2>2, <2>3, <2>4, LateFrame
  (* A caller that leaves the guard or the insert is busy no longer.       *)
  <1>7. ASSUME NEW p \in Procs, Record(p) \/ Insert(p)
        PROVE  /\ Busy' = Busy \ {p} /\ p \in Busy
               /\ Cardinality(Busy') = Cardinality(Busy) - 1
               /\ Cardinality(Busy') < Cardinality(Procs)
    <2>1. call[p] # Idle /\ call'[p] = Idle /\ \A q \in Procs : q # p => call'[q] = call[q]
      BY <1>0, <1>7 DEF Record, Insert, Goto, Idle
    <2>2. Busy' = Busy \ {p} /\ p \in Busy
      BY <2>1 DEF Busy
    <2>3. IsFiniteSet(Busy) /\ IsFiniteSet(Procs) /\ Busy \subseteq Procs
      BY CountsNow DEF Counts, Busy
    <2>4. Cardinality(Busy) <= Cardinality(Procs)
      BY <2>3, FS_Subset
    <2>5. Cardinality(Busy \ {p}) = Cardinality(Busy) - 1
      BY <2>2, <2>3, FS_RemoveElement
    <2>6. Cardinality(Busy) \in Nat /\ Cardinality(Procs) \in Nat
      BY <2>3, FS_CardinalityType
    <2>7. QED
      BY <2>2, <2>4, <2>5, <2>6
  <1>8. ASSUME NEW p \in Procs, Record(p) PROVE LateInv'
    <2> DEFINE n == Len(log)
    <2>1. UNCHANGED <<trades, faults>> /\ n \in Nat /\ DOMAIN log = 1 .. n
          /\ DOMAIN log' = 1 .. n + 1 /\ Len(log') = n + 1
      BY <1>8, Numbers DEF Record, TypeInv, RowsOK
    <2>2. \A r : Late(r)' = Late(r)
      BY <2>1 DEF Late
    <2>3. Late(n + 1) = {}
      <3>1. \A i \in DOMAIN trades : trades[i].under \in 0 .. n
        BY DEF TypeInv, TypeOK, TradeOK
      <3>2. n + 1 \notin 0 .. n
        BY <2>1
      <3>3. QED
        BY <3>1, <3>2 DEF Late
    <2> HIDE DEF n
    <2>4. /\ Cardinality(Late(n + 1)) = 0 /\ Cardinality(Busy') < Cardinality(Procs)
          /\ Cardinality(Busy') \in Nat /\ Cardinality(Procs) \in Nat
      BY <1>0, <1>7, <1>8, <2>3, FS_EmptySet, CountsNow, CountsNext DEF Counts
    <2>5. \A r \in DOMAIN log' : Cardinality(Late(r)) < Cardinality(Procs) + faults
      <3>1. \A r \in 1 .. n : Cardinality(Late(r)) < Cardinality(Procs) + faults
        BY <2>1 DEF LateInv, LateTradesBounded, Late
      <3>2. Cardinality(Late(n + 1)) < Cardinality(Procs) + faults
        BY <1>0, <2>4
      <3>3. \A r \in 1 .. n + 1 : r \in 1 .. n \/ r = n + 1
        BY <2>1
      <3>4. QED
        BY <2>1, <3>1, <3>2, <3>3
    <2>6. LateTradesBounded'
      BY <2>1, <2>5 DEF LateTradesBounded, Late
    <2>7. Late(Len(log))' = Late(n + 1)
      BY <2>1, <2>2 DEF Late
    <2>8. Cardinality(Late(Len(log))') + Cardinality(Busy') < Cardinality(Procs) + faults'
      BY <1>0, <2>1, <2>4, <2>7
    <2>9. QED
      BY <2>6, <2>8 DEF LateInv
  <1>9. ASSUME NEW p \in Procs, Insert(p) PROVE LateInv'
    <2> DEFINE n == Len(trades)
               u == IF ActiveCooldown THEN Len(log) ELSE 0
    <2>1. /\ UNCHANGED <<now, log, faults>> /\ n \in Nat /\ DOMAIN trades = 1 .. n
          /\ DOMAIN trades' = 1 .. n + 1 /\ trades'[n + 1].under = u
          /\ \A i \in 1 .. n : trades'[i] = trades[i]
      BY <1>9, Numbers DEF Insert, TypeInv, RowsOK
    <2> HIDE DEF n, u
    <2>2. \A r : r # u => Late(r)' = Late(r)
      BY <2>1 DEF Late
    <2>3. \A r : r = u => Late(r)' = Late(r) \cup {n + 1} /\ n + 1 \notin Late(r)
      BY <2>1 DEF Late
    <2>4. /\ ActiveCooldown' = ActiveCooldown
          /\ \A r : Cardinality(Late(r)) \in Nat /\ IsFiniteSet(Late(r))
          /\ Cardinality(Procs) \in Nat /\ Cardinality(Busy) \in Nat /\ Cardinality(Busy') \in Nat
          /\ Cardinality(Busy') = Cardinality(Busy) - 1
      BY <1>0, <1>7, <1>9, <2>1, CountsNow, CountsNext DEF Counts, ActiveCooldown
    <2>5. ASSUME NEW r PROVE Cardinality(Late(r)') <= Cardinality(Late(r)) + 1
      <3>1. CASE r = u
        <4>1. Cardinality(Late(r) \cup {n + 1}) = Cardinality(Late(r)) + 1
          BY <2>3, <2>4, <3>1, FS_AddElement
        <4>2. QED
          BY <2>3, <2>4, <3>1, <4>1
      <3>2. CASE r # u
        BY <2>2, <2>4, <3>2
      <3>3. QED
        BY <3>1, <3>2
    <2>6. CASE ActiveCooldown
      <3>1. u = Len(log) /\ Cardinality(Late(Len(log))) + Cardinality(Busy) < Cardinality(Procs) + faults
        BY <2>6 DEF LateInv, u
      <3>2. PICK k : k = Len(log)
        OBVIOUS
      <3>3. Cardinality(Late(k)') <= Cardinality(Late(k)) + 1
        BY <2>5
      <3>4. Cardinality(Late(k)') \in Nat
        BY <1>0, CountsNext DEF Counts
      <3>5. Cardinality(Late(k)') + Cardinality(Busy') < Cardinality(Procs) + faults
        BY <1>0, <2>4, <3>1, <3>2, <3>3, <3>4
      <3>6. LateTradesBounded'
        <4>1. ASSUME NEW r \in DOMAIN log PROVE Cardinality(Late(r)') < Cardinality(Procs) + faults
          <5>1. CASE r = k
            BY <1>0, <2>4, <3>4, <3>5, <5>1
          <5>2. CASE r # k
            BY <2>2, <3>1, <3>2, <5>2 DEF LateInv, LateTradesBounded, Late
          <5>3. QED
            BY <5>1, <5>2
        <4>2. QED
          BY <2>1, <4>1 DEF LateTradesBounded, Late
      <3>7. Late(Len(log))' = Late(k)'
        BY <2>1, <3>2 DEF Late
      <3>8. QED
        BY <2>1, <3>5, <3>6, <3>7 DEF LateInv
    <2>7. CASE ~ActiveCooldown
      <3>1. ASSUME NEW r \in DOMAIN log PROVE Late(r)' = Late(r)
        BY <2>2, <2>7, Numbers DEF u
      <3>2. LateTradesBounded'
        BY <2>1, <3>1 DEF LateInv, LateTradesBounded, Late
      <3>3. QED
        BY <2>4, <2>7, <3>2 DEF LateInv
    <2>8. QED
      BY <2>6, <2>7
  <1>10. QED
    BY <1>1, <1>2, <1>3, <1>4, <1>5, <1>6, <1>8, <1>9 DEF Next, Call, Quiet

(* A cool-down another process has just started lets through at most one   *)
(* trade per other caller, already past its check, and one per guard that  *)
(* failed open: for any number of callers, rows, trades and exceptions.    *)
THEOREM LateTradesAreFew == Spec => []LateTradesBounded
  <1>1. TypeInv /\ LateInv => LateTradesBounded
    BY DEF LateInv
  <1>2. QED
    BY <1>1, InitLate, StepLate, TypeInvariance, PTL DEF Spec

--------------------------------------------------------------------------------
(* The brake.  While hot[p] lasts nothing is closed, so the limit that was *)
(* exceeded when p fixed its windows is exceeded in what it still has to   *)
(* read, or it was met already.                                            *)

DayHit(a)  == PnlSince(a - Day) <= DailyLimit
WeekHit(a) == PnlSince(a - Week) <= WeeklyLimit
StreakHit  == SureLosses >= MaxConsecutive

HotInv ==
    \A p \in Procs : hot[p] =>
        /\ Emergency
        /\ \A a \in Nat :
            /\ call[p].at = "daily" /\ call[p].asked = a => DayHit(a) \/ WeekHit(a) \/ StreakHit
            /\ call[p].at = "weekly" /\ call[p].asked = a => call[p].bad \/ WeekHit(a) \/ StreakHit
        /\ call[p].at = "consecutive" => call[p].bad \/ StreakHit

EmergencyAt == \A a \in Nat : a = now => (Emergency <=> DayHit(a) \/ WeekHit(a) \/ StreakHit)

LEMMA EmergencyNow == EmergencyAt
  BY DEF EmergencyAt, Emergency, DayHit, WeekHit, StreakHit

LEMMA EmergencyNext == EmergencyAt'
  BY EmergencyNow, PTL

(* The sums do not change unless a trade is closed.                        *)
LEMMA SumsKept ==
    ASSUME TypeInv, \/ UNCHANGED trades
                    \/ \E x \in Trade : x.closed = Open /\ trades' = Append(trades, x)
    PROVE  (\A a : DayHit(a)' = DayHit(a) /\ WeekHit(a)' = WeekHit(a)) /\ StreakHit' = StreakHit
  <1>1. Closed' = Closed /\ \A i \in Closed : trades'[i] = trades[i]
    <2>1. CASE UNCHANGED trades
      BY <2>1 DEF Closed
    <2>2. ASSUME NEW x \in Trade, x.closed = Open, trades' = Append(trades, x)
          PROVE  Closed' = Closed /\ \A i \in Closed : trades'[i] = trades[i]
      <3> DEFINE n == Len(trades)
      <3>1. /\ n \in Nat /\ DOMAIN trades = 1 .. n /\ DOMAIN trades' = 1 .. n + 1
            /\ trades'[n + 1] = x /\ \A i \in 1 .. n : trades'[i] = trades[i]
        BY <2>2 DEF TypeInv, RowsOK
      <3> HIDE DEF n
      <3>2. QED
        BY <2>2, <3>1 DEF Closed
    <2>3. QED
      BY <2>1, <2>2
  <1>2. ASSUME NEW s PROVE PnlSince(s)' = PnlSince(s)
    <2>1. {[id |-> i, pnl |-> trades'[i].pnl] : i \in {j \in Closed' : trades'[j].closed >= s}}
          = {[id |-> i, pnl |-> trades[i].pnl] : i \in {j \in Closed : trades[j].closed >= s}}
      BY <1>1
    <2>2. QED
      BY <2>1 DEF PnlSince
  <1>3. SureLosses' = SureLosses
    <2>1. {j \in Closed : ~IsLoss(j)}' = {j \in Closed : ~IsLoss(j)}
      BY <1>1 DEF IsLoss
    <2>2. {trades'[i].closed : i \in {j \in Closed : ~IsLoss(j)}'}
          = {trades[i].closed : i \in {j \in Closed : ~IsLoss(j)}}
      BY <1>1, <2>1
    <2>3. LastWin' = LastWin
      BY <2>2 DEF LastWin
    <2>4. {i \in Closed' : trades'[i].closed > LastWin'} = {i \in Closed : trades[i].closed > LastWin}
      BY <1>1, <2>3
    <2>5. QED
      BY <2>4 DEF SureLosses
  <1>4. QED
    BY <1>2, <1>3 DEF DayHit, WeekHit, StreakHit

(* A streak that surely reached the limit is read as such.                 *)
LEMMA StreakRead ==
    ASSUME TypeInv, StreakHit, NEW n \in ConsecutiveLosses PROVE n >= MaxConsecutive
  <1>1. IsFiniteSet(1 .. Len(trades)) /\ Closed \in SUBSET (1 .. Len(trades))
    BY Numbers, FS_Interval DEF Closed
  <1>2. \A T \in SUBSET Closed : Cardinality(T) \in Nat
    BY <1>1, FS_Subset, FS_CardinalityType
  <1>3. SureLosses \in Nat
    BY <1>2 DEF SureLosses
  <1>4. TiedLosses \in Nat
    BY <1>2 DEF TiedLosses
  <1>5. QED
    BY <1>3, <1>4, Numbers DEF ConsecutiveLosses, StreakHit

LEMMA InitHot == Init => HotInv
  BY DEF Init, HotInv

(* What a step does to hot, and to a caller p that was or becomes hot.     *)
LEMMA StepHot == TypeInv /\ HotInv /\ [Next]_vars => HotInv'
  <1> SUFFICES ASSUME TypeInv, HotInv, [Next]_vars, NEW p \in Procs, hot'[p]
               PROVE  /\ Emergency'
                      /\ \A a \in Nat :
                          /\ call'[p].at = "daily" /\ call'[p].asked = a
                                => DayHit(a)' \/ WeekHit(a)' \/ StreakHit'
                          /\ call'[p].at = "weekly" /\ call'[p].asked = a
                                => call'[p].bad \/ WeekHit(a)' \/ StreakHit'
                      /\ call'[p].at = "consecutive" => call'[p].bad \/ StreakHit'
    BY DEF HotInv
  <1>0. DOMAIN call = Procs /\ now \in Nat /\ closings \in Nat
    BY Numbers
  <1>1. CASE UNCHANGED vars
    <2>1. UNCHANGED <<now, trades, call>> /\ hot[p]
      BY <1>1 DEF vars
    <2>2. Emergency' = Emergency
      BY <2>1 DEF Emergency, PnlSince, Closed, SureLosses, LastWin, IsLoss
    <2>3. QED
      BY <2>1, <2>2, SumsKept DEF HotInv
  <1>2. CASE Observe /\ (Tick \/ \E q \in Procs : Call(q))
    <2>1. Emergency' /\ closings' = closings /\ (hot[p] \/ call[p] = Idle)
      BY <1>2 DEF Observe
    <2>2. (\A a : DayHit(a)' = DayHit(a) /\ WeekHit(a)' = WeekHit(a)) /\ StreakHit' = StreakHit
      <3>1. ASSUME NEW q \in Procs, Insert(q)
            PROVE  \E x \in Trade : x.closed = Open /\ trades' = Append(trades, x)
        <4> DEFINE x == [tagged |-> call[q].tagged, closed |-> Open, outcome |-> "none", pnl |-> 0,
                         under  |-> IF ActiveCooldown THEN Len(log) ELSE 0]
        <4>1. x \in Trade /\ x.closed = Open /\ trades' = Append(trades, x)
          BY <3>1, InGuard, Numbers DEF Insert, Trade, Open
        <4>2. QED
          BY <4>1
      <3>2. ASSUME NEW q \in Procs, Close(q) PROVE FALSE
        BY <1>0, <2>1, <3>2 DEF Close
      <3>3. ASSUME NEW q \in Procs, Call(q), ~Insert(q) PROVE UNCHANGED trades
        BY <3>2, <3>3 DEF Call, Ask, ReadDaily, ReadWeekly, ReadConsecutive, Arm, Record,
                          GuardRaises, Simulate
      <3>4. Tick => UNCHANGED trades
        BY DEF Tick
      <3>5. QED
        BY <1>2, <3>1, <3>3, <3>4, SumsKept
    <2>3. CASE call'[p] = call[p]
      <3>1. CASE hot[p]
        BY <2>1, <2>2, <2>3, <3>1 DEF HotInv
      <3>2. CASE call[p] = Idle
        BY <2>1, <2>3, <3>2 DEF Idle
      <3>3. QED
        BY <2>1, <3>1, <3>2
    <2>4. CASE call'[p] # call[p]
      <3>1. Call(p)
        <4>1. ~Tick
          BY <2>4 DEF Tick
        <4>2. PICK q \in Procs : Call(q)
          BY <1>2, <4>1
        <4>3. q # p => call'[p] = call[p]
          BY <1>0, <4>2 DEF Call, Ask, ReadDaily, ReadWeekly, ReadConsecutive, Arm, Record,
                            GuardRaises, Simulate, Insert, Close, Goto
        <4>4. QED
          BY <2>4, <4>2, <4>3
      <3>2. CASE Ask(p)
        <4>1. call'[p] = [at |-> "daily", asked |-> now, bad |-> FALSE] /\ now' = now
          BY <1>0, <3>2 DEF Ask, Goto
        <4>2. DayHit(now)' \/ WeekHit(now)' \/ StreakHit'
          <5>1. PICK a \in Nat : a = now /\ a = now'
            BY <1>0, <4>1
          <5>2. DayHit(a)' \/ WeekHit(a)' \/ StreakHit'
            BY <2>1, <5>1, EmergencyNext DEF EmergencyAt
          <5>3. QED
            BY <2>2, <4>1, <5>1, <5>2
        <4>3. QED
          BY <2>1, <4>1, <4>2
      <3>3. CASE ReadDaily(p)
        <4>1. /\ call'[p] = [call[p] EXCEPT !.at = "weekly", !.bad = PnlSince(call[p].asked - Day) <= DailyLimit]
              /\ call[p].at = "daily" /\ hot[p]
          BY <1>0, <2>1, <3>3 DEF ReadDaily, Goto, Idle
        <4>2. PICK a \in Nat : call[p].asked = a
          BY <1>0, <4>1, InGuard
        <4>3. /\ call'[p].at = "weekly" /\ call'[p].asked = a
              /\ call'[p].bad <=> DayHit(a)
          BY <4>1, <4>2, InGuard DEF DayHit
        <4>4. DayHit(a) \/ WeekHit(a) \/ StreakHit
          BY <4>1, <4>2 DEF HotInv
        <4>5. QED
          BY <2>1, <2>2, <4>3, <4>4
      <3>4. CASE ReadWeekly(p)
        <4>1. /\ call'[p] = [call[p] EXCEPT !.at = "consecutive",
                                 !.bad = @ \/ PnlSince(call[p].asked - Week) <= WeeklyLimit]
              /\ call[p].at = "weekly" /\ hot[p]
          BY <1>0, <2>1, <3>4 DEF ReadWeekly, Goto, Idle
        <4>2. PICK a \in Nat : call[p].asked = a
          BY <1>0, <4>1, InGuard
        <4>3. /\ call'[p].at = "consecutive"
              /\ call'[p].bad <=> call[p].bad \/ WeekHit(a)
          BY <4>1, <4>2, InGuard DEF WeekHit
        <4>4. call[p].bad \/ WeekHit(a) \/ StreakHit
          BY <4>1, <4>2 DEF HotInv
        <4>5. QED
          BY <2>1, <2>2, <4>3, <4>4
      <3>5. CASE ReadConsecutive(p) \/ Arm(p) \/ Record(p) \/ GuardRaises(p) \/ Simulate(p)
                 \/ Insert(p) \/ Close(p)
        <4>1. call'[p].at \in {"arm", "simulate", "record", "idle", "insert"}
          <5>1. CASE ReadConsecutive(p) \/ Arm(p) \/ GuardRaises(p)
            BY <1>0, <5>1 DEF ReadConsecutive, Arm, GuardRaises, Goto
          <5>2. CASE Record(p) \/ Insert(p)
            BY <1>0, <5>2 DEF Record, Insert, Goto, Idle
          <5>3. CASE Simulate(p)
            BY <1>0, <5>3 DEF Simulate, Goto, Idle
          <5>4. Close(p) => call'[p] = call[p]
            BY DEF Close
          <5>5. QED
            BY <2>4, <3>5, <5>1, <5>2, <5>3, <5>4
        <4>2. QED
          BY <2>1, <4>1
      <3>6. QED
        BY <3>1, <3>2, <3>3, <3>4, <3>5 DEF Call
    <2>5. QED
      BY <2>3, <2>4
  <1>3. QED
    BY <1>1, <1>2 DEF Next, Quiet

(* is_trading_allowed: a caller gets past the guard only if at some moment *)
(* since it asked no limit was exceeded, if a trade was closed meanwhile,  *)
(* or by an exception; for any number of callers, trades and limits.       *)
THEOREM BrakeHolds == Spec => BrakeNeverMissed
  <1>1. TypeInv /\ HotInv /\ [Next]_vars =>
          [\A p \in Procs : (call[p].at = "consecutive" /\ call'[p].at = "simulate")
                              => ~hot[p] \/ faults' > faults]_vars
    <2> SUFFICES ASSUME TypeInv, HotInv, [Next]_vars, NEW p \in Procs,
                        call[p].at = "consecutive", call'[p].at = "simulate", hot[p]
                 PROVE  faults' > faults
      OBVIOUS
    <2>0. DOMAIN call = Procs /\ faults \in Nat
      BY Numbers
    <2>1. PICK q \in Procs : Call(q)
      BY DEF Next, Quiet, Tick, vars
    <2>2. q = p
      BY <2>0, <2>1 DEF Call, Ask, ReadDaily, ReadWeekly, ReadConsecutive, Arm, Record,
                        GuardRaises, Simulate, Insert, Close, Goto
    <2>3. CASE ReadConsecutive(p)
      <3>1. call[p].bad \/ StreakHit
        BY DEF HotInv
      <3>2. PICK n \in ConsecutiveLosses :
              call'[p] = [at |-> IF call[p].bad \/ n >= MaxConsecutive THEN "arm" ELSE "simulate"]
        BY <2>0, <2>3 DEF ReadConsecutive, Goto
      <3>3. call'[p].at = "arm"
        BY <3>1, <3>2, StreakRead
      <3>4. QED
        BY <3>3
    <2>4. CASE GuardRaises(p)
      BY <2>0, <2>4 DEF GuardRaises
    <2>5. CASE Ask(p) \/ ReadDaily(p) \/ ReadWeekly(p) \/ Arm(p) \/ Record(p)
               \/ Simulate(p) \/ Insert(p) \/ Close(p)
      <3>1. call[p].at \in {"idle", "daily", "weekly", "arm", "record", "simulate", "insert"}
        <4>1. Ask(p) \/ Close(p) => call[p].at = "idle"
          <5>1. (Ask(p) => call[p] = Idle) /\ (Close(p) => call[p] = Idle)
            BY DEF Ask, Close
          <5>2. QED
            BY <5>1 DEF Idle
        <4>2. /\ ReadDaily(p) => call[p].at = "daily"
              /\ ReadWeekly(p) => call[p].at = "weekly"
              /\ Arm(p) => call[p].at = "arm"
              /\ Record(p) => call[p].at = "record"
              /\ Simulate(p) => call[p].at = "simulate"
              /\ Insert(p) => call[p].at = "insert"
          BY DEF ReadDaily, ReadWeekly, Arm, Record, Simulate, Insert
        <4>3. QED
          BY <2>5, <4>1, <4>2
      <3>2. QED
        BY <3>1
    <2>6. QED
      BY <2>1, <2>2, <2>3, <2>4, <2>5 DEF Call
  <1>2. QED
    BY <1>1, InitHot, StepHot, TypeInvariance, PTL DEF Spec, BrakeNeverMissed
================================================================================
