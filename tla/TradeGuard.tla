------------------------------- MODULE TradeGuard -------------------------------
(***************************************************************************)
(* The trade log and its emergency brake (memory/trading/).                *)
(*                                                                         *)
(* log_trade asks is_trading_allowed, then the signal simulator, then      *)
(* inserts the trade.  Each step opens a connection of its own, so the     *)
(* processes that share trades.db (gateway, Telegram bot, CLI) interleave  *)
(* between any two of them; one SQL transaction is one step.  Time is a    *)
(* counter of ticks; a window and a cool-down last a number of ticks.      *)
(***************************************************************************)
EXTENDS Integers, Sequences, FiniteSets, FiniteSetsExt

CONSTANTS
    Procs,          (* callers of log_trade and close_trade, one call at a time each *)
    Closings,       (* the results a trade may be closed with *)
    Day, Week,      (* the windows of the loss sums, in ticks *)
    Cooldown,       (* cooldown_hours, in ticks *)
    DailyLimit, WeeklyLimit, MaxConsecutive,   (* EMERGENCY_RULES *)
    MaxTrades,      (* bound: no call is begun once so many trades are logged *)
    MaxClosings,    (* bound: calls of close_trade *)
    MaxFaults,      (* bound: reads or writes of trades.db that raise inside the guard *)
    MaxNow          (* bound: ticks *)

ASSUME GuardAssumption ==
    /\ IsFiniteSet(Procs)
    /\ Closings \subseteq [outcome : {"hit_tp", "hit_sl", "manual"}, pnl : Int]
    /\ Day \in Nat /\ Week \in Nat /\ Cooldown \in Nat
    /\ DailyLimit \in Int /\ WeeklyLimit \in Int /\ MaxConsecutive \in Nat
    /\ MaxFaults \in Nat /\ MaxTrades \in Nat /\ MaxClosings \in Nat /\ MaxNow \in Nat

VARIABLES
    now,        (* time.time() *)
    trades,     (* rows of trades, by id *)
    stats,      (* the pattern_stats row of the one pattern in use *)
    closings,   (* calls of close_trade so far *)
    faults,     (* guards cut short by an exception so far *)
    log,        (* rows of emergency_log, by id *)
    call,       (* per caller: where it is in log_trade, with its live locals *)
    hot         (* history, per caller: since it asked, a limit was exceeded in every state
                   and no trade was closed *)

vars == <<now, trades, stats, closings, faults, log, call, hot>>

Open == -1      (* closed_at IS NULL *)
Ratios == {"none", "weak", "plain", "good"}   (* no tp/sl; rr < 1; 1 <= rr < 2; rr >= 2 *)
Orders == [tagged : BOOLEAN, rr : Ratios]

(* asked is `now` of check_emergency_conditions, bad says that a limit read *)
(* so far is exceeded, until is the cooldown_until about to be stored.      *)
Idle  == [at |-> "idle"]
Calls == [at : {"idle", "arm", "simulate"}]
    \cup [at : {"daily", "weekly", "consecutive"}, asked : 0 .. now, bad : BOOLEAN]
    \cup [at : {"record"}, until : Cooldown .. now + Cooldown]
    \cup [at : {"insert"}, tagged : BOOLEAN]

Init ==
    /\ now = 0 /\ trades = <<>> /\ closings = 0 /\ faults = 0 /\ log = <<>>
    /\ stats = [wins |-> 0, losses |-> 0]
    /\ call = [p \in Procs |-> Idle]
    /\ hot = [p \in Procs |-> FALSE]

--------------------------------------------------------------------------------
(* What the queries return.                                                *)

Closed == {i \in DOMAIN trades : trades[i].closed # Open}
Total(rows) == MapThenSumSet(LAMBDA r : r.pnl, rows)
PnlSince(since) ==
    Total({[id |-> i, pnl |-> trades[i].pnl] : i \in {j \in Closed : trades[j].closed >= since}})
IsLoss(i) == trades[i].outcome = "hit_sl" \/ trades[i].pnl < 0

(* Rows closed in the same second come in no particular order, so those    *)
(* that tie with the last win count or not.                                *)
LastWin == Max({Open} \cup {trades[i].closed : i \in {j \in Closed : ~IsLoss(j)}})
SureLosses == Cardinality({i \in Closed : trades[i].closed > LastWin})
TiedLosses == Cardinality({i \in Closed : IsLoss(i) /\ trades[i].closed = LastWin})
ConsecutiveLosses == SureLosses .. SureLosses + TiedLosses

(* Only the newest row counts.                                             *)
ActiveCooldown == log # <<>> /\ log[Len(log)].until > now

(* round(score) >= 75, where score = timeframe + order_block + 35 and a    *)
(* pattern with three samples or more replaces order_block by 25 * wins/n. *)
(* All terms are scaled by 2 * n to stay in the integers; a score of 74.5  *)
(* rounds to 74.                                                           *)
SignalStrong(o) ==
    LET sampled   == o.tagged /\ stats.wins + stats.losses >= 3
        n         == IF sampled THEN stats.wins + stats.losses ELSE 1
        history   == IF sampled THEN 25 * stats.wins ELSE 20
        block     == Max({0, history - (IF o.rr = "weak" THEN 6 * n ELSE 0)})
        timeframe == 24 - (IF sampled /\ 100 * stats.wins < 40 * n THEN 8 ELSE 0)
                        + (CASE o.rr = "weak" -> -4 [] o.rr = "good" -> 3 [] OTHER -> 0)
    IN  2 * block + 2 * n * (timeframe + 35) > 149 * n

Goto(p, c) == call' = [call EXCEPT ![p] = c]

--------------------------------------------------------------------------------
(* Mutants: each is the definition it is named after with a plausible bug  *)
(* in it.  They are not part of the specification.                         *)

(* The emergency is stored, and the trade that met it goes through.        *)
RecordAllows(p) ==
    /\ call[p].at = "record" /\ Goto(p, [at |-> "simulate"])
    /\ log' = Append(log, [until |-> call[p].until])
    /\ UNCHANGED <<now, trades, stats, closings, faults>>

(* One loss more than the rule allows.                                     *)
ReadConsecutiveOffByOne(p) ==
    /\ call[p].at = "consecutive"
    /\ \E n \in ConsecutiveLosses :
          Goto(p, [at |-> IF call[p].bad \/ n > MaxConsecutive THEN "arm" ELSE "simulate"])
    /\ UNCHANGED <<now, trades, stats, closings, faults, log>>

(* The statistics are written again by a retry of the same call.           *)
CloseCountsTwice(p) ==
    /\ call[p] = Idle /\ closings < MaxClosings
    /\ \E i \in DOMAIN trades, c \in Closings :
          /\ trades' = [trades EXCEPT ![i].closed = now, ![i].outcome = c.outcome, ![i].pnl = c.pnl]
          /\ stats' = IF ~trades[i].tagged THEN stats
                      ELSE IF c.outcome = "hit_tp" THEN [stats EXCEPT !.wins = @ + 2]
                      ELSE [stats EXCEPT !.losses = @ + 2]
    /\ closings' = closings + 1
    /\ UNCHANGED <<now, faults, log, call>>

--------------------------------------------------------------------------------
(* log_trade, one transaction at a time.                                   *)

(* is_trading_allowed reads the newest emergency row; an active cool-down  *)
(* refuses the trade.  Otherwise check_emergency_conditions fixes its      *)
(* windows at the present second.                                          *)
Ask(p) ==
    /\ call[p] = Idle /\ Len(trades) < MaxTrades /\ ~ActiveCooldown
    /\ Goto(p, [at |-> "daily", asked |-> now, bad |-> FALSE])
    /\ UNCHANGED <<now, trades, stats, closings, faults, log>>

ReadDaily(p) ==
    /\ call[p].at = "daily"
    /\ Goto(p, [call[p] EXCEPT !.at = "weekly", !.bad = PnlSince(call[p].asked - Day) <= DailyLimit])
    /\ UNCHANGED <<now, trades, stats, closings, faults, log>>

ReadWeekly(p) ==
    /\ call[p].at = "weekly"
    /\ Goto(p, [call[p] EXCEPT !.at = "consecutive",
                               !.bad = @ \/ PnlSince(call[p].asked - Week) <= WeeklyLimit])
    /\ UNCHANGED <<now, trades, stats, closings, faults, log>>

ReadConsecutive(p) ==
    /\ call[p].at = "consecutive"
    /\ \E n \in ConsecutiveLosses :
          Goto(p, [at |-> IF call[p].bad \/ n >= MaxConsecutive THEN "arm" ELSE "simulate"])
    /\ UNCHANGED <<now, trades, stats, closings, faults, log>>

(* activate_emergency_stop computes the end of the cool-down ...           *)
Arm(p) ==
    /\ call[p].at = "arm"
    /\ Goto(p, [at |-> "record", until |-> now + Cooldown])
    /\ UNCHANGED <<now, trades, stats, closings, faults, log>>

(* ... and stores it; the trade is refused.                                *)
Record(p) ==
    /\ call[p].at = "record" /\ Goto(p, Idle)
    /\ log' = Append(log, [until |-> call[p].until])
    /\ UNCHANGED <<now, trades, stats, closings, faults>>

(* Any exception inside the guard allows the trade, even one raised by the *)
(* first read while a cool-down is active.                                 *)
GuardRaises(p) ==
    /\ faults < MaxFaults /\ faults' = faults + 1
    /\ \/ call[p] = Idle /\ Len(trades) < MaxTrades
       \/ call[p].at \in {"daily", "weekly", "consecutive", "arm", "record"}
    /\ Goto(p, [at |-> "simulate"])
    /\ UNCHANGED <<now, trades, stats, closings, log>>

(* simulate_trade: a weak score refuses the trade.                         *)
Simulate(p) ==
    /\ call[p].at = "simulate"
    /\ \E o \in Orders :
          Goto(p, IF SignalStrong(o) THEN [at |-> "insert", tagged |-> o.tagged] ELSE Idle)
    /\ UNCHANGED <<now, trades, stats, closings, faults, log>>

Insert(p) ==
    /\ call[p].at = "insert" /\ Goto(p, Idle)
    /\ trades' = Append(trades,
           [tagged |-> call[p].tagged, closed |-> Open, outcome |-> "none", pnl |-> 0,
            under  |-> IF ActiveCooldown THEN Len(log) ELSE 0])
    /\ UNCHANGED <<now, stats, closings, faults, log>>

(* close_trade takes any id, a closed trade's too; the update and the      *)
(* statistics commit together.  A missing id changes nothing.              *)
Close(p) ==
    /\ call[p] = Idle /\ closings < MaxClosings
    /\ \E i \in DOMAIN trades, c \in Closings :
          /\ trades' = [trades EXCEPT ![i].closed = now, ![i].outcome = c.outcome, ![i].pnl = c.pnl]
          /\ stats' = IF ~trades[i].tagged THEN stats
                      ELSE IF c.outcome = "hit_tp" THEN [stats EXCEPT !.wins = @ + 1]
                      ELSE [stats EXCEPT !.losses = @ + 1]
    /\ closings' = closings + 1
    /\ UNCHANGED <<now, faults, log, call>>

Tick ==
    /\ now < MaxNow /\ now' = now + 1
    /\ UNCHANGED <<trades, stats, closings, faults, log, call>>

--------------------------------------------------------------------------------
(* A limit is exceeded, whatever the order of the rows.                    *)
Emergency == \/ PnlSince(now - Day) <= DailyLimit
             \/ PnlSince(now - Week) <= WeeklyLimit
             \/ SureLosses >= MaxConsecutive

Observe == hot' = [p \in Procs |-> /\ Emergency' /\ closings' = closings
                                   /\ hot[p] \/ (call[p] = Idle /\ Emergency)]

Call(p) == \/ Ask(p) \/ ReadDaily(p) \/ ReadWeekly(p) \/ ReadConsecutive(p)
           \/ Arm(p) \/ Record(p) \/ GuardRaises(p)
           \/ Simulate(p) \/ Insert(p) \/ Close(p)

(* Between calls nothing need happen; a refused call changes nothing.      *)
Quiet == (\A p \in Procs : call[p] = Idle) /\ UNCHANGED vars

Next == \/ ((\E p \in Procs : Call(p)) \/ Tick) /\ Observe
        \/ Quiet

Spec == Init /\ [][Next]_vars

--------------------------------------------------------------------------------
TradeOK(t) ==
    /\ t.tagged \in BOOLEAN /\ t.closed \in {Open} \cup 0 .. now
    /\ t.outcome \in {"none", "hit_tp", "hit_sl", "manual"} /\ t.pnl \in Int
    /\ t.under \in 0 .. Len(log)
    /\ t.closed = Open <=> t.outcome = "none"

(* The types of the rows and of each call's locals: a row is closed exactly *)
(* when it has an outcome, and the statistics count at most one result per  *)
(* close_trade.                                                             *)
TypeOK ==
    /\ now \in 0 .. MaxNow /\ closings \in 0 .. MaxClosings /\ faults \in 0 .. MaxFaults
    /\ \A i \in DOMAIN trades : TradeOK(trades[i])
    /\ stats.wins \in Nat /\ stats.losses \in Nat /\ stats.wins + stats.losses <= closings
    /\ \A i \in DOMAIN log : log[i].until \in Cooldown .. now + Cooldown
    /\ call \in [Procs -> Calls] /\ hot \in [Procs -> BOOLEAN]

(* log_trade checks the brake and inserts in separate transactions, so a   *)
(* trade can slip in under a cool-down another process has just started:   *)
(* at most one per other process, already past its check, and one per      *)
(* guard that failed open.                                                 *)
LateTradesBounded ==
    \A r \in DOMAIN log :
        Cardinality({i \in DOMAIN trades : trades[i].under = r}) < Cardinality(Procs) + faults

(* is_trading_allowed "returns False when the system is in emergency": a   *)
(* caller is past the guard only if, at some moment since it asked, no     *)
(* limit was exceeded, although its windows were fixed when it asked.  A   *)
(* trade closed by another process meanwhile excuses it: the three sums    *)
(* are read by three queries.  So does an exception, which fails open.     *)
BrakeNeverMissed ==
    [][\A p \in Procs :
          (call[p].at = "consecutive" /\ call'[p].at = "simulate") => ~hot[p] \/ faults' > faults]_vars
================================================================================
