------------------------------ MODULE MCTradeGuard ------------------------------
(* Small instances of TradeGuard.  Two losses on end reach MaxConsecutive, *)
(* two in a Day the daily limit, three in a Week the weekly one.           *)
EXTENDS TradeGuard, TLC

Profit  == [outcome |-> "hit_tp", pnl |-> 1]
Loss    == [outcome |-> "manual", pnl |-> -1]
Results == {Profit, Loss}
Daily   == -2
Weekly  == -3

(* Callers differ in nothing but their name.                               *)
Callers == Permutations(Procs)
================================================================================
