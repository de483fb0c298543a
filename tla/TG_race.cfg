CONSTANTS Procs = {p1, p2} Closings <- Results Day = 1 Week = 2 Cooldown = 1
          DailyLimit <- Daily WeeklyLimit <- Weekly MaxConsecutive = 2 MaxFaults = 1
          MaxTrades = 3 MaxClosings = 3 MaxNow = 2
SPECIFICATION Spec
INVARIANTS TypeOK LateTradesBounded
PROPERTY BrakeNeverMissed
SYMMETRY Callers
