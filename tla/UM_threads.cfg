CONSTANTS m1 = m1 m2 = m2 f1 = f1 f2 = f2 None = None
          Threads = {t1, t2} Procs = {p1, p2} Contents = {m1, m2} Lines <- Bullets
          Facts = {f1, f2} Reviews <- Found MaxCalls = 4 MaxFaults = 1 MaxCrashes = 1
SPECIFICATION Spec
INVARIANTS TypeOK SurplusBounded FactsKept QuestionWaits ConfirmedSaved
PROPERTIES PermanentStays MigratedOnce
SYMMETRY Anyone
