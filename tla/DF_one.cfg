CONSTANTS Oracles = {o1, o2} Raters = {r1} Syncers = {s1, s2}
          Processes = {{o1, s1}, {o2, r1}, {s2}}
          Kinds = {"usable", "mute", "malformed"}
          MaxDecisions = 2 MaxRewrites = 1 MaxFaults = 1 MaxCrashes = 1 MaxOverlaps = 1 MaxNow = 2 MaxFed = 5
SPECIFICATION Spec
INVARIANTS TypeOK LogKept OnceWhileReadable NoneSkipped
PROPERTY EventuallyFed
