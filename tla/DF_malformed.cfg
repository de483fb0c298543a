CONSTANTS Oracles = {o1} Raters = {} Syncers = {s1}
          Processes = {{o1, s1}}
          Kinds = {"usable", "mute", "malformed"}
          MaxDecisions = 3 MaxRewrites = 0 MaxFaults = 0 MaxCrashes = 0 MaxOverlaps = 0 MaxNow = 3 MaxFed = 2
SPECIFICATION Spec
INVARIANT OncePerDecision
