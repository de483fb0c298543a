CONSTANTS Requests = {r1, r2, r3} Closing = {} Long = {} Runs = {1} NoOne = NoOne
          MaxMishaps = 0
SPECIFICATION Spec
PROPERTY OnlyStopsWhenTold
