CONSTANTS Requests = {r1, r2} Closing = {r2} Long = {r1} Runs = {1, 2} NoOne = NoOne
          MaxMishaps = 1
SPECIFICATION FairSpec
INVARIANTS TypeOK ServedOnce 
PROPERTIES ServedWhileWanted EventuallyServed CloseEnds
