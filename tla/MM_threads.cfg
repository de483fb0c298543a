CONSTANTS NumProviders = 2 MaxTurn = 2 FlushTurns = {1} Threaded = TRUE MaxFaults = 1
SPECIFICATION WedgeSpec
INVARIANT Accounted
PROPERTIES EventuallyOffered TurnNeverStalls TeardownEnds
