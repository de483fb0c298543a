CONSTANTS NumProviders = 2 MaxTurn = 1 FlushTurns = {0, 1} Threaded = FALSE MaxFaults = 0
SPECIFICATION WedgeSpec
PROPERTY ExitEnds
