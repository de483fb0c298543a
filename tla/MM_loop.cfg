CONSTANTS NumProviders = 2 MaxTurn = 3 FlushTurns = {0, 1, 2, 3} Threaded = FALSE MaxFaults = 3
SPECIFICATION Spec
INVARIANTS TypeOK TurnOrder FlushCertifies QuietAfterShutdown
PROPERTY DeliverySpec
