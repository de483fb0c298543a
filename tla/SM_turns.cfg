CONSTANTS Writers = {w1, w2} Size = 2 Promote = 2 MaxMessages = 6
SPECIFICATION Spec
INVARIANTS TypeOK SessionTiled EpisodesConsecutive FactBacked
PROPERTY FactNeverRegresses
SYMMETRY Anyone
