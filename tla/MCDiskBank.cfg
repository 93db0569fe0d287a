SPECIFICATION Spec
CONSTANTS
    Names = {"0080aab", "0080aac"}
    Genomes = {"g1", "g2"}
    FlushEvery = 2
    QueueLimit = 1
    MaxTroubles = 2
INVARIANTS IndexedHasFile LastHandedIsKept
PROPERTY JobsLeaveTheQueue
