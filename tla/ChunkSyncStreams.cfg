SPECIFICATION Spec
CONSTANTS
    JunkSize = 3
    StdMed = 1
    OkTicks = 1
    HoleTicks = 2
    SyncTicks = 4
    Streams <- OrdinaryOrOdd
    MaxChunks = 8
INVARIANT ListsCounted
INVARIANT InStreamOrder
INVARIANT SyncReference
INVARIANT GapFlaggedUnlessCleared
INVARIANT Recovers
