SPECIFICATION Spec
CONSTANTS
    JunkSize = 3
    StdMed = 1
    OkTicks = 1
    HoleTicks = 2
    SyncTicks = 4
    Streams <- JustPrograms
    MaxChunks = 8
INVARIANT LastJunkChunkHandled
