SPECIFICATION Spec
CONSTANTS
    Recordings <- Every
    Programs <- ChunksOrBlocks
    Indexed <- Cached
    MaxFsidList = 3
    Garbage <- Leftover
    CHUNKX = 2
    ProbeChunks = 3
    Listings = {TRUE, FALSE}
    Works = {TRUE}
INVARIANT NumbersSound
INVARIANT NothingLeftBehind
INVARIANT ServedChunk
INVARIANT ServedBlock
CHECK_DEADLOCK FALSE
