SPECIFICATION Spec
CONSTANTS
    Recordings <- Fine
    Calls <- All
    Indexed <- Cached
    MaxFsidList = 3
    Garbage <- Leftover
    CHUNKX = 2
    ProbeChunks = 3
    Listings = {TRUE, FALSE}
    Works = {TRUE, FALSE}
INVARIANT RepliesSound
INVARIANT HandleIsOpen
PROPERTY EveryCallReturns
CHECK_DEADLOCK FALSE
