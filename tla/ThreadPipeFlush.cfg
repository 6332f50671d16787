SPECIFICATION FairSpec
CONSTANTS
    BufferSize = 5
    PipeMax = 4
    Slack = 1
    KernelSize = 7
    WriteSizes = {1, 3}
    ReadSizes = {2}
    MaxBytes = 7
    MaxTopups = 1
    FlushModes = {TRUE}
    Timeouts = FALSE
INVARIANT FlushClean
PROPERTY EveryByteDelivered
PROPERTY BothThreadsFinish
