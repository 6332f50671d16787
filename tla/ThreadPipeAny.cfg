SPECIFICATION Spec
CONSTANTS
    BufferSize = 5
    PipeMax = 4
    Slack = 1
    KernelSize = 4
    WriteSizes = {1, 3}
    ReadSizes = {1, 5}
    MaxBytes = 7
    MaxTopups = 1
    FlushModes = {TRUE, FALSE}
    Timeouts = TRUE
INVARIANT CountersExact
INVARIANT BackPressure
INVARIANT FifoUnlessRaced
INVARIANT NothingLostOrInvented
CHECK_DEADLOCK FALSE
