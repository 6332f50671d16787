SPECIFICATION RingSpec
CONSTANTS
    Grow = 3
    MaxBuffers = 12
INVARIANT SlotsHeld
PROPERTY IsQueue
CHECK_DEADLOCK FALSE
