SPECIFICATION Spec
CHECK_DEADLOCK FALSE
CONSTANTS
  StreamEnds = 0
  Scenarios <- AllStreams
  LookAhead = 2
  TicksPerChunk = 10
  Median = 3
INVARIANT HoldersUnbroken
INVARIANT RecordsOnceInOrder
INVARIANT GapsReachVideo
INVARIANT SoundCut
INVARIANT CutKeepsSync
