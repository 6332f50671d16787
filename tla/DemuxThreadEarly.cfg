SPECIFICATION Spec
CHECK_DEADLOCK FALSE
CONSTANTS
  MayFail = {"probe", "args", "offset"}
  Chunks = 2
  PipeSize = 1
  FlushRounds = 2
PROPERTY CallerReleased
