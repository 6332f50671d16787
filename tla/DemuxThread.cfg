SPECIFICATION Spec
CHECK_DEADLOCK FALSE
CONSTANTS
  MayFail = {"probe", "args", "offset", "sequence", "repair"}
  Chunks = 4
  PipeSize = 1
  FlushRounds = 3
INVARIANT HandOverSound
INVARIANT OffsetBeforeData
PROPERTY ProgramEnds
