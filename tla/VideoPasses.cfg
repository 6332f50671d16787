SPECIFICATION Spec
CONSTANTS
  Series = {"S1", "S2"}
  Modes = {TRUE, FALSE}
  Rounds <- RegularRounds
  OddRounds <- SomeOddRounds
  InitMin = 8
  RepairMin = 5
  GopMin = 2
  AfterGapMin = 2
  CloseTries = 1
  KeepFrames = 8
  ChunkStarts = {1, 4, 7}
  MaxRounds = 3
  MaxOdd = 2
INVARIANT FrontiersSound
INVARIANT GapMeansRepair
INVARIANT NoSeqLeftBehind
INVARIANT NoneLags
PROPERTY GopsChecked
