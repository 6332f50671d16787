SPECIFICATION Spec
CONSTANTS
  StrayGap = 50
  FrameTick = 3003
  Fps = 30
  Cases <- MCCases
  Stream <- MCStream
INVARIANT RefsSound
INVARIANT FieldsAlternate
INVARIANT DriftTrue
INVARIANT TimeCodeCountsFields
PROPERTY OnlyDoublesDropped
PROPERTY StartKept
