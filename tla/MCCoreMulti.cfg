\* Up to two flips between two ticks, so that words become uncorrectable.
SPECIFICATION Spec
CONSTANTS
  TotalPages = 5
  PageSize = 2
  Tolerance = 2
  NumProcs = 2
  BootFrames = 1
  AluPeriod = 2
  FlipsPerTick = 2
  MaxTicks = 3
INVARIANTS
  TypeOK
  PagesAreOwnedOrRetired
  NoFrameIsShared
  OneFramePerProcess
  SweepLeavesMemoryClean
  QuarantineCountIsSound
PROPERTIES
  RetiredFramesStayRetired
  OrbitalResultSurvives
CHECK_DEADLOCK FALSE
