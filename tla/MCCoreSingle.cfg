\* One bit flip between two ticks: the fault model SECDED is built for.
SPECIFICATION Spec
CONSTANTS
  TotalPages = 5
  PageSize = 2
  Tolerance = 2
  NumProcs = 2
  BootFrames = 1
  AluPeriod = 2
  FlipsPerTick = 1
  MaxTicks = 6
INVARIANTS
  ProcessesResume
PROPERTIES
  ReliableSpec
CHECK_DEADLOCK FALSE
