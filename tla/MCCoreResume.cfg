\* Two flips between two ticks: the claim that execution always resumes.
SPECIFICATION Spec
CONSTANTS
  TotalPages = 5
  PageSize = 2
  Tolerance = 2
  NumProcs = 2
  BootFrames = 1
  AluPeriod = 2
  FlipsPerTick = 2
  MaxTicks = 3
INVARIANTS
  ProcessesResume
CHECK_DEADLOCK FALSE
