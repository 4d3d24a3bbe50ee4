\* A queue of two events, three threads, one tick of waiting.
SPECIFICATION Spec
CONSTANTS
  QueueSize = 3
  Item <- MCItem
  NoItem = none
  none = none
  NumThreads = 3
  ScreenWidth = 2
  ScreenHeight = 1
  MouseBytes = {0, 255}
  OuterTimeout = 2
INVARIANTS
  TypeOK
  QueueIsPacked
  LocksAreFree
PROPERTIES
  InputIsFifo
  TimeoutMeansNoInput
  WaitReturns
  InputIsRead
