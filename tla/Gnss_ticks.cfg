SPECIFICATION Spec
CONSTANTS
  FixTimeout = 1
  TicksPerSecond = 3
  MsPerSecond = 2
  Overrun = 1
  QueueSize = 1
INVARIANT WaitIsBounded
