SPECIFICATION LocationSpec
CONSTANTS
  FixTimeout = 2
  TicksPerSecond = 2
  MsPerSecond = 2
  Overrun = 1
  QueueSize = 2
  Dec = 2
  Parts = 4
  Degrees = 1
INVARIANT TypeOK
INVARIANT ReceiverIsKnown
INVARIANT StoppedUnlessFailed
INVARIANT NoPositionTwice
INVARIANT NearestCoordinate
INVARIANT NearestAccuracy
PROPERTY AnswersEachRequest
