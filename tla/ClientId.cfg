SPECIFICATION IdSpec
CONSTANTS
  MaxAttempts = 2
  QueueSize = 2
  SampleGnss = TRUE
  RebootOnFatal = TRUE
  SlowSources = {"timer"}
  Ids = {i1, i2}
  CustomId = i1
  HwId = i2
INVARIANT KnowsNetwork
INVARIANT WillIsSessions
INVARIANT TopicsKept
