SPECIFICATION StatusSpec
CONSTANTS
  MaxAttempts = 1
  QueueSize = 1
  SampleGnss = TRUE
  RebootOnFatal = TRUE
  SlowSources = {"timer"}
INVARIANT UpIsOnline
INVARIANT UpIsSubscribed
