SPECIFICATION Spec
CONSTANTS
  MaxAttempts = 2
  QueueSize = 2
  SampleGnss = FALSE
  RebootOnFatal = TRUE
  SlowSources = {"timer", "network"}
INVARIANT NoSessionWithoutNetwork
