SPECIFICATION Spec
CONSTANTS
  MaxAttempts = 2
  QueueSize = 2
  SampleGnss = TRUE
  RebootOnFatal = TRUE
  SlowSources = {"timer", "network", "data"}
INVARIANT ReconnectPlanned
