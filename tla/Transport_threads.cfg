SPECIFICATION FairSpec
CONSTANTS
  MaxAttempts = 2
  QueueSize = 2
  SampleGnss = TRUE
  RebootOnFatal = FALSE
  SlowSources = {"timer"}
INVARIANT TypeOK
INVARIANT NoSessionLeak
INVARIANT SessionIsServed
INVARIANT StateMatchesSession
INVARIANT DisconnectedMeansDown
INVARIANT RetriesApart
INVARIANT PlanKept
PROPERTY LegalTransitions
PROPERTY SettlesWhenFaultsEnd
