CONSTANTS
  RetryAttempts = 1
  Backoff = 1
  MissedAfter = 1
  Warning = 0
  Critical = 1
  Window = 2
SPECIFICATION FairSpec
INVARIANT OneIssue
INVARIANT SuppressedWasHeard
PROPERTY DeferredIsRetried
PROPERTY OutageIsEscalated
PROPERTY CriticalIsFiled
