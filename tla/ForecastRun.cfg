CONSTANTS
  Cooldown = 1
  Keys = {"k1"}
  Missing = Missing
  Events = {"schedule", "manual", "manual_post"}
  PostLimit = 3
SPECIFICATION FairSpec
INVARIANT AtMostOnce
INVARIANT AcceptedIsLocked
PROPERTY DurableBeforePost
PROPERTY PostedOnlyWhenHealthy
PROPERTY ProbeEventually
