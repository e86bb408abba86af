CONSTANTS
  Cooldown = 1
  Keys = {"k1"}
  Missing = Missing
  Events = {"schedule"}
  PostLimit = 2
SPECIFICATION FairSpec
PROPERTY HalfOpenResolves
