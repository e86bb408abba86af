CONSTANTS
  Missing = Missing
  MinCandles = 4
  CompareCandles = 4
  MinOverlap = 2
  VolumeHistory = 6
  VolumeLookback = 3
  Horizons = {1, 2}
  Contexts = {"c512", "c1024"}
  ContextRank <- MCRank
  Features <- MCFeatures
  FadeTable <- MCFade
  AdaptiveMin = 2
  AdaptiveFull = 4
  HistoryLimit = 6
  CorrelationMin = 3
  CorrelationFull = 6
  CalibrationMin = 3
  CalibrationWindow = 4
  ArMin = 3
  MinEvidence = 2
  StrongEvidence = 4
  ErrorBaseline = 2
  ErrorRecent = 2
  FeatureBaseline = 3
  FeatureRecent = 2
  ConformalMin = 3
  Exchanges <- MCExchanges
  Studies <- MCStudies
  Policies <- MCPolicies
  Candidates <- MCCandidates
  Production <- MCProduction
  ContextCandles = 4
  MinHistory = 8
  DominanceEvidence = 4
SPECIFICATION WalkSpec
INVARIANT FoldsAreKept
INVARIANT WeightsSeeThePast
INVARIANT LeadIsEvidenced
CHECK_DEADLOCK FALSE
