CONSTANTS
  Missing = Missing
  MinCandles = 4
  CompareCandles = 4
  MinOverlap = 2
  VolumeHistory = 6
  VolumeLookback = 3
  Horizons = {1, 2}
  Contexts = {"c512", "c1024"}
  ContextRank <- MCRank
  Features <- MCFeatures
  FadeTable <- MCFade
  AdaptiveMin = 2
  AdaptiveFull = 4
  HistoryLimit = 4
  CorrelationMin = 3
  CorrelationFull = 6
  CalibrationMin = 3
  CalibrationWindow = 4
  ArMin = 3
  MinEvidence = 2
  StrongEvidence = 4
  ErrorBaseline = 6
  ErrorRecent = 4
  FeatureBaseline = 3
  FeatureRecent = 2
  ConformalMin = 3
  Candles = 6
  Pasts <- MCPasts
  FirstCloses <- MCBefore
  Moves <- MCMoves
  Answers <- MCAnswers
  Errata = {400}
  RollingLimit = 3
  MaxHours = 11
  MaxRuns = 2
SPECIFICATION Spec
INVARIANT OutcomesAreChecked
INVARIANT EvidencePrecedesOrigin
INVARIANT PublishedIsCoherent
PROPERTY ClaimsAreEarned
CHECK_DEADLOCK FALSE
