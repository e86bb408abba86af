CONSTANTS
  Missing = Missing
  MinCandles = 3
  CompareCandles = 4
  MinOverlap = 2
  VolumeHistory = 2
  VolumeLookback = 3
  AllowedMissing = 1
  FillMax = 3
  WarningAt <- MCWarningAt
  CriticalAt <- MCCriticalAt
  RetentionMinutes = 100
  MaxRecords = 3
  Deliveries <- MCDeliveries
  Observations <- MCObservations
  Origins = {0, 60}
  Steps = {40, 60}
  MaxWork = 4
SPECIFICATION QualitySpec
INVARIANT FillsAreRecorded
INVARIANT DueAlertsAreHeard
INVARIANT ReplayIsFirstSeen
CHECK_DEADLOCK FALSE
