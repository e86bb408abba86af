CONSTANTS
  Missing = Missing
  Origins = {1, 2}
  Horizons = {1, 2}
  Models = {1, 2}
  FaultyModel = 2
  Filters <- SmallFilters
  HealthFiles <- SmallHealthFiles
  PageSize = 3
  Limit = 2
  Window = 2
  AuditMax = 1
  Backups = 3
  MaxAge = 3
  MaxTime = 5
  MaxRequests = 5
SPECIFICATION Spec
CHECK_DEADLOCK FALSE
INVARIANT WalkIsExact
INVARIANT SiteWalkMissesNothing
INVARIANT RetryIsHonoured
