CONSTANTS
    Missing = Missing
    Horizons = {2, 4}
    MaxComparisons = 9
    MinSegmentPairs = 2
    Deployed = "production"
    MaxWrites = 3
    MaxEvaluations = 2
    Reports <- MCReports
    Healths <- MCHealths
    OutcomesOf <- MCOutcomes
    LiveReports <- MCLiveReports
SPECIFICATION Spec
INVARIANT ReviewIsStricter
INVARIANT RollbackIsSustained
PROPERTY OnlyRecommends
CHECK_DEADLOCK FALSE
