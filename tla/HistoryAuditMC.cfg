CONSTANTS
  Procs = {p1, p2}
  Origins = {o1}
  Models = {m1, m2}
  Ensemble = m1
  Signals = {s1}
  Forecasts = {f1, f2}
  Prices = {x1, x2}
  Hairline <- HairlineCases
  Version = 2
  None = None
  p1 = p1
  p2 = p2
  o1 = o1
  m1 = m1
  m2 = m2
  s1 = s1
  f1 = f1
  f2 = f2
  x1 = x1
  x2 = x2
SPECIFICATION AuditSpec
INVARIANT AuditedHistorySurvives
INVARIANT DrillAgreesWithAudit
PROPERTY FirstForecastStands
PROPERTY OutcomeIsFinal
CHECK_DEADLOCK FALSE
