--------------------------- MODULE HistoryAuditMC ---------------------------
EXTENDS HistoryAudit

CONSTANTS f1, x1

\* One forecast, one of the prices it meets.
HairlineCases == {<<f1, x1>>}
=============================================================================
