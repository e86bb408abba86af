-------------------------- MODULE ForecastContract --------------------------
(***************************************************************************)
(* The resources of the read-only forecast API and the contract its bodies *)
(* are validated against before they are served (api/forecast_contract.py, *)
(* ForecastService._resource and _health_state).                           *)
(*                                                                         *)
(* Abstractions.  Timestamps are numbers.  The fields of a row that are    *)
(* NOT NULL and typed in the schema meet their clause of the contract; the *)
(* ones a stored row can get wrong are kept: the order of its quantiles    *)
(* and the range of its agreement.                                         *)
(***************************************************************************)
EXTENDS Integers, FiniteSets

CONSTANT Missing    \* no file, no cursor, a null field

Healths == {"healthy", "degraded", "open"}
Circuits == {"closed", "half_open", "open"}
RequiredStages == {"market_data", "forecast", "history", "x_post"}

\* what a forecast of a stored row says: the quantiles as they are, the agreement
\* or a zero score with the label "unknown"
Resource(row) ==
    [origin_at |-> row.origin, target_at |-> row.origin + row.horizon, horizon_hours |-> row.horizon,
     model |-> row.model, forecast_id |-> <<row.origin, row.model, row.horizon>>,
     lower |-> row.quantiles[1], median |-> row.quantiles[2], upper |-> row.quantiles[3],
     score |-> IF row.agreement = Missing THEN 0 ELSE row.agreement,
     label |-> IF row.agreement = Missing THEN "unknown" ELSE "model_agreement"]

\* _validate_forecast_id: the identifier spells the key
IdViolations(f) ==
    IF f.forecast_id = <<f.origin_at, f.model, f.horizon_hours>> THEN {} ELSE {"forecast_id"}

\* the interval clause: when all three bounds are there, they are ordered
IntervalViolations(f) ==
    IF /\ Missing \notin {f.lower, f.median, f.upper}
       /\ ~(f.lower <= f.median /\ f.median <= f.upper)
    THEN {"interval"} ELSE {}

\* the confidence clause: a score from 0 to 1, in hundredths
ScoreViolations(f) == IF f.score \in 0 .. 100 THEN {} ELSE {"confidence.score"}

\* validate_forecast
Violations(f) ==
    IdViolations(f) \union IntervalViolations(f) \union ScoreViolations(f)
      \union (IF f.horizon_hours > 0 THEN {} ELSE {"horizon_hours"})

Valid(row) == Violations(Resource(row)) = {}

\* validate_historical_response: one invalid row and the whole body is withheld
PageValid(page, limit) == limit >= 1 /\ \A row \in page : Valid(row)

-----------------------------------------------------------------------------
\* the shape _health_state insists on
WellFormed(file) ==
    /\ file # Missing
    /\ file.overall \in Healths
    /\ RequiredStages \subseteq DOMAIN file.stages
    /\ \A s \in DOMAIN file.stages :
          file.stages[s].health \in Healths /\ file.stages[s].circuit \in Circuits

\* _health_state: a state that cannot be told, or one that says anything is open,
\* keeps every forecast from being read; a degraded one does not
Unavailable(file) ==
    \/ ~WellFormed(file)
    \/ file.overall = "open"
    \/ \E s \in DOMAIN file.stages : file.stages[s].circuit = "open"
=============================================================================
