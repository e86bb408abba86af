------------------------ MODULE PipelineHealthState ------------------------
(***************************************************************************)
(* The value kept in .state/pipeline_health.json and the operations of     *)
(* class PipelineHealth on it (src/btc_timesfm/ops/pipeline_health.py), as *)
(* functions from one value to the next.  PipelineHealth.tla drives them   *)
(* from a bare command line, ForecastRun.tla from the forecast workflow.   *)
(*                                                                         *)
(* Abstractions.  Timestamps are left out but for the only one a guard     *)
(* reads, opened_at of x_post: age is the time since then, counted up to   *)
(* Cooldown and no further.  consecutive_failures is only ever compared    *)
(* with the threshold, so it is counted up to the threshold.  The event    *)
(* list, details and failure classes are output only.                      *)
(***************************************************************************)
EXTENDS Naturals

CONSTANT Cooldown    \* x_post_cooldown_minutes, in ticks of the model's clock

ASSUME CooldownAssumption == Cooldown \in Nat \ {0}

Stages == {"market_data", "forecast", "history", "x_post"}

\* STAGE_THRESHOLDS
Threshold == [s \in Stages |-> IF s = "x_post" THEN 3 ELSE 2]

CircuitStates == {"closed", "open", "half_open"}

\* One value per class the code distinguishes: validation.status is "ok" or
\* not, drift severity is "severe" or not; "unknown" is what a missing report
\* leaves behind.
Health == [circuit  : [Stages -> CircuitStates],
           failures : [Stages -> 0 .. 3],
           age      : 0 .. Cooldown,
           market   : {"unknown", "healthy", "unhealthy"},
           drift    : {"unknown", "normal", "severe"},
           forecast : {"unknown", "success", "failure"},
           history  : {"unknown", "success", "failure"}]

\* x_post_status.json as observe_x_status reads it; "absent" when no file
XSuccesses == {"prepared", "posted", "duplicate_skipped", "duplicate_locked"}
XFailures  == {"preflight_failed", "failed"}
XStatuses  == XSuccesses \union XFailures \union {"absent"}

InitialHealth ==
    [circuit  |-> [s \in Stages |-> "closed"],
     failures |-> [s \in Stages |-> 0],
     age      |-> 0,
     market   |-> "unknown",
     drift    |-> "unknown",
     forecast |-> "unknown",
     history  |-> "unknown"]

\* mutant: opened_at survives a re-opening, so a failed probe restarts no cooldown
UpdateStageKeepsOpenedAt(h, s, circuit, failures) ==
    [h EXCEPT !.circuit  = [@ EXCEPT ![s] = circuit],
              !.failures = [@ EXCEPT ![s] = failures]]

\* item.update(...): the circuit and the count of a stage are replaced, and
\* opened_at, whose age only matters for x_post, is cleared or set to now.
UpdateStage(h, s, circuit, failures) ==
    [h EXCEPT !.circuit  = [@ EXCEPT ![s] = circuit],
              !.failures = [@ EXCEPT ![s] = failures],
              !.age      = IF s = "x_post" THEN 0 ELSE @]

RecordSuccess(h, s) == UpdateStage(h, s, "closed", 0)

FailureCount(h, s) ==
    IF h.failures[s] < Threshold[s] THEN h.failures[s] + 1 ELSE Threshold[s]

\* mutant: the count is compared before the failure is added
RecordFailureLate(h, s) ==
    UpdateStage(h, s, IF h.failures[s] = Threshold[s] THEN "open" ELSE "closed",
                FailureCount(h, s))

RecordFailure(h, s) ==
    UpdateStage(h, s, IF FailureCount(h, s) = Threshold[s] THEN "open" ELSE "closed",
                FailureCount(h, s))

\* A step outcome is "success", "failure", "cancelled" or "skipped".
Record(h, s, outcome) ==
    IF outcome = "success" THEN RecordSuccess(h, s) ELSE RecordFailure(h, s)

Normalized(outcome) == IF outcome = "success" THEN "success" ELSE "failure"

\* observe_forecast: the step outcome, then the validation report, then drift
ObserveForecastOutcome(h, outcome) ==
    [Record(h, "forecast", outcome) EXCEPT !.forecast = Normalized(outcome)]

ObserveValidation(h, outcome, validation) ==
    CASE validation = "ok"     -> [RecordSuccess(h, "market_data") EXCEPT !.market = "healthy"]
      [] validation = "failed" -> [RecordFailure(h, "market_data") EXCEPT !.market = "unhealthy"]
      [] validation = "absent" ->
             IF outcome = "success" THEN h ELSE [h EXCEPT !.market = "unknown"]

ObserveDrift(h, outcome, drift) ==
    IF drift # "absent" THEN [h EXCEPT !.drift = drift]
    ELSE IF outcome = "success" THEN h
    ELSE [h EXCEPT !.drift = "unknown"]

ObserveForecast(h, outcome, validation, drift) ==
    ObserveDrift(ObserveValidation(ObserveForecastOutcome(h, outcome), outcome, validation),
                 outcome, drift)

ObserveHistory(h, outcome) ==
    [Record(h, "history", outcome) EXCEPT !.history = Normalized(outcome)]

ObserveX(h, status) ==
    CASE status \in XSuccesses -> RecordSuccess(h, "x_post")
      [] status \in XFailures  -> RecordFailure(h, "x_post")
      [] OTHER                 -> h

(***************************************************************************)
(* publication_gate.  The x_post circuit is examined after, and            *)
(* independently of, the other blockers.                                   *)
(***************************************************************************)
\* mutant: drift is reported but does not block
SignalBlockersWithoutDrift(h, ignored) ==
    {b \in {"current_market_data_unhealthy"} : h.market = "unhealthy"}
      \union {b \in {"current_forecast_failed"} : h.forecast = "failure"}
      \union {b \in {"current_history_persistence_failed"} :
                 h.history = "failure" /\ "history" \notin ignored}

SignalBlockers(h, ignored) ==
    {b \in {"current_market_data_unhealthy"} : h.market = "unhealthy"}
      \union {b \in {"current_forecast_failed"} : h.forecast = "failure"}
      \union {b \in {"severe_model_or_feature_drift"} : h.drift = "severe"}
      \union {b \in {"current_history_persistence_failed"} :
                 h.history = "failure" /\ "history" \notin ignored}

CircuitBlockers(h, ignored) ==
    {s \in {"market_data", "forecast", "history"} \ ignored : h.circuit[s] = "open"}

\* mutant: opened_at is refreshed by every gate, so the cooldown is never over
ProbeNeverDue(h, ignored) ==
    "x_post" \notin ignored /\ h.circuit["x_post"] = "open" /\ h.age > Cooldown

\* open, and checked >= opened_at + cooldown
ProbeDue(h, ignored) ==
    "x_post" \notin ignored /\ h.circuit["x_post"] = "open" /\ h.age = Cooldown

\* mutant: only an open circuit blocks, a half-open one does not
XBlockedWhenOpen(h, ignored) ==
    "x_post" \notin ignored /\ h.circuit["x_post"] = "open" /\ ~ProbeDue(h, ignored)

XBlocked(h, ignored) ==
    /\ "x_post" \notin ignored
    /\ h.circuit["x_post"] # "closed"
    /\ ~ProbeDue(h, ignored)

GateAllows(h, ignored) ==
    SignalBlockers(h, ignored) = {} /\ CircuitBlockers(h, ignored) = {} /\ ~XBlocked(h, ignored)

\* the state the gate saves
AfterGate(h, ignored) ==
    IF ProbeDue(h, ignored)
    THEN [h EXCEPT !.circuit = [@ EXCEPT !["x_post"] = "half_open"], !.age = 0]
    ELSE h

\* a tick of the clock, as seen by an open x_post circuit
Aged(h) ==
    IF h.circuit["x_post"] = "open" /\ h.age < Cooldown THEN [h EXCEPT !.age = @ + 1] ELSE h
=============================================================================
