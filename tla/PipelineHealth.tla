--------------------------- MODULE PipelineHealth ---------------------------
(***************************************************************************)
(* pipeline_health.py used alone: any caller may run observe-forecast,     *)
(* observe-history, observe-x and gate in any order, which is what the     *)
(* command line permits and the circuit rules must survive.                *)
(***************************************************************************)
EXTENDS PipelineHealthState

VARIABLES
    health,     \* the JSON state
    streak,     \* ghost: failures of each stage observed since its last success
    probes,     \* ghost: gates that allowed a publication while the X circuit was
                \* tripped, since X was last observed
    quiet       \* ghost: ticks since X was last observed to fail, up to Cooldown

healthVars == <<health, streak, probes, quiet>>

StreakLimit == 3     \* streaks are counted up to the largest threshold

StepOutcomes == {"success", "failure"}

Counted(n, failed) == IF ~failed THEN 0 ELSE IF n < StreakLimit THEN n + 1 ELSE n

\* the streaks after stage s was observed
Tally(n, s, failed) == [n EXCEPT ![s] = Counted(@, failed)]

HealthInit ==
    /\ health = InitialHealth
    /\ streak = [s \in Stages |-> 0]
    /\ probes = 0
    /\ quiet = 0

ForecastObserved(outcome, validation, drift) ==
    /\ health' = ObserveForecast(health, outcome, validation, drift)
    /\ LET afterForecast == Tally(streak, "forecast", outcome # "success")
       IN streak' = IF validation = "absent" THEN afterForecast
                    ELSE Tally(afterForecast, "market_data", validation # "ok")
    /\ UNCHANGED <<probes, quiet>>

HistoryObserved(outcome) ==
    /\ health' = ObserveHistory(health, outcome)
    /\ streak' = Tally(streak, "history", outcome # "success")
    /\ UNCHANGED <<probes, quiet>>

XObserved(status) ==
    /\ health' = ObserveX(health, status)
    /\ streak' = IF status = "absent" THEN streak
                 ELSE Tally(streak, "x_post", status \in XFailures)
    /\ probes' = IF status = "absent" THEN probes ELSE 0
    /\ quiet' = IF status \in XFailures THEN 0 ELSE quiet

GateEvaluated(ignored) ==
    /\ health' = AfterGate(health, ignored)
    /\ probes' = IF GateAllows(health, ignored) /\ health.circuit["x_post"] # "closed"
                 THEN probes + 1 ELSE probes
    /\ UNCHANGED <<streak, quiet>>

HealthTick ==
    /\ quiet < Cooldown \/ Aged(health) # health
    /\ health' = Aged(health)
    /\ quiet' = IF quiet < Cooldown THEN quiet + 1 ELSE quiet
    /\ UNCHANGED <<streak, probes>>

HealthNext ==
    \/ \E o \in StepOutcomes, v \in {"ok", "failed", "absent"},
          d \in {"normal", "severe", "absent"} : ForecastObserved(o, v, d)
    \/ \E o \in StepOutcomes : HistoryObserved(o)
    \/ \E x \in XStatuses : XObserved(x)
    \/ \E ignored \in {{}, {"history"}} : GateEvaluated(ignored)
    \/ HealthTick

HealthSpec == HealthInit /\ [][HealthNext]_healthVars

-----------------------------------------------------------------------------
HealthTypeOK ==
    /\ health \in Health
    /\ \A s \in Stages : health.failures[s] <= Threshold[s]
    /\ streak \in [Stages -> 0 .. StreakLimit]
    /\ probes \in Nat
    /\ quiet \in 0 .. Cooldown

\* However the commands are interleaved, a circuit is tripped exactly when as
\* many failures as its threshold have been observed since the last success:
\* neither the half-open excursion of x_post nor the reset in record_success
\* loses or invents a failure.
TrippedIffPersistent ==
    \A s \in Stages : (health.circuit[s] # "closed") <=> (streak[s] >= Threshold[s])

\* A tripped X circuit lets at most one publication through between two
\* observations of X, and has left "open" by then: the second gate of the run,
\* or the gate of another run, does not get a second probe out of it.
OneProbe ==
    /\ probes <= 1
    /\ probes = 1 => health.circuit["x_post"] = "half_open"

\* A publication let through by a tripped X circuit comes a whole cooldown
\* after the last X failure anyone observed, the failed probe that restarted
\* the cooldown included.
ProbeNeedsCooldown == [][probes' > probes => quiet = Cooldown]_healthVars
=============================================================================
