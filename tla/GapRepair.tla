----------------------------- MODULE GapRepair ------------------------------
(***************************************************************************)
(* Missing candles: what is filled from the secondary provider, what the   *)
(* gap policy decides and which alerts are due (data/gap_detection.py,     *)
(* ops/gap_alerting.py).  Series are those of MarketData.                  *)
(***************************************************************************)
EXTENDS MarketData

CONSTANTS
    AllowedMissing,     \* candles an uncovered gap may have
    FillMax,            \* candles of the largest gap that is backfilled
    WarningAt,          \* metric -> the value that warns, 0 for never
    CriticalAt          \* metric -> the value that is critical

Metrics == {"gaps_detected", "missing_candles_total", "silent_fill_candidates", "withhold_gaps"}

ASSUME GapAssumption ==
    /\ AllowedMissing \in Nat \ {0} /\ FillMax \in Nat /\ FillMax >= AllowedMissing
    /\ WarningAt \in [Metrics -> Nat] /\ CriticalAt \in [Metrics -> Nat]
    /\ \A m \in Metrics : CriticalAt[m] >= WarningAt[m]

-----------------------------------------------------------------------------
\* Gaps

\* the expected stamps between two successive ones of the series
MissingStamps(stamps) ==
    UNION {{t + Hour * k : k \in 1 .. ((Min({u \in stamps : u > t}) - t) \div Hour) - 1} :
              t \in {s \in stamps : \E u \in stamps : u > s}}

\* a gap is a maximal run of missing stamps
Gaps(stamps) ==
    LET missing == MissingStamps(stamps)
        Reaches(first, t) == \A k \in 0 .. ((t - first) \div Hour) : first + Hour * k \in missing
    IN  {{t \in missing : t >= first /\ (t - first) % Hour = 0 /\ Reaches(first, t)} :
            first \in {t \in missing : t - Hour \notin missing}}

\* decide_gap
Action(gap, covered, comparison) ==
    LET n == Cardinality(gap)
        covers == gap \subseteq covered
    IN  IF n > FillMax THEN "withhold"
        ELSE IF covers /\ comparison = "ok" THEN "fill"
        ELSE IF covers \/ n <= AllowedMissing THEN "degrade"
        ELSE "withhold"

\* apply_gap_policy: the gravest action decides
PolicyApplied(actions) ==
    CHOOSE a \in actions \cup {"none"} :
        \/ a = "withhold"
        \/ a = "degrade" /\ "withhold" \notin actions
        \/ a = "fill" /\ actions \subseteq {"fill"}
        \/ a = "none" /\ actions = {}

\* detect_silent_fills: the rows a naive merge would take over
SilentFills(primary, secondary) ==
    LET have == Stamps(primary)
        anchor == IF have = {} THEN 0 ELSE Min(have)
    IN  (MissingStamps(have) \cap Stamps(secondary))
        \cup {t \in Stamps(secondary) \ have : (t - anchor) % Hour # 0}

-----------------------------------------------------------------------------
\* Backfill

\* A gap of at most FillMax candles takes every candle the secondary has of it,
\* whatever decide_gap says of the gap.
Fills(primary, secondary) ==
    (UNION {gap \in Gaps(Stamps(primary)) : Cardinality(gap) <= FillMax}) \cap Stamps(secondary)

\* the candles, all of different stamps, in the order of time
SetToSeries(candles) ==
    [k \in 1 .. Cardinality(candles) |->
        CHOOSE c \in candles : Cardinality({d \in candles : d.at < c.at}) = k - 1]
CandleAt(series, at) == series[Max({i \in DOMAIN series : series[i].at = at})]

\* mutant: a repeated backfill stamps its records anew
BackfillAnew(primary, secondary, existing, now) ==
    LET fills == Fills(primary, secondary)
        have == Stamps(primary)
    IN  [series |-> SetToSeries({CandleAt(primary, t) : t \in have}
                                \cup {CandleAt(secondary, t) : t \in fills}),
         provenance |-> [t \in fills |-> now]]

\* backfill_from_secondary: the merged series and the provenance of its filled
\* candles, stamp -> when it was filled; the first record of a candle stays
Backfill(primary, secondary, existing, now) ==
    LET fills == Fills(primary, secondary)
        have == Stamps(primary)
        recorded == (DOMAIN existing \cup fills) \cap (have \cup fills)
    IN  [series |-> SetToSeries({CandleAt(primary, t) : t \in have}
                                \cup {CandleAt(secondary, t) : t \in fills}),
         provenance |-> [t \in recorded |-> IF t \in DOMAIN existing THEN existing[t] ELSE now]]

NoProvenance == [t \in {} |-> 0]

\* verify_backfill_idempotency
Idempotent(primary, secondary, now) ==
    LET first == Backfill(primary, secondary, NoProvenance, now)
    IN  Backfill(first.series, secondary, first.provenance, now) = first

\* build_reconciliation_report
Reconciliation(primary, secondary, existing, now) ==
    LET gaps == Gaps(Stamps(primary))
        comparison == CompareCloses(primary, secondary)
        ActionOf(gap) == Action(gap, Stamps(secondary), comparison)
        withheld == {gap \in gaps : ActionOf(gap) = "withhold"}
        filled == Backfill(primary, secondary, existing, now)
        Value(m) ==
            CASE m = "gaps_detected" -> Cardinality(gaps)
              [] m = "missing_candles_total" -> Cardinality(UNION gaps)
              [] m = "silent_fill_candidates" -> Cardinality(SilentFills(primary, secondary))
              [] m = "withhold_gaps" -> Cardinality(withheld)
    IN  [policy |-> PolicyApplied({ActionOf(gap) : gap \in gaps}),
         series |-> filled.series, provenance |-> filled.provenance,
         idempotent |-> Idempotent(primary, secondary, now),
         summary |-> [m \in Metrics |-> Value(m)]]

-----------------------------------------------------------------------------
\* Alerts

\* evaluate_gap_alerts: [metric, level] of every threshold that is reached, and
\* a critical alert of its own for a withheld forecast no threshold reports
DueAlerts(summary) ==
    LET critical == {m \in Metrics : summary[m] >= CriticalAt[m]}
        warning == {m \in Metrics \ critical : WarningAt[m] > 0 /\ summary[m] >= WarningAt[m]}
    IN  {[metric |-> m, level |-> "critical"] : m \in critical}
        \cup {[metric |-> m, level |-> "warning"] : m \in warning}
        \cup {a \in {[metric |-> "forecast_withheld", level |-> "critical"]} :
                /\ summary["withhold_gaps"] > 0
                /\ "withhold_gaps" \notin critical \cup warning}

DedupMinutes == 60

\* mutant: a metric that has alerted is quiet, whatever the level
EmittedPerMetric(alerts, alerted, now) ==
    {a \in alerts : \A b \in DOMAIN alerted :
                        b.metric = a.metric => now - alerted[b] >= DedupMinutes}

\* GapAlertMonitor.record: the alerts that are not repeated within the
\* deduplication time; a level is a key of its own
Emitted(alerts, alerted, now) ==
    {a \in alerts : a \in DOMAIN alerted => now - alerted[a] >= DedupMinutes}

\* the order in which evaluate_gap_alerts lists its alerts, one for a metric
MetricOrder == <<"gaps_detected", "missing_candles_total", "silent_fill_candidates",
                 "withhold_gaps", "forecast_withheld">>

\* the alerts of the first n metrics: those a monitor killed in its loop has written
UpToMetric(alerts, n) == {a \in alerts : \E i \in 1 .. n : a.metric = MetricOrder[i]}

Stamped(times, alerts, now) ==
    [a \in (DOMAIN times) \cup alerts |-> IF a \in alerts THEN now ELSE times[a]]

AfterAlerts(alerts, alerted, now) == Stamped(alerted, Emitted(alerts, alerted, now), now)

=============================================================================
