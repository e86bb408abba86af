---------------------------- MODULE DataQuality -----------------------------
(***************************************************************************)
(* The files that tell how good the inputs of the forecasts were: the gap  *)
(* report with its provenance, the state and the log of the gap alerts,    *)
(* the state of source health and the retained optional sources.           *)
(*                                                                         *)
(* Reports are made by hand or from tests, each with or without the        *)
(* provenance of the one before; the monitor may be killed between two     *)
(* alerts, or before it saves its state.  Forecast runs observe the        *)
(* optional sources, several times for one origin when a run is repeated;  *)
(* no release carries the health state, and the records of the Release     *)
(* come and go with downloads and uploads that may fail.                   *)
(***************************************************************************)
EXTENDS GapRepair, OptionalSources

CONSTANTS
    Deliveries,         \* [primary, secondary]: the series a report is made of
    Observations,       \* origin -> what the providers may answer to its runs
    Origins,            \* the origins of the runs
    Steps,              \* minutes that pass at once
    MaxWork             \* bound: reports and runs

ASSUME QualityAssumption ==
    /\ Steps \subseteq Nat /\ Origins \subseteq Int
    /\ \A d \in Deliveries : \A series \in {d.primary, d.secondary} :
          /\ Len(series) \in Nat /\ DOMAIN series = 1 .. Len(series)
          /\ \A i \in DOMAIN series : series[i].at \in Int

VARIABLES
    now,                \* minutes
    report,             \* gap_reconciliation.json with the delivery it is made of
    alerted,            \* the state file of the gap alerts: alert -> when it was emitted last
    logged,             \* the log of the gap alerts: alert -> when it was written last
    seen,               \* the state file of source health
    quarantined,        \* the sources that the last run left out
    records,            \* the retained optional sources, in the Release
    firstSeen,          \* ghost: origin -> what was observed of it first, and when, since
                        \* the records were lost last
    work                \* reports and runs so far

gaps == <<report, alerted, logged>>
sources == <<seen, quarantined, records, firstSeen>>
qualityVars == <<now, gaps, sources, work>>

NoAlerts == [a \in {} |-> 0]
NoReport == [delivery |-> Missing, at |-> 0, due |-> {}, provenance |-> NoProvenance, alerting |-> "over"]
NothingSeen == [o \in {} |-> Missing]

QualityInit ==
    /\ now = 0 /\ work = 0
    /\ report = NoReport /\ alerted = NoAlerts /\ logged = NoAlerts
    /\ seen = [k \in {} |-> Missing] /\ quarantined = {}
    /\ records = <<>> /\ firstSeen = NothingSeen

ReportOf(delivery, existing, alerting) ==
    LET r == Reconciliation(delivery.primary, delivery.secondary, existing, now)
    IN  [delivery |-> delivery, existing |-> existing, at |-> now, due |-> DueAlerts(r.summary),
         policy |-> r.policy, series |-> r.series, provenance |-> r.provenance,
         idempotent |-> r.idempotent, summary |-> r.summary, alerting |-> alerting]

\* GapAlertMonitor.record: one alert after the other is written to the log, and then
\* the state is saved
Reconcile(delivery, existing) ==
    LET r == ReportOf(delivery, existing, "over")
    IN  /\ report' = r
        /\ logged' = Stamped(logged, Emitted(r.due, alerted, now), now)
        /\ alerted' = AfterAlerts(r.due, alerted, now)
        /\ UNCHANGED <<now, sources>>

\* ... and is killed before the first, between two of them, or before the state is saved
ReconcileKilled(delivery, existing) ==
    LET r == ReportOf(delivery, existing, "killed")
    IN  /\ report' = r
        /\ \E n \in 0 .. Len(MetricOrder) :
              logged' = Stamped(logged, UpToMetric(Emitted(r.due, alerted, now), n), now)
        /\ UNCHANGED <<now, alerted, sources>>

\* The state file cannot be read, torn by a monitor killed while it saved it or gone:
\* the next monitor starts with an empty one.
LoseAlertState ==
    /\ alerted # NoAlerts
    /\ alerted' = NoAlerts
    /\ UNCHANGED <<now, report, logged, sources>>

\* what has been observed first, now that a run has observed an origin
WithOrigin(first, origin, snapshots) ==
    [o \in DOMAIN first \cup {origin} |->
        IF o \in DOMAIN first THEN first[o] ELSE [at |-> now, snapshots |-> snapshots]]

(* The part of a forecast run that deals with the optional sources.  Its download of
   the records may fail, and a file that cannot be read counts as an empty one; what
   it retains is uploaded, or is lost with the run, or its upload is interrupted when
   the old file is gone already. *)
ObserveSources(origin, rows) ==
    LET snapshots == Snapshots(origin, now, rows)
    IN  /\ origin <= now
        /\ quarantined' = Quarantined(snapshots, seen)
        /\ seen' = AfterHealth(snapshots, seen)
        /\ \/ /\ records' = Retain(records, snapshots, origin, now)
              /\ firstSeen' = WithOrigin(firstSeen, origin, snapshots)
           \/ /\ records' = Retain(<<>>, snapshots, origin, now)
              /\ firstSeen' = WithOrigin(NothingSeen, origin, snapshots)
           \/ UNCHANGED <<records, firstSeen>>
           \/ records' = <<>> /\ firstSeen' = NothingSeen
        /\ UNCHANGED <<now, gaps>>

\* A run starts from a new checkout: no health state.
LoseHealthState ==
    /\ seen # [k \in {} |-> Missing]
    /\ seen' = [k \in {} |-> Missing]
    /\ UNCHANGED <<now, gaps, quarantined, records, firstSeen>>

QualityTick(step) ==
    /\ now' = now + step
    /\ UNCHANGED <<gaps, sources>>

Work ==
    \/ \E d \in Deliveries, existing \in {NoProvenance, report.provenance} :
          Reconcile(d, existing) \/ ReconcileKilled(d, existing)
    \/ \E o \in Origins : \E rows \in Observations[o] : ObserveSources(o, rows)

QualityNext ==
    /\ work < MaxWork
    /\ work' = work + 1
    /\ Work \/ LoseAlertState \/ LoseHealthState \/ \E step \in Steps : QualityTick(step)

QualitySpec == QualityInit /\ [][QualityNext]_qualityVars

-----------------------------------------------------------------------------
\* verify_backfill_idempotency: "Re-running the backfill on its own output must
\* produce identical history"; and whatever was taken from the secondary provider
\* says so, with the time of its first fill when the provenance of an earlier
\* report is passed on (backfill_from_secondary: "first write wins").
FillsAreRecorded ==
    report.delivery # Missing =>
        /\ report.idempotent
        /\ Stamps(report.series) \ Stamps(report.delivery.primary) \subseteq DOMAIN report.provenance
        /\ DOMAIN report.provenance \subseteq Stamps(report.series)
        /\ \A t \in DOMAIN report.existing \cap Stamps(report.series) :
              report.provenance[t] = report.existing[t]

\* Deduplication does not hide anything: whatever is due in the last report was
\* written to the log less than the deduplication time before it, at its own
\* level, a warning that turns critical at once.  A monitor that was killed may have
\* left an alert unwritten, and then nothing keeps the next one from it: the state
\* never says that an alert was given which was not (GapAlertMonitor.record,
\* _should_alert).
DueAlertsAreHeard ==
    \A a \in report.due :
        \/ a \in DOMAIN logged /\ report.at - logged[a] < DedupMinutes
        \/ report.alerting = "killed" /\ (a \in DOMAIN alerted => report.at - alerted[a] >= DedupMinutes)

\* docs/FEATURE_REGISTRY.md: "immutable raw optional-source snapshots for the
\* configured bounded window".  What is replayed of an origin is what the first run
\* of that origin observed, whatever a repeated run observed later and whatever was
\* not uploaded, until the window or the number of records lets go of it, or the
\* records are lost as a whole.
ReplayIsFirstSeen ==
    \A o \in DOMAIN firstSeen :
        LET held == {i \in DOMAIN records : records[i].observed >= firstSeen[o].at}
            newest == Max({records[i].observed : i \in DOMAIN records})
        IN  /\ newest - firstSeen[o].at <= RetentionMinutes
            /\ Cardinality(held) < MaxRecords
            => Replay(records, o) = firstSeen[o].snapshots

=============================================================================
