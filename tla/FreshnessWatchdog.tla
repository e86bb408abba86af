-------------------------- MODULE FreshnessWatchdog --------------------------
(***************************************************************************)
(* The freshness watchdog (ops/freshness_watchdog.py) and one metric it    *)
(* checks: the age of the published forecast.  The checks of the site, the *)
(* backup and the scheduled run have the same form, and each metric its    *)
(* own part of .state/freshness_watchdog.json.                             *)
(*                                                                         *)
(* A run prints its alerts and appends them to the status file, saves its  *)
(* state, writes the status file anew and files the issue, in this order,  *)
(* and may be killed between two of these steps or while it writes.        *)
(*                                                                         *)
(* Abstractions.  Time goes in ticks.  The events it logs, which the       *)
(* weekly adherence is counted from, and the messages of recovery are      *)
(* output only.  An alert that a later check would repeat anyway needs no  *)
(* entry: the age of an entry is counted up to Window, and no entry is an  *)
(* old one.                                                                *)
(***************************************************************************)
EXTENDS Naturals

CONSTANTS
    Warning, Critical,  \* tolerances of the metric, in ticks
    Window              \* alert_dedup_minutes, in ticks

ASSUME WatchdogAssumption ==
    /\ Warning \in Nat /\ Critical \in Nat /\ Warning <= Critical
    /\ Window \in Nat \ {0}

VARIABLES
    age,        \* of the latest forecast, up to Critical + 1
    alerts,     \* the dedup entry of each severity: ticks since last_alerted_at
    status,     \* what freshness_slo_status.json says of the metric
    heard,      \* ghost: ticks since an alert of each severity was printed, up to Window
    filed       \* ghost: was an issue filed since the forecast is critical?

watchdogVars == <<age, alerts, status, heard, filed>>

Severities == {"warning", "critical"}

\* _latest_history_origin and the readers of its form: a time, or nothing
Findings == BOOLEAN

\* _severity_for_age
Severity(hours) ==
    IF hours > Critical THEN "critical" ELSE IF hours > Warning THEN "warning" ELSE "none"

\* check_production_forecast and the checks of its form: what cannot be found is
\* critical, and has no measured age
Checked(found) == IF found THEN Severity(age) ELSE "critical"

\* results of the summary, as the guardian reads them: an age or nothing
Reading(found) ==
    IF ~found THEN "absent" ELSE IF age > Critical THEN "breached" ELSE "ok"

\* _should_alert
Due(severity) == severity \in Severities /\ alerts[severity] = Window

\* mutant: the entry is renewed by every breach
DedupSliding(severity) ==
    [s \in Severities |-> IF s = severity THEN 0 ELSE Window]

\* _update_dedup, and the removal of the entries no breach of this run has
Deduped(severity) ==
    [s \in Severities |-> IF s # severity THEN Window ELSE IF Due(s) THEN 0 ELSE alerts[s]]

\* an alert is appended to the status file of the run before, which no longer parses
Torn(severity) == IF Due(severity) THEN "absent" ELSE status

Printed(severity) ==
    heard' = [s \in Severities |-> IF s = severity /\ Due(s) THEN 0 ELSE heard[s]]

-----------------------------------------------------------------------------
WatchdogInit ==
    /\ age = Critical + 1                       \* nothing was ever published
    /\ alerts = [s \in Severities |-> Window]
    /\ status = "absent"
    /\ heard = [s \in Severities |-> Window]
    /\ filed = FALSE

\* main: the issue is filed when a critical alert is due
FilesIssue(severity) == severity = "critical" /\ Due(severity)

\* A run to its end; gh: the issue that is due can be filed.
Watch(found, gh) ==
    LET severity == Checked(found)
    IN  /\ Printed(severity)
        /\ alerts' = Deduped(severity)
        /\ status' = Reading(found)
        /\ filed' = (filed \/ (age > Critical /\ gh /\ FilesIssue(severity)))
        /\ UNCHANGED age

\* A run that is killed before its state is saved.
KilledUnsaved(found) ==
    /\ Printed(Checked(found))
    /\ status' = Torn(Checked(found))
    /\ UNCHANGED <<age, alerts, filed>>

\* A run that is killed when its state is saved: the status file is the one of the
\* run before, torn, or its own.
KilledSaved(found) ==
    LET severity == Checked(found)
    IN  /\ Printed(severity)
        /\ alerts' = Deduped(severity)
        /\ status' \in {Torn(severity), "absent", Reading(found)}
        /\ UNCHANGED <<age, filed>>

\* A forecast is published.
Published == age' = 0 /\ filed' = FALSE /\ UNCHANGED <<alerts, status, heard>>

Later(ticks, limit) == IF ticks < limit THEN ticks + 1 ELSE ticks

WatchdogTick ==
    /\ age' = Later(age, Critical + 1)
    /\ alerts' = [s \in Severities |-> Later(alerts[s], Window)]
    /\ heard' = [s \in Severities |-> Later(heard[s], Window)]
    /\ UNCHANGED <<status, filed>>

-----------------------------------------------------------------------------
WatchdogTypeOK ==
    /\ age \in 0 .. Critical + 1
    /\ alerts \in [Severities -> 0 .. Window] /\ heard \in [Severities -> 0 .. Window]
    /\ status \in {"absent", "ok", "breached"}
    /\ filed \in BOOLEAN

\* An alert is only suppressed while the last one of its kind is less than a dedup
\* window old, whatever breaches, recoveries and lost runs came between: somebody
\* heard of what is kept quiet.
SuppressedWasHeard == \A s \in Severities : heard[s] <= alerts[s]

=============================================================================
