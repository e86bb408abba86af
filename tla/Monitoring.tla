----------------------------- MODULE Monitoring -----------------------------
(***************************************************************************)
(* The watchdog and the guardian of the production workflow at work        *)
(* together: a run of the workflow may publish a forecast, the watchdog    *)
(* measures how old it is, and the guardian reads the age the watchdog     *)
(* wrote down, however long ago, or else the latest run.                   *)
(***************************************************************************)
EXTENDS WorkflowGuardian, FreshnessWatchdog

vars == <<guardianVars, watchdogVars>>

Init == GuardianInit /\ WatchdogInit

\* a run that ends well publishes, unless the schedule guard ended it
RunEnds ==
    \/ RunFails /\ UNCHANGED watchdogVars
    \/ RunSucceeds /\ (Published \/ UNCHANGED watchdogVars)

Guard(got, dispatched, issued, saved) ==
    Sweep(got, status, dispatched, issued, saved) /\ UNCHANGED watchdogVars

Watches ==
    /\ \E found \in Findings :
          \/ \E gh \in BOOLEAN : Watch(found, gh)
          \/ KilledUnsaved(found) \/ KilledSaved(found)
    /\ UNCHANGED guardianVars

Tick == GuardianTick /\ WatchdogTick

Next ==
    \/ RunStarts /\ UNCHANGED watchdogVars
    \/ RunEnds
    \/ \E got, dispatched, issued, saved \in BOOLEAN : Guard(got, dispatched, issued, saved)
    \/ Watches
    \/ Tick

Spec == Init /\ [][Next]_vars

\* Both are run again and again, gh works now and then, also when an issue is due,
\* and time passes.
WorkingSweep == Guard(TRUE, TRUE, TRUE, TRUE)
WorkingWatch == Watch(TRUE, TRUE) /\ UNCHANGED guardianVars
IssuingWatch == FilesIssue(Checked(TRUE)) /\ WorkingWatch

FairSpec ==
    Spec /\ WF_vars(Tick) /\ SF_vars(WorkingSweep) /\ SF_vars(WorkingWatch) /\ SF_vars(IssuingWatch)

-----------------------------------------------------------------------------
TypeOK == GuardianTypeOK /\ WatchdogTypeOK

\* No forecast is published, and the run that should is not there or has failed.
Outage == age > Critical /\ latest.status \in {"none", "failed"}

\* An outage is not silent: as long as it lasts the guardian has or opens the
\* incident of the missed schedule, whatever the watchdog wrote down before and
\* however many of its runs are lost.
OutageIsEscalated == Outage ~> (~Outage \/ "missed_schedule" \in guardian.open)

\* A forecast that stays critical has its issue in the end, though a run that could
\* not file it keeps its alert quiet for a dedup window.
CriticalIsFiled == (age > Critical) ~> (filed \/ age <= Critical)
=============================================================================
