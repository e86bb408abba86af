-------------------------- MODULE WorkflowGuardian --------------------------
(***************************************************************************)
(* The watchdog of the scheduled workflows (ops/workflow_guardian.py) and  *)
(* one workflow it watches.  run_guard treats the workflows one after the  *)
(* other, each in its own part of .state/workflow_guardian.json, so one    *)
(* shows what happens to any; the state is saved once, at the end.         *)
(*                                                                         *)
(* Abstractions.  Only the latest run of the workflow is looked at; its id *)
(* matters in so far as it is the one last seen, and as it has an entry in *)
(* the retry map.  Ages are counted in ticks up to AgeLimit.  One category *)
(* of failure stands for each kind, transient and persistent.  What the    *)
(* guardian adds to an open issue is left out: the remark that the trouble  *)
(* goes on, made once no sweep has seen it for dedup_minutes, and the one  *)
(* that it is over.  gh may fail to fetch, to dispatch and to file.        *)
(***************************************************************************)
EXTENDS Naturals

CONSTANTS
    RetryAttempts,      \* GuardianConfig.retry_attempts
    Backoff,            \* retry_backoff_minutes, in ticks
    MissedAfter         \* the missed-schedule threshold, in ticks

ASSUME GuardianAssumption ==
    /\ RetryAttempts \in Nat /\ Backoff \in Nat /\ MissedAfter \in Nat \ {0}

Failures   == {"network", "code_error"}
Transient  == {"network"}                   \* classify_failure(...).retryable
Categories == Failures \union {"missed_schedule"}

AgeLimit == Backoff + MissedAfter           \* the age of a run is counted up to here
LostLimit == 1                              \* sweeps whose state is not saved

VARIABLES
    latest,         \* the latest run: its status, failure category and age
    guardian,       \* the guardian's state file
    lost,           \* ghost: sweeps whose state was not saved
    issues          \* ghost: issues filed about each kind of failure since such a sweep

guardianVars == <<latest, guardian, lost, issues>>

Guardian == [seen      : BOOLEAN,               \* last_seen_run_id is the latest run's
             attempts  : 0 .. RetryAttempts,    \* retry_attempts
             retry     : {"none", "pending", "dispatched"},     \* retries[latest run]
             open      : SUBSET Categories]             \* the incidents that are open

-----------------------------------------------------------------------------
(* check_missed_schedule: the freshness metric decides if there is a reading,
   else the latest run fetched.  A fetch that fails yields no runs. *)
Missed(got, fresh) ==
    IF fresh # "absent" THEN fresh = "breached"
    ELSE ~got \/ latest.status = "none" \/ latest.age > MissedAfter

\* decide_escalation: an incident that is not open is opened
Escalate(g, c) == [g EXCEPT !.open = @ \union {c}]

\* recover_incidents
Recover(g, categories) == [g EXCEPT !.open = @ \ categories]

CheckSchedule(g, missed) ==
    IF missed THEN Escalate(g, "missed_schedule") ELSE Recover(g, {"missed_schedule"})

\* a run that has not failed, were it only because it is still running
RunHealthy(g) == Recover([g EXCEPT !.seen = TRUE, !.attempts = 0], Categories)

\* mutant: a run that has a retry entry was retried
DecisionOnce(g) ==
    IF latest.category \notin Transient THEN "not_retryable"
    ELSE IF g.attempts >= RetryAttempts \/ g.retry # "none" THEN "already_retried"
    ELSE IF latest.age < Backoff THEN "deferred"
    ELSE "dispatch"

\* decide_retry
Decision(g) ==
    IF latest.category \notin Transient THEN "not_retryable"
    ELSE IF g.attempts >= RetryAttempts \/ g.retry = "dispatched" THEN "already_retried"
    ELSE IF latest.age < Backoff THEN "deferred"
    ELSE "dispatch"

\* a failed run is taken up when it is new or its retry is pending
TakenUp(g) == ~g.seen \/ g.retry = "pending"

Escalated(g) == ~g.seen /\ Decision(g) \in {"not_retryable", "already_retried"}

RunFailed(g, dispatched) ==
    LET s == [g EXCEPT !.seen = TRUE]
    IN IF ~TakenUp(g) THEN g
       ELSE IF Escalated(g) THEN Escalate(s, latest.category)
       ELSE IF Decision(g) = "dispatch" /\ dispatched
            THEN [s EXCEPT !.retry = "dispatched", !.attempts = @ + 1]
       ELSE IF Decision(g) \in {"deferred", "dispatch"} THEN [s EXCEPT !.retry = "pending"]
       ELSE s

\* mutant: a failed run is taken for one that met its schedule
CheckRunMet(g, got, dispatched) ==
    IF ~got \/ latest.status = "none" THEN g
    ELSE IF latest.status = "failed" THEN Recover(RunFailed(g, dispatched), {"missed_schedule"})
    ELSE RunHealthy(g)

\* the run of which there is a record, after the schedule was checked
CheckRun(g, got, dispatched) ==
    IF ~got \/ latest.status = "none" THEN g
    ELSE IF latest.status = "failed" THEN RunFailed(g, dispatched)
    ELSE RunHealthy(g)

\* mutant: a failure that is new has an issue of its own
FiledAnew(g, got) == got /\ latest.status = "failed" /\ Escalated(g)

\* _escalate_issue: an incident that is opened has its issue, if gh can file it
Files(g, got) ==
    got /\ latest.status = "failed" /\ Escalated(g) /\ latest.category \notin g.open

-----------------------------------------------------------------------------
GuardianInit ==
    /\ latest = [status |-> "none", category |-> "none", age |-> 0]
    /\ guardian = [seen |-> FALSE, attempts |-> 0, retry |-> "none", open |-> {}]
    /\ lost = 0
    /\ issues = [c \in Failures |-> 0]

\* The schedule, a person or a retry starts a run; it has no retry entry yet.
RunStarts ==
    /\ latest' = [status |-> "running", category |-> "none", age |-> 0]
    /\ guardian' = [guardian EXCEPT !.seen = FALSE, !.retry = "none"]
    /\ UNCHANGED <<lost, issues>>

RunSucceeds ==
    /\ latest.status = "running"
    /\ latest' = [latest EXCEPT !.status = "success"]
    /\ UNCHANGED <<guardian, lost, issues>>

RunFails ==
    /\ latest.status = "running"
    /\ \E c \in Failures : latest' = [latest EXCEPT !.status = "failed", !.category = c]
    /\ UNCHANGED <<guardian, lost, issues>>

(* run_guard.  got: the runs were fetched; fresh: the freshness reading;
   dispatched, filed: gh did what it was asked; saved: the guardian lived to
   save. *)
Sweep(got, fresh, dispatched, filed, saved) ==
    LET scheduled == CheckSchedule(guardian, Missed(got, fresh))
        checked   == CheckRun(scheduled, got, dispatched)
        healthy   == saved /\ got /\ latest.status \in {"running", "success"}
    IN /\ saved \/ lost < LostLimit
       /\ guardian' = IF saved THEN checked ELSE guardian
       /\ lost' = IF saved THEN lost ELSE lost + 1
       /\ issues' = [c \in Failures |->
                        IF healthy THEN 0
                        ELSE IF filed /\ c = latest.category /\ Files(scheduled, got)
                             THEN issues[c] + 1 ELSE issues[c]]
       /\ UNCHANGED latest

\* Time passes for the latest run.
GuardianTick ==
    /\ latest' = [latest EXCEPT !.age = IF @ < AgeLimit THEN @ + 1 ELSE @]
    /\ UNCHANGED <<guardian, lost, issues>>

-----------------------------------------------------------------------------
GuardianTypeOK ==
    /\ latest \in [status : {"none", "running", "success", "failed"},
                   category : Failures \union {"none"}, age : 0 .. AgeLimit]
    /\ guardian \in Guardian
    /\ lost \in 0 .. LostLimit
    /\ issues \in [Failures -> Nat]

\* Each kind of failure has one issue until a run is seen that has not failed,
\* whatever fails in turn meanwhile; a lost sweep costs at most one more.
OneIssue == \A c \in Failures : issues[c] <= 1 + lost

\* A deferred retry is not forgotten: the run is retried, or superseded.
DeferredIsRetried == guardian.retry = "pending" ~> guardian.retry # "pending"
=============================================================================
