---------------------------- MODULE HistoryAudit ----------------------------
(***************************************************************************)
(* The audit of the forecast history (history/history_audit.py), with the  *)
(* repair the daily workflow asks for, and the recovery drill that runs    *)
(* the same audit on a restored copy (history/disaster_recovery.py).       *)
(*                                                                         *)
(* A repair copies the database, writes in one transaction, and puts the   *)
(* copy back when that fails.  The workflow shares the concurrency group   *)
(* of the forecast: no process works on the database meanwhile.  Every     *)
(* copy has a name of its own, which no later repair uses; the model       *)
(* keeps it while it may be needed.                                        *)
(***************************************************************************)
EXTENDS HistoryStore

VARIABLES
    auditor,    \* where the audit is
    plan,       \* the repairs it proposes, and the prices it was given
    saved       \* the file .pre-repair-<time>.bak of a repair that is not over

auditVars == <<auditor, plan, saved>>
allVars == <<vars, auditVars>>

-----------------------------------------------------------------------------
\* Rows of members where the ensemble has none.
OrphanGroups(c) ==
    {o \in Origins : /\ c.row[<<o, Ensemble>>] = None
                     /\ \E m \in Models : c.row[<<o, m>>] # None}

\* Predictions whose origin is missing.
OrphanRows(c) == {k \in Keys : c.row[k] # None /\ c.manifest[k[1]] = None}

\* What keeps a repair from being tried: a file that is no database or has another
\* schema, or rows that are ambiguous.
Blocked(f) ==
    \/ f.kind # "database" \/ f.version # Version
    \/ OrphanGroups(f.content) # {} \/ OrphanRows(f.content) # {}

\* _audit_predictions: the target is not origin + horizon
DriftedTargets(c) == {k \in Keys : c.row[k] # None /\ c.row[k].target = "drifted"}

\* ... the change is not, to seven digits, the one of the stored prices
StatedChanges(c) == {k \in Keys : c.row[k] # None /\ c.row[k].change = "stated"}

\* _outcome_metrics, with a tolerance of 1e-9 instead of the store's half a cent
WrongOutcomes(c) ==
    {k \in Keys : /\ c.row[k] # None /\ c.row[k].actual # None
                  /\ c.row[k].right # Judged(c.row[k].by, c.row[k].actual, "audit")}

\* ... the target is past, and the operator supplied its price
Fillable(c, actuals) ==
    {k \in Keys : c.row[k] # None /\ c.row[k].actual = None /\ actuals[k[1]] # None}

\* The findings of severity "error" that a repair can mend.
Mendable(c) == DriftedTargets(c) \union StatedChanges(c) \union WrongOutcomes(c)

Healthy(f) == ~Blocked(f) /\ Mendable(f.content) = {}

Proposed(c, actuals) ==
    ({"target"} \X DriftedTargets(c)) \union ({"change"} \X StatedChanges(c))
        \union ({"fill"} \X Fillable(c, actuals)) \union ({"outcome"} \X WrongOutcomes(c))

-----------------------------------------------------------------------------
\* _write_outcome: the outcome and what is derived from it, a row filled in since excepted
WithOutcome(row, price, missing) ==
    IF missing /\ row.actual # None THEN row
    ELSE [row EXCEPT !.actual = price, !.right = Judged(row.by, price, "audit")]

\* _apply_repairs: the outcome of a row is filled in or judged again, never both
Repaired(c, actions, actuals) ==
    [c EXCEPT !.row = [k \in Keys |->
        LET target == IF <<"target", k>> \in actions THEN [c.row[k] EXCEPT !.target = "due"]
                      ELSE c.row[k]
            row == IF <<"change", k>> \in actions THEN [target EXCEPT !.change = "computed"]
                   ELSE target
        IN  IF <<"fill", k>> \in actions THEN WithOutcome(row, actuals[k[1]], TRUE)
            ELSE IF <<"outcome", k>> \in actions THEN WithOutcome(row, row.actual, FALSE)
            ELSE row]]

-----------------------------------------------------------------------------
\* load_actuals: the exact target prices an operator supplies, by origin.
Actuals == [Origins -> Prices \union {None}]

NoPlan == [actions |-> {}, actuals |-> [o \in Origins |-> None]]

AuditInit == Init /\ auditor = "idle" /\ plan = NoPlan /\ saved = Absent

\* audit_database with --repair, up to the first write.  A read-only connection
\* cannot read a database with a hot journal.
Audit(actuals) ==
    /\ auditor = "idle" /\ \A p \in Procs : pc[p] = "closed"
    /\ ~journal /\ ~reopened /\ ~Blocked(db)
    /\ Proposed(db.content, actuals) # {}
    /\ plan' = [actions |-> Proposed(db.content, actuals), actuals |-> actuals]
    /\ auditor' = "copy"
    /\ UNCHANGED <<vars, saved>>

\* _backup_path, and the copy that may fill up the disk
CopyForRepair ==
    /\ auditor = "copy"
    /\ \/ saved' = db /\ auditor' = "repair" /\ UNCHANGED plan
       \/ UNCHANGED saved /\ auditor' = "idle" /\ plan' = NoPlan
    /\ UNCHANGED vars

\* The repairs, in one transaction.
Repair ==
    /\ auditor = "repair"
    /\ \/ Commit(Repaired(db.content, plan.actions, plan.actuals)) /\ auditor' = "verify"
       \/ UNCHANGED <<db, held, journal>> /\ auditor' = "undo"
    /\ UNCHANGED <<backup, pc, source, selected, reopened, plan, saved>>

\* The exception path: the copy goes back, or less of it.
Undo ==
    /\ auditor = "undo"
    /\ \/ db' = saved /\ saved' = Absent
       \/ db' \in Cut(saved) /\ UNCHANGED saved
    /\ auditor' = "idle" /\ plan' = NoPlan
    /\ UNCHANGED <<journal, backup, pc, source, selected, held, reopened>>

\* The second audit makes the report that is published.
Verify ==
    /\ auditor = "verify"
    /\ auditor' = "idle" /\ plan' = NoPlan /\ saved' = Absent
    /\ UNCHANGED vars

\* The audit is killed, perhaps while it commits.
AuditKilled ==
    /\ auditor # "idle" /\ auditor' = "idle" /\ plan' = NoPlan /\ saved' = Absent
    /\ journal' \in {journal, auditor = "repair"}
    /\ UNCHANGED <<db, backup, pc, source, selected, held, reopened>>

\* Where the remainder of a restore was opened, the model ends: nothing is said of
\* what follows.
AuditNext ==
    \/ auditor = "idle" /\ ~reopened /\ Next /\ UNCHANGED auditVars
    \/ \E actuals \in Actuals : Audit(actuals)
    \/ CopyForRepair \/ Repair \/ Undo \/ Verify \/ AuditKilled

AuditSpec == AuditInit /\ [][AuditNext]_allVars

-----------------------------------------------------------------------------
\* mutant: the drill does not try the repair
DrillPassesUnmended(f) ==
    /\ f.kind = "database" /\ f.version = Version
    /\ Healthy(f)
    /\ \E o \in Origins : f.content.manifest[o] # None
    /\ \E k \in Keys : f.content.row[k] # None

\* run_drill on a recent archive of a database: the repair of the scratch copy is
\* tried when the audit finds errors some of which it can mend
DrillPasses(f) ==
    LET c == f.content
        mends == ~Blocked(f) /\ Mendable(c) # {}
        scratch == IF mends
                   THEN Database(f.version, Repaired(c, Proposed(c, NoPlan.actuals), NoPlan.actuals))
                   ELSE f
    IN  /\ f.kind = "database" /\ f.version = Version
        /\ Healthy(scratch)
        /\ \E o \in Origins : scratch.content.manifest[o] # None
        /\ \E k \in Keys : scratch.content.row[k] # None

-----------------------------------------------------------------------------
\* Whatever fails, the database, the rollback copy of a migration or the one of a
\* repair holds all that was committed, until a process takes the remainder of a
\* restore for a database.
AuditedHistorySurvives == HistorySurvives \/ Holds(saved)

\* The drill and the daily audit agree: a recent archive of a history with a
\* forecast passes the drill unless the audit refuses to repair that history.
DrillAgreesWithAudit ==
    (Existed(db) /\ db.kind = "database" /\ db.version = Version)
        => (DrillPasses(db) <=> ~Blocked(db) /\ db.content.manifest # NoContent.manifest)
=============================================================================
