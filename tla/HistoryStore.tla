---------------------------- MODULE HistoryStore ----------------------------
(***************************************************************************)
(* The SQLite datastore of forecasts (history/history_store.py) and the    *)
(* migration every process runs when it opens it                           *)
(* (history/history_migrations.py), on a machine where a process may be    *)
(* killed at any point and the disk may fill up.                           *)
(*                                                                         *)
(* A transaction of SQLite is one step.  A process killed while one is     *)
(* committed leaves a hot journal: the database counts as it was before,   *)
(* but only a connection that may write can roll it back.                  *)
(*                                                                         *)
(* Abstractions.  One horizon; a forecast stands for what one run computed *)
(* for an origin, manifest and predictions alike.  Of the derived columns  *)
(* a row has the three an audit may find fault with.  Two processes may    *)
(* work on the store, but one that migrates it is alone: the migration     *)
(* follows an upgrade of the code, in the first process that runs it.      *)
(***************************************************************************)
EXTENDS Naturals, FiniteSets

CONSTANTS
    Procs,          \* processes that open the store
    Origins,        \* source candles
    Models,         \* the ensemble and its members
    Ensemble,       \* ENSEMBLE_MODEL
    Forecasts,      \* runs that forecast an origin
    Prices,         \* actual prices of a target candle, as providers revise them
    Hairline,       \* forecasts and prices that differ from the origin's price by
                    \* less than half a cent, or on either side of that
    Signals,        \* what drift is observed of
    Version,        \* CURRENT_SCHEMA_VERSION
    None            \* SQL NULL, no row

ASSUME StoreAssumption ==
    /\ Version \in Nat \ {0}
    /\ None \notin Forecasts \union Prices
    /\ Ensemble \in Models /\ Hairline \subseteq Forecasts \X Prices

VARIABLES
    db,         \* the database file
    journal,    \* is there a hot journal?
    backup,     \* the files .pre-migration-v<n>.bak
    pc,         \* where each process is
    source,     \* the schema version each process found, 0 for no database
    selected,   \* the outcomes each process is about to fill
    held,       \* ghost: the content last committed
    reopened    \* ghost: has the remainder of a restore that was cut short been opened?

vars == <<db, journal, backup, pc, source, selected, held, reopened>>

Keys == Origins \X Models

\* A row of forecast_predictions: the forecast it is of, how predicted_change_pct
\* was come by, whether target_at is origin + horizon, the outcome, and the rule
\* by which direction_correct was judged.
Row == [by : Forecasts, change : {"stated", "computed"}, target : {"due", "drifted"},
        actual : Prices \union {None}, right : {None, "either", "store", "audit"}]

\* SQL NULL stands for a row that is not there.
ASSUME RowAssumption == None \notin Row

\* forecast_origins, forecast_predictions and drift_events
Content == [manifest : [Origins -> Forecasts \union {None}],
            row      : [Keys -> Row \union {None}],
            drift    : SUBSET (Origins \X Signals)]

NoContent == [manifest |-> [o \in Origins |-> None], row |-> [k \in Keys |-> None], drift |-> {}]

\* _prediction_rows: the ensemble's change is the one the snapshot states, rounded;
\* a member's is computed from the stored prices
NewRow(k, f) ==
    [by |-> f, change |-> IF k[2] = Ensemble THEN "stated" ELSE "computed",
     target |-> "due", actual |-> None, right |-> None]

\* direction_correct of a hairline case depends on the tolerance
Judged(f, price, rule) == IF <<f, price>> \in Hairline THEN rule ELSE "either"

\* A copy that was cut short is "torn", with the header that holds the version,
\* or "empty"; a file that is not there is "absent".
Files == [kind : {"absent", "empty"}]
           \union [kind : {"torn"}, version : 1 .. Version]
           \union [kind : {"database"}, version : 1 .. Version, content : Content]

Absent == [kind |-> "absent"]
Empty == [kind |-> "empty"]

Database(version, content) == [kind |-> "database", version |-> version, content |-> content]

\* exists, and is not of zero bytes
Existed(f) == f.kind \in {"torn", "database"}

VersionOf(f) == IF Existed(f) THEN f.version ELSE 0

-----------------------------------------------------------------------------
\* A database that an earlier version of the code has left, or none.
Init ==
    /\ \/ db = Absent /\ held = NoContent
       \/ \E v \in 1 .. Version, f \in Forecasts, target \in {"due", "drifted"} :
             /\ held = [manifest |-> [o \in Origins |-> f],
                        row |-> [k \in Keys |-> [NewRow(k, f) EXCEPT !.target = target]],
                        drift |-> {}]
             /\ db = Database(v, held)
    /\ journal = FALSE
    /\ backup = [v \in 1 .. Version |-> Absent]
    /\ pc = [p \in Procs |-> "closed"]
    /\ source = [p \in Procs |-> 0]
    /\ selected = [p \in Procs |-> <<>>]
    /\ reopened = FALSE

Goto(p, label) == pc' = [pc EXCEPT ![p] = label]

Migrating(p) == pc[p] \in {"copy", "migrate", "validate", "restore"}

Alone(p) == \A q \in Procs \ {p} : pc[q] = "closed"

(* migrate_database up to its first branch.  The version is read through a
   read-only connection, which a hot journal refuses. *)
Open(p) ==
    /\ pc[p] = "closed"
    /\ \A q \in Procs : ~Migrating(q)
    /\ ~journal
    /\ VersionOf(db) < Version => Alone(p)
    /\ \/ VersionOf(db) < Version /\ Goto(p, IF Existed(db) THEN "copy" ELSE "migrate")
       \/ VersionOf(db) = Version /\ db.kind = "database" /\ Goto(p, "open")
    /\ source' = [source EXCEPT ![p] = VersionOf(db)]
    /\ reopened' = (reopened \/ (db.kind # "database" /\ held # NoContent))
    /\ UNCHANGED <<db, journal, backup, selected, held>>

\* what shutil.copy2 leaves of f when the disk is full or the process is killed
Cut(f) == {Empty} \union [kind : {"torn"}, version : {VersionOf(f)} \ {0}]

\* mutant: a rollback copy that exists is not made again
CopyOnce(p) ==
    /\ pc[p] = "copy"
    /\ LET old == backup[source[p]]
       IN \/ /\ backup' = [backup EXCEPT ![source[p]] = IF @ = Absent THEN db ELSE @]
             /\ Goto(p, "migrate")
          \/ /\ old = Absent
             /\ \E f \in Cut(db) : backup' = [backup EXCEPT ![source[p]] = f]
             /\ Goto(p, "closed")
    /\ UNCHANGED <<db, journal, source, selected, held, reopened>>

\* The rollback copy is made before anything is changed.
Copy(p) ==
    /\ pc[p] = "copy"
    /\ \/ backup' = [backup EXCEPT ![source[p]] = db] /\ Goto(p, "migrate")
       \/ /\ \E f \in Cut(db) : backup' = [backup EXCEPT ![source[p]] = f]
          /\ Goto(p, "closed")
    /\ UNCHANGED <<db, journal, source, selected, held, reopened>>

\* The migrations run in one transaction on what the tables hold; connect has
\* created the file, and a torn one is malformed.
Migrate(p) ==
    /\ pc[p] = "migrate"
    /\ \/ /\ db.kind # "torn"
          /\ db' = Database(Version, IF Existed(db) THEN db.content ELSE NoContent)
          /\ Goto(p, "validate")
       \/ db' = (IF Existed(db) THEN db ELSE Empty) /\ Goto(p, "restore")
    /\ UNCHANGED <<journal, backup, source, selected, held, reopened>>

Validate(p) ==
    /\ pc[p] = "validate"
    /\ Goto(p, "open") \/ Goto(p, "restore")
    /\ UNCHANGED <<db, journal, backup, source, selected, held, reopened>>

(* The exception path: the rollback copy goes back, or less of it; a database
   that did not exist goes. *)
Restore(p) ==
    /\ pc[p] = "restore"
    /\ IF source[p] > 0
       THEN db' \in {backup[source[p]]} \union Cut(backup[source[p]])
       ELSE db' = Absent
    /\ Goto(p, "closed")
    /\ UNCHANGED <<journal, backup, source, selected, held, reopened>>

-----------------------------------------------------------------------------
\* mutant: INSERT OR REPLACE
InsertedReplacing(c, o, models, f) ==
    [c EXCEPT !.manifest[o] = f,
              !.row = [k \in Keys |-> IF k[1] = o /\ k[2] \in models THEN NewRow(k, f) ELSE @[k]]]

\* INSERT OR IGNORE: what is there stays
Inserted(c, o, models, f) ==
    [c EXCEPT !.manifest[o] = IF @ = None THEN f ELSE @,
              !.row = [k \in Keys |-> IF k[1] = o /\ k[2] \in models /\ @[k] = None
                                      THEN NewRow(k, f) ELSE @[k]]]

\* A transaction that writes; a hot journal is rolled back first.
Commit(content) ==
    db' = Database(Version, content) /\ held' = content /\ journal' = FALSE

\* ingest_snapshot; one that cannot be parsed changes nothing and is skipped
Ingest(p) ==
    /\ pc[p] = "open"
    /\ \E o \in Origins, models \in (SUBSET Models) \ {{}}, f \in Forecasts :
          Commit(Inserted(db.content, o, models, f))
    /\ UNCHANGED <<backup, pc, source, selected, reopened>>

\* record_drift_events: a signal once per observed origin, before the forecast of
\* the run is ingested
RecordDrift(p) ==
    /\ pc[p] = "open"
    /\ \E o \in Origins, signals \in (SUBSET Signals) \ {{}} :
          Commit([db.content EXCEPT !.drift = @ \union ({o} \X signals)])
    /\ UNCHANGED <<backup, pc, source, selected, reopened>>

\* enrich_outcomes: the pending rows whose exact target candle is there, read
\* outside the transaction that fills them
Select(p) ==
    /\ pc[p] = "open"
    /\ \E actuals \in [Origins -> Prices \union {None}] :
          selected' = [selected EXCEPT ![p] =
              [k \in {j \in Keys : /\ db.content.row[j] # None
                                   /\ db.content.row[j].actual = None
                                   /\ actuals[j[1]] # None} |-> actuals[k[1]]]]
    /\ DOMAIN selected'[p] # {}
    /\ Goto(p, "enrich")
    /\ journal' = FALSE
    /\ UNCHANGED <<db, backup, source, held, reopened>>

\* mutant: WHERE without actual_target_price_usd IS NULL
FilledAnyway(c, outcomes) ==
    [c EXCEPT !.row = [k \in Keys |->
        IF k \in DOMAIN outcomes
        THEN [@[k] EXCEPT !.actual = outcomes[k], !.right = Judged(c.row[k].by, outcomes[k], "store")]
        ELSE @[k]]]

Filled(c, outcomes) ==
    [c EXCEPT !.row = [k \in Keys |->
        IF k \in DOMAIN outcomes /\ @[k].actual = None
        THEN [@[k] EXCEPT !.actual = outcomes[k], !.right = Judged(c.row[k].by, outcomes[k], "store")]
        ELSE @[k]]]

Enrich(p) ==
    /\ pc[p] = "enrich"
    /\ Commit(Filled(db.content, selected[p]))
    /\ Goto(p, "open") /\ selected' = [selected EXCEPT ![p] = <<>>]
    /\ UNCHANGED <<backup, source, reopened>>

-----------------------------------------------------------------------------
\* The process ends, is killed, or is killed while it commits.
Close(p) ==
    /\ pc[p] # "closed"
    /\ Goto(p, "closed")
    /\ \/ UNCHANGED <<db, journal>>
       \/ /\ pc[p] \in {"migrate", "open", "enrich"}
          /\ journal' = TRUE /\ db' = IF Existed(db) THEN db ELSE Empty
    /\ selected' = [selected EXCEPT ![p] = <<>>]
    /\ UNCHANGED <<backup, source, held, reopened>>

\* Somebody opens the database with another tool, which rolls the journal back.
RollBack ==
    /\ journal /\ journal' = FALSE
    /\ UNCHANGED <<db, backup, pc, source, selected, held, reopened>>

Next ==
    \/ \E p \in Procs :
          \/ Open(p) \/ Copy(p) \/ Migrate(p) \/ Validate(p) \/ Restore(p)
          \/ Ingest(p) \/ RecordDrift(p) \/ Select(p) \/ Enrich(p) \/ Close(p)
    \/ RollBack

Spec == Init /\ [][Next]_vars
-----------------------------------------------------------------------------
Holds(f) == f.kind = "database" /\ f.content = held

\* Whatever fails, the database or a rollback copy holds all that was committed,
\* until a process takes the remainder of a restore for a database.
HistorySurvives ==
    (held # NoContent /\ ~reopened) => Holds(db) \/ \E v \in 1 .. Version : Holds(backup[v])

\* The first forecast of an origin and model stands: no rerun, rolling cache,
\* failed migration or kill rewrites or drops it.
FirstForecastStands ==
    [][\A k \in Keys : (held.row[k] # None /\ ~reopened) =>
          held'.row[k] # None /\ held'.row[k].by = held.row[k].by]_vars

\* An outcome is filled in once, also when two processes saw it pending and
\* their providers disagree on the price.
OutcomeIsFinal ==
    [][\A k \in Keys : (held.row[k] # None /\ held.row[k].actual # None /\ ~reopened) =>
          held'.row[k] # None /\ held'.row[k].actual = held.row[k].actual]_vars
=============================================================================
