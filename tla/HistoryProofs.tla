---------------------------- MODULE HistoryProofs ----------------------------
(***************************************************************************)
(* The two specifications of the history, one after the other.             *)
(*                                                                         *)
(* HistoryAudit, for any number of processes, origins, models, forecasts   *)
(* and prices, any schema version and any hairline cases.  The invariant   *)
(* follows where the committed content is: in the database, in the         *)
(* rollback copy of the migration under way, in the copy of the repair     *)
(* under way, or, once a restore was cut short, in one of these copies     *)
(* with nobody at work.                                                    *)
(*                                                                         *)
(* HistoryProtection, for any retention, sizes, number of runs and audits, *)
(* and whichever step fails or is lost.  The canonical asset, where it is  *)
(* there, is the database last published.  Whoever deletes it has put that *)
(* database up as the newest generation, where it stays: until an operator *)
(* has recovered it nothing is uploaded.                                   *)
(***************************************************************************)
EXTENDS HistoryAudit, HistoryProtection, FiniteSetTheorems, TLAPS

-----------------------------------------------------------------------------
\* What a commit may do to the rows: one that is there stays the row of the same
\* forecast, and its outcome stays.
Follows(c, d) ==
    \A k \in Keys : c.row[k] # None =>
        /\ d.row[k] # None /\ d.row[k].by = c.row[k].by
        /\ c.row[k].actual # None => d.row[k].actual = c.row[k].actual

\* A manifest comes with the prediction of a model.
Anchored(c) ==
    \A o \in Origins : c.manifest[o] # None => \E k \in Keys : c.row[k] # None

TypeOK ==
    /\ db \in Files /\ saved \in Files
    /\ backup \in [1 .. Version -> Files]
    /\ held \in Content
    /\ pc \in [Procs -> {"closed", "copy", "migrate", "validate", "restore", "open", "enrich"}]
    /\ source \in [Procs -> 0 .. Version]
    /\ selected = [p \in Procs |-> selected[p]]
    /\ auditor \in {"idle", "copy", "repair", "undo", "verify"}
    /\ journal \in BOOLEAN /\ reopened \in BOOLEAN

\* A database holds what was committed, even one that was put back; what is opened in
\* place of one that was not is none.
DatabaseIsCurrent ==
    /\ db.kind = "database" => db.content = held /\ ~reopened
    /\ Anchored(held)

AllClosed == \A p \in Procs : pc[p] = "closed"

\* As AuditedHistorySurvives, and where only a copy is left nobody is at work.
Survives ==
    held # NoContent =>
        \/ Holds(db)
        \/ /\ AllClosed /\ auditor = "idle"
           /\ (\E v \in 1 .. Version : Holds(backup[v])) \/ Holds(saved)

\* A process that migrates is alone, and from the moment it has begun to write its
\* rollback copy holds what the database held when it was opened.
MigrationIsCovered ==
    \A p \in Procs : Migrating(p) =>
        /\ Alone(p)
        /\ source[p] = 0 => held = NoContent /\ pc[p] # "copy"
        /\ source[p] > 0 /\ pc[p] # "copy" =>
              /\ backup[source[p]].kind = "database" => backup[source[p]].content = held
              /\ held # NoContent => Holds(backup[source[p]])

\* Who reads rows has a database, in which the rows it selected still are.
WorkIsFounded ==
    \A p \in Procs :
        /\ pc[p] \in {"validate", "open", "enrich"} => db.kind = "database"
        /\ pc[p] = "enrich" =>
              \A k \in DOMAIN selected[p] :
                  k \in Keys /\ db.content.row[k] # None /\ selected[p][k] \in Prices

\* The audit works alone, on the database its plan was made of, and undoes with a
\* copy of it.
AuditIsCovered ==
    auditor # "idle" =>
        /\ AllClosed /\ db.kind = "database"
        /\ auditor \in {"copy", "repair"} =>
              /\ plan.actuals \in Actuals
              /\ plan.actions = Proposed(db.content, plan.actuals)
        /\ auditor \in {"repair", "undo"} => saved = db

IInv ==
    /\ TypeOK
    /\ DatabaseIsCurrent
    /\ ~reopened => Survives /\ MigrationIsCovered /\ WorkIsFounded
    /\ AuditIsCovered

-----------------------------------------------------------------------------
(* What the transactions do to the content. *)

\* What a row becomes when an outcome is written is a row of the same forecast.
LEMMA OutcomeWritten ==
    ASSUME NEW r \in Row, NEW price \in Prices \union {None}, NEW rule \in {"store", "audit"}
    PROVE  LET w == [r EXCEPT !.actual = price, !.right = Judged(r.by, price, rule)]
           IN  w \in Row /\ w.by = r.by /\ w.actual = price /\ w.target = r.target
                 /\ w.change = r.change /\ w.right = Judged(w.by, w.actual, rule)
<1>1. Judged(r.by, price, rule) \in {None, "either", "store", "audit"}
    BY DEF Judged
<1> QED BY <1>1 DEF Row

LEMMA NewRowIsRow ==
    ASSUME NEW k \in Keys, NEW f \in Forecasts
    PROVE  NewRow(k, f) \in Row /\ NewRow(k, f) # None
BY RowAssumption DEF NewRow, Row

LEMMA NoContentIsContent == NoContent \in Content /\ Anchored(NoContent)
BY DEF NoContent, Content, Anchored

\* What another table of rows makes of the content.
LEMMA RowsReplaced ==
    ASSUME NEW c \in Content, NEW rows \in [Keys -> Row \union {None}]
    PROVE  LET d == [c EXCEPT !.row = rows]
           IN  d \in Content /\ d.row = rows /\ d.manifest = c.manifest
BY DEF Content

\* A table of rows that follows the one there was makes a content that does.
LEMMA RowsFollow ==
    ASSUME NEW c \in Content, Anchored(c), NEW d \in Content, d.manifest = c.manifest,
           \A k \in Keys : c.row[k] # None =>
               /\ d.row[k] # None /\ d.row[k].by = c.row[k].by
               /\ c.row[k].actual # None => d.row[k].actual = c.row[k].actual
    PROVE  Follows(c, d) /\ Anchored(d)
<1>1. Follows(c, d)
    BY DEF Follows
<1>2. \A k \in Keys : c.row[k] # None => d.row[k] # None
    OBVIOUS
<1>3. Anchored(d)
    BY <1>2 DEF Anchored
<1> QED BY <1>1, <1>3

\* ingest_snapshot ignores the rows that are there.
LEMMA InsertedFollows ==
    ASSUME NEW c \in Content, Anchored(c), NEW o \in Origins,
           NEW models \in (SUBSET Models) \ {{}}, NEW f \in Forecasts
    PROVE  LET d == Inserted(c, o, models, f)
           IN  d \in Content /\ Follows(c, d) /\ Anchored(d)
<1> DEFINE d == Inserted(c, o, models, f)
<1> DEFINE rows == [k \in Keys |-> IF k[1] = o /\ k[2] \in models /\ c.row[k] = None
                                   THEN NewRow(k, f) ELSE c.row[k]]
           manifest == [c.manifest EXCEPT ![o] = IF @ = None THEN f ELSE @]
<1>1. /\ c.manifest \in [Origins -> Forecasts \union {None}]
      /\ c.row \in [Keys -> Row \union {None}]
    BY DEF Content
<1>2. d.manifest = manifest /\ d.row = rows /\ d = [c EXCEPT !.manifest = manifest, !.row = rows]
    BY DEF Inserted, Content
<1>3. d \in Content
  <2>1. manifest \in [Origins -> Forecasts \union {None}]
    BY <1>1
  <2>2. rows \in [Keys -> Row \union {None}]
    BY <1>1, NewRowIsRow
  <2> HIDE DEF rows, manifest
  <2> QED BY <1>2, <2>1, <2>2 DEF Content
<1>4. \A k \in Keys : c.row[k] # None => d.row[k] = c.row[k]
    BY <1>2
<1>5. Anchored(d)
  <2> SUFFICES ASSUME NEW q \in Origins, d.manifest[q] # None
               PROVE  \E k \in Keys : d.row[k] # None
    BY DEF Anchored
  <2>1. CASE c.manifest[q] # None
    BY <2>1, <1>4 DEF Anchored
  <2>2. CASE c.manifest[q] = None
    <3>1. q = o
      BY <2>2, <1>1, <1>2
    <3>2. PICK m \in models : m \in Models
      OBVIOUS
    <3> DEFINE k == <<o, m>>
    <3>3. k \in Keys /\ k[1] = o /\ k[2] = m
      BY <3>2 DEF Keys
    <3>4. d.row[k] # None
      <4>1. CASE c.row[k] = None
        BY <4>1, <1>2, <3>2, <3>3, NewRowIsRow
      <4> QED BY <4>1, <1>4, <3>3
    <3> QED BY <3>3, <3>4
  <2> QED BY <2>1, <2>2
<1>6. Follows(c, d)
    BY <1>4 DEF Follows
<1> QED BY <1>3, <1>5, <1>6

\* record_drift_events leaves the forecasts alone.
LEMMA DriftFollows ==
    ASSUME NEW c \in Content, Anchored(c), NEW drift \in SUBSET (Origins \X Signals)
    PROVE  LET d == [c EXCEPT !.drift = @ \union drift]
           IN  d \in Content /\ Follows(c, d) /\ Anchored(d)
<1> DEFINE d == [c EXCEPT !.drift = @ \union drift]
<1>1. d \in Content /\ d.row = c.row /\ d.manifest = c.manifest
    BY DEF Content
<1> QED BY <1>1 DEF Follows, Anchored

\* _enrich_rows fills in what is still NULL.
LEMMA FilledFollows ==
    ASSUME NEW c \in Content, Anchored(c), NEW outcomes,
           \A k \in DOMAIN outcomes : k \in Keys /\ c.row[k] # None /\ outcomes[k] \in Prices
    PROVE  LET d == Filled(c, outcomes)
           IN  d \in Content /\ Follows(c, d) /\ Anchored(d)
<1> DEFINE rows == [k \in Keys |->
                      IF k \in DOMAIN outcomes /\ c.row[k].actual = None
                      THEN [c.row[k] EXCEPT !.actual = outcomes[k],
                                            !.right = Judged(c.row[k].by, outcomes[k], "store")]
                      ELSE c.row[k]]
           d == Filled(c, outcomes)
<1>1. c.row \in [Keys -> Row \union {None}]
    BY DEF Content
<1>2. ASSUME NEW k \in Keys
      PROVE  /\ rows[k] \in Row \union {None}
             /\ c.row[k] # None =>
                   /\ rows[k] # None /\ rows[k].by = c.row[k].by
                   /\ c.row[k].actual # None => rows[k].actual = c.row[k].actual
  <2>1. CASE k \in DOMAIN outcomes /\ c.row[k].actual = None
    <3> DEFINE w == [c.row[k] EXCEPT !.actual = outcomes[k],
                                     !.right = Judged(c.row[k].by, outcomes[k], "store")]
    <3>1. c.row[k] \in Row /\ outcomes[k] \in Prices
      BY <1>1, <2>1
    <3>2. w \in Row /\ w.by = c.row[k].by
      BY <3>1, OutcomeWritten
    <3>3. rows[k] = w
      BY <2>1
    <3> HIDE DEF w, rows
    <3> QED BY <3>2, <3>3, <2>1, RowAssumption
  <2>2. CASE ~(k \in DOMAIN outcomes /\ c.row[k].actual = None)
    BY <1>1, <2>2
  <2> QED BY <2>1, <2>2
<1>3. rows \in [Keys -> Row \union {None}]
    BY <1>2
<1>4. d = [c EXCEPT !.row = rows]
    BY DEF Filled
<1> HIDE DEF rows, d
<1>5. d \in Content /\ d.row = rows /\ d.manifest = c.manifest
    BY <1>3, <1>4, RowsReplaced
<1>6. Follows(c, d) /\ Anchored(d)
    BY <1>2, <1>5, RowsFollow
<1> QED BY <1>5, <1>6 DEF d

(* _apply_repairs, with the plan made of the content it repairs: the rows stay the
   forecasts they are of, and nothing is left that the audit could mend. *)
LEMMA RepairMends ==
    ASSUME NEW c \in Content, Anchored(c), NEW actuals \in Actuals
    PROVE  LET d == Repaired(c, Proposed(c, actuals), actuals)
           IN  /\ d \in Content /\ Follows(c, d) /\ Anchored(d)
               /\ d.manifest = c.manifest
               /\ \A k \in Keys : d.row[k] = None <=> c.row[k] = None
               /\ Mendable(d) = {}
<1> DEFINE actions == Proposed(c, actuals)
           target(k) == IF <<"target", k>> \in actions THEN [c.row[k] EXCEPT !.target = "due"]
                        ELSE c.row[k]
           row(k) == IF <<"change", k>> \in actions THEN [target(k) EXCEPT !.change = "computed"]
                     ELSE target(k)
           mended(k) == IF <<"fill", k>> \in actions THEN WithOutcome(row(k), actuals[k[1]], TRUE)
                        ELSE IF <<"outcome", k>> \in actions
                             THEN WithOutcome(row(k), row(k).actual, FALSE)
                        ELSE row(k)
           rows == [k \in Keys |-> mended(k)]
           d == Repaired(c, actions, actuals)
           AsItWas(r, k) == r \in Row /\ r.by = c.row[k].by /\ r.actual = c.row[k].actual
<1>1. c.row \in [Keys -> Row \union {None}]
    BY DEF Content
<1>2. ASSUME NEW k \in Keys
      PROVE  /\ <<"target", k>> \in actions <=> c.row[k] # None /\ c.row[k].target = "drifted"
             /\ <<"change", k>> \in actions <=> c.row[k] # None /\ c.row[k].change = "stated"
             /\ <<"fill", k>> \in actions <=>
                   c.row[k] # None /\ c.row[k].actual = None /\ actuals[k[1]] # None
             /\ <<"outcome", k>> \in actions <=>
                   /\ c.row[k] # None /\ c.row[k].actual # None
                   /\ c.row[k].right # Judged(c.row[k].by, c.row[k].actual, "audit")
  <2> HIDE DEF Judged
  <2>1. <<"target", k>> \in actions <=> k \in DriftedTargets(c)
    BY DEF Proposed
  <2>2. <<"change", k>> \in actions <=> k \in StatedChanges(c)
    BY DEF Proposed
  <2>3. <<"fill", k>> \in actions <=> k \in Fillable(c, actuals)
    BY DEF Proposed
  <2>4. <<"outcome", k>> \in actions <=> k \in WrongOutcomes(c)
    BY DEF Proposed
  <2> HIDE DEF actions
  <2> QED BY <2>1, <2>2, <2>3, <2>4 DEF DriftedTargets, StatedChanges, Fillable, WrongOutcomes
<1> HIDE DEF actions
<1>3. ASSUME NEW k \in Keys, c.row[k] = None
      PROVE  mended(k) = None
    BY <1>2, <1>3
<1>4. ASSUME NEW k \in Keys, c.row[k] # None
      PROVE  /\ mended(k) \in Row /\ mended(k).by = c.row[k].by
             /\ c.row[k].actual # None => mended(k).actual = c.row[k].actual
             /\ mended(k).target = "due" /\ mended(k).change = "computed"
             /\ mended(k).actual # None =>
                   mended(k).right = Judged(mended(k).by, mended(k).actual, "audit")
  <2>1. c.row[k] \in Row
    BY <1>1, <1>4
  <2>2. /\ AsItWas(target(k), k) /\ target(k).target = "due"
        /\ target(k).change = c.row[k].change /\ target(k).right = c.row[k].right
    BY <1>2, <1>4, <2>1 DEF Row
  <2> HIDE DEF target
  <2>3. /\ AsItWas(row(k), k) /\ row(k).target = "due"
        /\ row(k).change = "computed" /\ row(k).right = c.row[k].right
    BY <1>2, <1>4, <2>2 DEF Row
  <2> HIDE DEF row
  <2>4. CASE <<"fill", k>> \in actions
    <3> DEFINE price == actuals[k[1]]
               w == [row(k) EXCEPT !.actual = price, !.right = Judged(row(k).by, price, "audit")]
    <3>1. price \in Prices \union {None} /\ row(k).actual = None
      BY <1>2, <2>3, <2>4 DEF Actuals, Keys
    <3>2. mended(k) = w
      BY <2>4, <3>1 DEF WithOutcome
    <3> HIDE DEF price
    <3>3. /\ w \in Row /\ w.by = row(k).by /\ w.target = row(k).target
          /\ w.change = row(k).change /\ w.right = Judged(w.by, w.actual, "audit")
      BY <2>3, <3>1, OutcomeWritten
    <3> HIDE DEF w, mended
    <3> QED BY <1>2, <2>3, <2>4, <3>2, <3>3
  <2>5. CASE <<"fill", k>> \notin actions /\ <<"outcome", k>> \in actions
    <3> DEFINE price == row(k).actual
               w == [row(k) EXCEPT !.actual = price, !.right = Judged(row(k).by, price, "audit")]
    <3>1. price \in Prices \union {None} /\ price = c.row[k].actual
      BY <2>3 DEF Row
    <3>2. mended(k) = w
      BY <2>5 DEF WithOutcome
    <3> HIDE DEF price
    <3>3. /\ w \in Row /\ w.by = row(k).by /\ w.target = row(k).target /\ w.actual = price
          /\ w.change = row(k).change /\ w.right = Judged(w.by, w.actual, "audit")
      BY <2>3, <3>1, OutcomeWritten
    <3> HIDE DEF w, mended
    <3> QED BY <2>3, <3>1, <3>2, <3>3
  <2>6. CASE <<"fill", k>> \notin actions /\ <<"outcome", k>> \notin actions
    <3>1. mended(k) = row(k)
      BY <2>6
    <3> HIDE DEF mended
    <3> QED BY <1>2, <1>4, <2>3, <2>6, <3>1
  <2> QED BY <2>4, <2>5, <2>6
<1>5. d = [c EXCEPT !.row = rows]
    BY DEF Repaired
<1> HIDE DEF mended, d
<1>6. \A k \in Keys : rows[k] = None <=> c.row[k] = None
    BY <1>3, <1>4, RowAssumption
<1>7. rows \in [Keys -> Row \union {None}]
    BY <1>3, <1>4
<1>8. d \in Content /\ d.row = rows /\ d.manifest = c.manifest
  <2> HIDE DEF rows
  <2> QED BY <1>5, <1>7, RowsReplaced
<1>9. Follows(c, d) /\ Anchored(d)
    BY <1>4, <1>6, <1>8, RowsFollow
<1>10. Mendable(d) = {}
  <2> SUFFICES ASSUME NEW k \in Mendable(d) PROVE FALSE
    OBVIOUS
  <2>1. k \in Keys /\ d.row[k] # None
    BY DEF Mendable, DriftedTargets, StatedChanges, WrongOutcomes
  <2>2. d.row[k] = mended(k) /\ c.row[k] # None
    BY <1>6, <1>8, <2>1
  <2>3. k \notin DriftedTargets(d) /\ k \notin StatedChanges(d) /\ k \notin WrongOutcomes(d)
    BY <1>4, <2>1, <2>2 DEF DriftedTargets, StatedChanges, WrongOutcomes
  <2> QED BY <2>3 DEF Mendable
<1> QED BY <1>6, <1>8, <1>9, <1>10 DEF d, actions

-----------------------------------------------------------------------------
(* Files. *)

LEMMA FileKinds ==
    ASSUME NEW f \in Files
    PROVE  /\ f.kind \in {"absent", "empty", "torn", "database"}
           /\ f.kind \in {"torn", "database"} => f.version \in 1 .. Version
           /\ f.kind = "database" => f.content \in Content
           /\ VersionOf(f) \in 0 .. Version
           /\ Existed(f) <=> VersionOf(f) > 0
<1> HIDE DEF Content
<1>1. /\ f.kind \in {"absent", "empty", "torn", "database"}
      /\ f.kind \in {"torn", "database"} => f.version \in 1 .. Version
      /\ f.kind = "database" => f.content \in Content
    BY DEF Files
<1> QED BY <1>1, StoreAssumption DEF VersionOf, Existed

LEMMA PlainFiles == /\ Absent \in Files /\ Absent.kind = "absent"
                    /\ Empty \in Files /\ Empty.kind = "empty"
BY DEF Absent, Empty, Files

LEMMA DatabaseIsFile ==
    ASSUME NEW version \in 1 .. Version, NEW content \in Content
    PROVE  LET f == Database(version, content)
           IN  /\ f \in Files /\ f.kind = "database"
               /\ f.version = version /\ f.content = content
BY DEF Database, Files

\* What a copy that was cut short leaves is a file, and no database.
LEMMA CutIsNoDatabase ==
    ASSUME NEW f \in Files, NEW g \in Cut(f)
    PROVE  g \in Files /\ g.kind # "database"
<1>1. VersionOf(f) \in 0 .. Version
    BY FileKinds
<1> QED BY <1>1, PlainFiles DEF Cut, Files

-----------------------------------------------------------------------------
(* A transaction that writes: nobody migrates, the database holds what it committed,
   and the rows that were selected are still there. *)
LEMMA CommitKeeps ==
    ASSUME IInv, ~reopened, NEW d \in Content, Follows(held, d), Anchored(d), Commit(d),
           \A p \in Procs : ~Migrating(p) /\ ~Migrating(p)',
           \A p \in Procs : pc'[p] = "enrich" =>
               pc[p] = "enrich" /\ selected'[p] = selected[p],
           UNCHANGED reopened
    PROVE  /\ db' \in Files /\ held' \in Content /\ journal' \in BOOLEAN
           /\ db'.kind = "database"
           /\ DatabaseIsCurrent' /\ Survives' /\ MigrationIsCovered' /\ WorkIsFounded'
<1>1. /\ db' = Database(Version, d) /\ held' = d /\ journal' = FALSE
      /\ db' \in Files /\ db'.kind = "database" /\ db'.content = d
    BY StoreAssumption, DatabaseIsFile DEF Commit
<1>2. DatabaseIsCurrent'
    BY <1>1 DEF DatabaseIsCurrent, Anchored
<1>3. Survives'
    BY <1>1 DEF Survives, Holds
<1>4. MigrationIsCovered'
    BY DEF MigrationIsCovered
<1>5. WorkIsFounded'
  <2> SUFFICES ASSUME NEW p \in Procs, pc'[p] = "enrich", NEW k \in DOMAIN selected'[p]
               PROVE  k \in Keys /\ db'.content.row[k] # None /\ selected'[p][k] \in Prices
    BY <1>1 DEF WorkIsFounded
  <2>1. /\ db.kind = "database" /\ k \in Keys
        /\ db.content.row[k] # None /\ selected[p][k] \in Prices
    BY DEF IInv, WorkIsFounded
  <2>2. held.row[k] # None
    BY <2>1 DEF IInv, DatabaseIsCurrent
  <2> QED BY <1>1, <2>1, <2>2 DEF Follows
<1> QED BY <1>1, <1>2, <1>3, <1>4, <1>5

\* What a step of a process is taken on.
Idle == IInv /\ auditor = "idle" /\ ~reopened /\ UNCHANGED auditVars

LEMMA StaysIdle ==
    ASSUME Idle, TypeOK', DatabaseIsCurrent',
           ~reopened' => Survives' /\ MigrationIsCovered' /\ WorkIsFounded'
    PROVE  IInv'
BY DEF Idle, auditVars, IInv, AuditIsCovered

LEMMA FollowsItself == ASSUME NEW c PROVE Follows(c, c)
BY DEF Follows

\* Who has a database open keeps every other process from migrating.
LEMMA NobodyMigrates ==
    ASSUME Idle, NEW p \in Procs, pc[p] \in {"open", "enrich"}
    PROVE  /\ \A q \in Procs : ~Migrating(q)
           /\ db.kind = "database" /\ db.content = held /\ db.content \in Content
           /\ Anchored(held) /\ db.version \in 1 .. Version
<1>1. db.kind = "database" /\ db.content = held /\ Anchored(held) /\ held \in Content
      /\ db \in Files
    BY DEF Idle, IInv, WorkIsFounded, DatabaseIsCurrent, TypeOK
<1>2. ASSUME NEW q \in Procs, Migrating(q) PROVE FALSE
  <2>1. Alone(q)
    BY <1>2 DEF Idle, IInv, MigrationIsCovered
  <2>2. p # q
    BY <1>2 DEF Migrating
  <2> QED BY <2>1, <2>2 DEF Alone
<1> QED BY <1>1, <1>2, FileKinds

\* ingest_snapshot and record_drift_events
LEMMA WritesKeep ==
    ASSUME Idle, NEW p \in Procs, Ingest(p) \/ RecordDrift(p)
    PROVE  IInv' /\ Follows(held, held')
<1>1. /\ pc[p] = "open"
      /\ UNCHANGED <<backup, pc, source, selected, reopened>>
    BY DEF Ingest, RecordDrift
<1>2. PICK d : d \in Content /\ Follows(held, d) /\ Anchored(d) /\ Commit(d)
  <2>1. CASE Ingest(p)
    <3>1. PICK o \in Origins, models \in (SUBSET Models) \ {{}}, f \in Forecasts :
             Commit(Inserted(db.content, o, models, f))
      BY <2>1 DEF Ingest
    <3> QED BY <1>1, <3>1, NobodyMigrates, InsertedFollows
  <2>2. CASE RecordDrift(p)
    <3>1. PICK o \in Origins, signals \in (SUBSET Signals) \ {{}} :
             Commit([db.content EXCEPT !.drift = @ \union ({o} \X signals)])
      BY <2>2 DEF RecordDrift
    <3>2. {o} \X signals \in SUBSET (Origins \X Signals)
      BY <3>1
    <3> QED BY <1>1, <3>1, <3>2, NobodyMigrates, DriftFollows
  <2> QED BY <2>1, <2>2
<1>3. /\ db' \in Files /\ held' \in Content /\ journal' \in BOOLEAN
      /\ DatabaseIsCurrent' /\ Survives' /\ MigrationIsCovered' /\ WorkIsFounded'
  <2>1. \A q \in Procs : ~Migrating(q) /\ ~Migrating(q)'
    BY <1>1, NobodyMigrates DEF Migrating
  <2> QED BY <1>1, <1>2, <2>1, CommitKeeps DEF Idle
<1>4. TypeOK'
    BY <1>1, <1>3 DEF Idle, IInv, TypeOK, auditVars
<1>5. held' = d
    BY <1>2 DEF Commit
<1> QED BY <1>2, <1>3, <1>4, <1>5, StaysIdle

\* enrich_outcomes up to the transaction: the rows selected are there.
LEMMA SelectKeeps ==
    ASSUME Idle, NEW p \in Procs, Select(p)
    PROVE  IInv' /\ held' = held
<1> USE DEF Select, Goto
<1>1. /\ pc[p] = "open" /\ pc' = [pc EXCEPT ![p] = "enrich"] /\ journal' = FALSE
      /\ UNCHANGED <<db, backup, source, held, reopened>>
    OBVIOUS
<1>2. /\ selected' = [selected EXCEPT ![p] = selected'[p]]
      /\ \A k \in DOMAIN selected'[p] :
            k \in Keys /\ db.content.row[k] # None /\ selected'[p][k] \in Prices
  <2>1. PICK actuals \in [Origins -> Prices \union {None}] :
           selected' = [selected EXCEPT ![p] =
              [k \in {j \in Keys : /\ db.content.row[j] # None
                                   /\ db.content.row[j].actual = None
                                   /\ actuals[j[1]] # None} |-> actuals[k[1]]]]
    OBVIOUS
  <2>2. DOMAIN selected = Procs
    BY DEF Idle, IInv, TypeOK
  <2>3. selected'[p] = [k \in {j \in Keys : /\ db.content.row[j] # None
                                   /\ db.content.row[j].actual = None
                                   /\ actuals[j[1]] # None} |-> actuals[k[1]]]
    BY <2>1, <2>2
  <2>4. \A k \in Keys : k[1] \in Origins
    BY DEF Keys
  <2> QED BY <2>1, <2>2, <2>3, <2>4
<1> USE DEF Idle, IInv
<1>3. TypeOK'
    BY <1>1, <1>2 DEF TypeOK, auditVars
<1>4. DatabaseIsCurrent' /\ Survives' /\ MigrationIsCovered'
  <2>1. DatabaseIsCurrent'
    BY <1>1 DEF DatabaseIsCurrent, Anchored
  <2>2. Survives'
    BY <1>1, NobodyMigrates DEF Survives, Holds
  <2>3. \A q \in Procs : ~Migrating(q)'
    BY <1>1, NobodyMigrates DEF Migrating, TypeOK
  <2> QED BY <2>1, <2>2, <2>3 DEF MigrationIsCovered
<1>5. WorkIsFounded'
  <2>1. db'.kind = "database"
    BY <1>1, NobodyMigrates
  <2>2. ASSUME NEW q \in Procs, pc'[q] = "enrich", NEW k \in DOMAIN selected'[q]
        PROVE  k \in Keys /\ db'.content.row[k] # None /\ selected'[q][k] \in Prices
    <3>1. CASE q = p
      BY <1>1, <1>2, <3>1
    <3>2. CASE q # p
      <4>1. selected'[q] = selected[q] /\ pc[q] = "enrich"
        BY <1>1, <1>2, <2>2, <3>2 DEF TypeOK
      <4> QED BY <1>1, <2>2, <4>1 DEF WorkIsFounded
    <3> QED BY <3>1, <3>2
  <2> QED BY <2>1, <2>2 DEF WorkIsFounded
<1> QED BY <1>1, <1>3, <1>4, <1>5, StaysIdle

\* enrich_outcomes: the transaction
LEMMA EnrichKeeps ==
    ASSUME Idle, NEW p \in Procs, Enrich(p)
    PROVE  IInv' /\ Follows(held, held')
<1>1. /\ pc[p] = "enrich" /\ pc' = [pc EXCEPT ![p] = "open"]
      /\ selected' = [selected EXCEPT ![p] = <<>>]
      /\ UNCHANGED <<backup, source, reopened>>
      /\ Commit(Filled(db.content, selected[p]))
    BY DEF Enrich, Goto
<1> DEFINE d == Filled(db.content, selected[p])
<1>2. d \in Content /\ Follows(held, d) /\ Anchored(d)
  <2>1. \A k \in DOMAIN selected[p] :
           k \in Keys /\ db.content.row[k] # None /\ selected[p][k] \in Prices
    BY <1>1 DEF Idle, IInv, WorkIsFounded
  <2>2. db.content \in Content /\ Anchored(db.content) /\ held = db.content
    BY <1>1, NobodyMigrates
  <2> QED BY <2>1, <2>2, FilledFollows
<1> HIDE DEF d
<1>3. TypeOK => pc' \in [Procs -> {"closed", "copy", "migrate", "validate", "restore",
                                   "open", "enrich"}]
    BY <1>1 DEF TypeOK
<1>4. /\ db' \in Files /\ held' \in Content /\ journal' \in BOOLEAN
      /\ DatabaseIsCurrent' /\ Survives' /\ MigrationIsCovered' /\ WorkIsFounded'
  <2>1. \A q \in Procs : ~Migrating(q) /\ ~Migrating(q)'
    BY <1>1, NobodyMigrates DEF Migrating, Idle, IInv, TypeOK
  <2>2. \A q \in Procs : pc'[q] = "enrich" =>
            pc[q] = "enrich" /\ selected'[q] = selected[q]
    BY <1>1 DEF Idle, IInv, TypeOK
  <2> QED BY <1>1, <1>2, <2>1, <2>2, CommitKeeps DEF Idle, d
<1>5. TypeOK'
    BY <1>1, <1>3, <1>4 DEF Idle, IInv, TypeOK, auditVars
<1>6. held' = d
    BY <1>1 DEF Commit, d
<1> QED BY <1>2, <1>4, <1>5, <1>6, StaysIdle

\* A process opens the store: what it takes for no database of an earlier time is
\* either none that held anything, or the end of the model.
LEMMA OpenKeeps ==
    ASSUME Idle, NEW p \in Procs, Open(p)
    PROVE  IInv' /\ held' = held
<1> USE DEF Idle, IInv
<1>1. /\ pc[p] = "closed" /\ \A q \in Procs : ~Migrating(q)
      /\ VersionOf(db) < Version => Alone(p)
      /\ \/ /\ VersionOf(db) < Version
            /\ pc' = [pc EXCEPT ![p] = IF Existed(db) THEN "copy" ELSE "migrate"]
         \/ /\ VersionOf(db) = Version /\ db.kind = "database"
            /\ pc' = [pc EXCEPT ![p] = "open"]
      /\ source' = [source EXCEPT ![p] = VersionOf(db)]
      /\ reopened' = (reopened \/ (db.kind # "database" /\ held # NoContent))
      /\ UNCHANGED <<db, journal, backup, selected, held>>
    BY DEF Open, Goto
<1>2. VersionOf(db) \in 0 .. Version /\ (Existed(db) <=> VersionOf(db) > 0)
    BY FileKinds DEF TypeOK
<1>3. TypeOK'
    BY <1>1, <1>2 DEF TypeOK, auditVars
<1>4. DatabaseIsCurrent'
    BY <1>1 DEF DatabaseIsCurrent, Anchored
<1>5. ASSUME ~reopened'
      PROVE  Survives' /\ MigrationIsCovered' /\ WorkIsFounded'
  <2>1. db.kind = "database" \/ held = NoContent
    BY <1>1, <1>5
  <2>2. Survives'
    BY <1>1, <2>1 DEF Survives, Holds, DatabaseIsCurrent
  <2>3. ASSUME NEW q \in Procs, Migrating(q)'
        PROVE  /\ Alone(q)' /\ q = p
               /\ source'[q] = 0 => held' = NoContent /\ pc'[q] # "copy"
               /\ source'[q] > 0 => pc'[q] = "copy"
    <3>1. q = p
      BY <1>1, <2>3 DEF Migrating, TypeOK
    <3>2. /\ VersionOf(db) < Version
          /\ pc' = [pc EXCEPT ![p] = IF Existed(db) THEN "copy" ELSE "migrate"]
      BY <1>1, <2>3, <3>1 DEF Migrating, TypeOK
    <3>3. Alone(p)'
      BY <1>1, <3>2 DEF Alone, TypeOK
    <3>4. source'[p] = VersionOf(db) /\ pc'[p] = IF Existed(db) THEN "copy" ELSE "migrate"
      BY <1>1, <3>2 DEF TypeOK
    <3>5. ~Existed(db) => held = NoContent
      BY <2>1 DEF Existed
    <3> QED BY <1>1, <1>2, <3>1, <3>3, <3>4, <3>5
  <2>4. MigrationIsCovered'
    BY <2>3 DEF MigrationIsCovered
  <2>5. WorkIsFounded'
    <3>1. ASSUME NEW q \in Procs, pc'[q] \in {"validate", "open", "enrich"}
          PROVE  db.kind = "database" /\ (pc'[q] = "enrich" => pc[q] = "enrich")
      BY <1>1, <3>1 DEF WorkIsFounded, TypeOK
    <3> QED BY <1>1, <3>1 DEF WorkIsFounded
  <2> QED BY <2>2, <2>4, <2>5
<1> QED BY <1>1, <1>3, <1>4, <1>5, StaysIdle

\* While a process migrates, the others are closed and the database it opened is there.
LEMMA MigratesAlone ==
    ASSUME Idle, NEW p \in Procs, Migrating(p)
    PROVE  /\ \A q \in Procs : q # p => pc[q] = "closed"
           /\ held # NoContent => Holds(db)
           /\ db.kind = "database" => db.content = held
           /\ source[p] \in 0 .. Version
           /\ source[p] = 0 => held = NoContent /\ pc[p] # "copy"
<1> USE DEF Idle, IInv
<1>1. \A q \in Procs : q # p => pc[q] = "closed"
    BY DEF MigrationIsCovered, Alone
<1>2. ~AllClosed
    BY DEF AllClosed, Migrating
<1>3. held # NoContent => Holds(db)
    BY <1>2 DEF Survives
<1> QED BY <1>1, <1>3 DEF MigrationIsCovered, DatabaseIsCurrent, TypeOK

\* Where one process is at work and ends, all are closed.
LEMMA EndsAlone ==
    ASSUME Idle, NEW p \in Procs, Migrating(p), pc' = [pc EXCEPT ![p] = "closed"]
    PROVE  /\ AllClosed' /\ MigrationIsCovered' /\ WorkIsFounded'
           /\ pc' \in [Procs -> {"closed", "copy", "migrate", "validate", "restore",
                                 "open", "enrich"}]
<1>1. pc \in [Procs -> {"closed", "copy", "migrate", "validate", "restore",
                        "open", "enrich"}]
    BY DEF Idle, IInv, TypeOK
<1>2. \A q \in Procs : pc'[q] = "closed"
    BY <1>1, MigratesAlone
<1> QED BY <1>1, <1>2 DEF AllClosed, MigrationIsCovered, WorkIsFounded, Migrating

LEMMA CopyKeeps ==
    ASSUME Idle, NEW p \in Procs, Copy(p)
    PROVE  IInv' /\ held' = held
<1> USE DEF Idle, IInv
<1>1. pc[p] = "copy" /\ Migrating(p) /\ UNCHANGED <<db, journal, source, selected, held, reopened>>
    BY DEF Copy, Migrating
<1>2. source[p] \in 1 .. Version
    BY <1>1, MigratesAlone
<1>3. DatabaseIsCurrent' /\ Survives'
    BY <1>1, MigratesAlone DEF DatabaseIsCurrent, Anchored, Survives, Holds
<1>4. CASE backup' = [backup EXCEPT ![source[p]] = db] /\ pc' = [pc EXCEPT ![p] = "migrate"]
  <2>1. TypeOK'
    BY <1>1, <1>4 DEF TypeOK, auditVars
  <2>2. \A q \in Procs : (q = p /\ pc'[q] = "migrate") \/ (q # p /\ pc'[q] = "closed")
    BY <1>1, <1>4, MigratesAlone DEF TypeOK
  <2>3. backup'[source'[p]] = db
    BY <1>1, <1>2, <1>4 DEF TypeOK
  <2>4. MigrationIsCovered'
    <3> SUFFICES ASSUME NEW q \in Procs, Migrating(q)'
                 PROVE  /\ Alone(q)'
                        /\ source'[q] > 0
                        /\ backup'[source'[q]].kind = "database" =>
                              backup'[source'[q]].content = held'
                        /\ held' # NoContent => Holds(backup[source[q]])'
      BY <1>1, <1>2 DEF MigrationIsCovered
    <3>1. q = p
      BY <2>2 DEF Migrating
    <3>2. Alone(q)'
      BY <2>2, <3>1 DEF Alone
    <3> QED BY <1>1, <1>2, <2>3, <3>1, <3>2, MigratesAlone DEF Holds
  <2>5. WorkIsFounded'
    BY <2>2 DEF WorkIsFounded
  <2> QED BY <1>1, <1>3, <2>1, <2>4, <2>5, StaysIdle
<1>5. CASE /\ \E f \in Cut(db) : backup' = [backup EXCEPT ![source[p]] = f]
           /\ pc' = [pc EXCEPT ![p] = "closed"]
  <2>1. backup' \in [1 .. Version -> Files]
    BY <1>5, CutIsNoDatabase DEF TypeOK
  <2>2. MigrationIsCovered' /\ WorkIsFounded' /\ TypeOK'
    BY <1>1, <1>5, <2>1, EndsAlone DEF TypeOK, auditVars
  <2> QED BY <1>1, <1>3, <2>2, StaysIdle
<1> QED BY <1>4, <1>5 DEF Copy, Goto

\* The migrations keep the content, and what fails keeps the file.
LEMMA MigrateKeeps ==
    ASSUME Idle, NEW p \in Procs, Migrate(p)
    PROVE  IInv' /\ held' = held
<1> USE DEF Idle, IInv
<1>1. /\ pc[p] = "migrate" /\ Migrating(p)
      /\ UNCHANGED <<journal, backup, source, selected, held, reopened>>
    BY DEF Migrate, Migrating
<1>2. PICK label \in {"validate", "restore"} : pc' = [pc EXCEPT ![p] = label]
    BY DEF Migrate, Goto
<1>3. \/ /\ pc' = [pc EXCEPT ![p] = "validate"]
         /\ db' \in Files /\ db'.kind = "database" /\ db'.content = held
      \/ /\ pc' = [pc EXCEPT ![p] = "restore"]
         /\ db' \in Files /\ (db'.kind = "database" => db'.content = held)
         /\ held # NoContent => db' = db
  <2>1. CASE /\ db.kind # "torn" /\ pc' = [pc EXCEPT ![p] = "validate"]
             /\ db' = Database(Version, IF Existed(db) THEN db.content ELSE NoContent)
    <3>1. (IF Existed(db) THEN db.content ELSE NoContent) = held
      BY <1>1, <2>1, MigratesAlone DEF Existed, Holds
    <3>2. held \in Content /\ Version \in 1 .. Version
      BY StoreAssumption DEF TypeOK
    <3> QED BY <2>1, <3>1, <3>2, DatabaseIsFile
  <2>2. CASE /\ db' = (IF Existed(db) THEN db ELSE Empty)
             /\ pc' = [pc EXCEPT ![p] = "restore"]
    BY <1>1, <2>2, MigratesAlone, PlainFiles DEF Existed, Holds, TypeOK
  <2> QED BY <2>1, <2>2 DEF Migrate, Goto
<1>4. TypeOK' /\ DatabaseIsCurrent' /\ Survives'
  <2>1. TypeOK'
    <3>1. db' \in Files
      BY <1>3
    <3> QED BY <1>1, <1>2, <3>1 DEF TypeOK, auditVars
  <2>2. DatabaseIsCurrent'
    BY <1>1, <1>3 DEF DatabaseIsCurrent, Anchored
  <2>3. Survives'
    BY <1>1, <1>3, MigratesAlone DEF Survives, Holds
  <2> QED BY <2>1, <2>2, <2>3
<1>5. \A q \in Procs : (q = p /\ pc'[q] \in {"validate", "restore"}) \/ pc'[q] = "closed"
  <2>1. pc \in [Procs -> {"closed", "copy", "migrate", "validate", "restore",
                          "open", "enrich"}]
    BY DEF TypeOK
  <2>2. \A q \in Procs : q # p => pc[q] = "closed"
    BY <1>1, MigratesAlone
  <2> QED BY <1>2, <2>1, <2>2
<1>6. MigrationIsCovered'
  <2> SUFFICES ASSUME NEW q \in Procs, Migrating(q)'
               PROVE  /\ Alone(q)' /\ pc'[q] # "copy" /\ pc[q] # "copy" /\ Migrating(q)
    BY <1>1 DEF MigrationIsCovered, Holds
  <2>1. q = p
    BY <1>5 DEF Migrating
  <2> QED BY <1>1, <1>5, <2>1 DEF Alone, Migrating
<1>7. WorkIsFounded'
    BY <1>1, <1>3, <1>5 DEF WorkIsFounded, TypeOK
<1> QED BY <1>1, <1>4, <1>6, <1>7, StaysIdle

LEMMA ValidateKeeps ==
    ASSUME Idle, NEW p \in Procs, Validate(p)
    PROVE  IInv' /\ held' = held
<1> USE DEF Idle, IInv
<1>1. /\ pc[p] = "validate" /\ Migrating(p)
      /\ UNCHANGED <<db, journal, backup, source, selected, held, reopened>>
    BY DEF Validate, Migrating
<1>2. PICK label \in {"open", "restore"} : pc' = [pc EXCEPT ![p] = label]
    BY DEF Validate, Goto
<1>3. \A q \in Procs : (q = p /\ pc'[q] \in {"open", "restore"}) \/ pc'[q] = "closed"
  <2>1. pc \in [Procs -> {"closed", "copy", "migrate", "validate", "restore",
                          "open", "enrich"}]
    BY DEF TypeOK
  <2>2. \A q \in Procs : q # p => pc[q] = "closed"
    BY <1>1, MigratesAlone
  <2> QED BY <1>2, <2>1, <2>2
<1>4. TypeOK'
    BY <1>1, <1>2 DEF TypeOK, auditVars
<1>5. DatabaseIsCurrent'
    BY <1>1 DEF DatabaseIsCurrent, Anchored
<1>6. Survives'
    BY <1>1, MigratesAlone DEF Survives, Holds
<1>7. MigrationIsCovered'
  <2> SUFFICES ASSUME NEW q \in Procs, Migrating(q)'
               PROVE  /\ Alone(q)' /\ pc'[q] # "copy" /\ pc[q] # "copy" /\ Migrating(q)
    BY <1>1 DEF MigrationIsCovered, Holds
  <2>1. q = p
    BY <1>3 DEF Migrating
  <2> QED BY <1>1, <1>3, <2>1 DEF Alone, Migrating
<1>8. WorkIsFounded'
    BY <1>1, <1>3 DEF WorkIsFounded
<1> QED BY <1>1, <1>4, <1>5, <1>6, <1>7, <1>8, StaysIdle

\* The exception path: the rollback copy holds what it puts back, or puts back less of.
LEMMA RestoreKeeps ==
    ASSUME Idle, NEW p \in Procs, Restore(p)
    PROVE  IInv' /\ held' = held
<1> USE DEF Idle, IInv
<1>1. /\ pc[p] = "restore" /\ Migrating(p) /\ pc' = [pc EXCEPT ![p] = "closed"]
      /\ UNCHANGED <<journal, backup, source, selected, held, reopened>>
    BY DEF Restore, Migrating, Goto
<1>2. AllClosed' /\ MigrationIsCovered' /\ WorkIsFounded' /\ source[p] \in 0 .. Version
    BY <1>1, EndsAlone, MigratesAlone
<1>3. /\ db' \in Files /\ (db'.kind = "database" => db'.content = held)
      /\ held # NoContent => Holds(db)' \/ \E v \in 1 .. Version : Holds(backup[v])'
  <2>1. CASE source[p] = 0
    BY <1>1, <2>1, MigratesAlone, PlainFiles DEF Restore
  <2>2. CASE source[p] > 0
    <3> DEFINE left == backup[source[p]]
    <3>1. /\ left \in Files /\ source[p] \in 1 .. Version
          /\ left.kind = "database" => left.content = held
          /\ held # NoContent => Holds(left)
      BY <1>1, <1>2, <2>2 DEF TypeOK, MigrationIsCovered
    <3>2. db' = left \/ db' \in Cut(left)
      BY <2>2 DEF Restore
    <3>3. held # NoContent => Holds(backup[source[p]])'
      BY <1>1, <3>1 DEF Holds
    <3>4. CASE db' = left
      BY <1>1, <3>1, <3>3, <3>4
    <3>5. CASE db' \in Cut(left)
      BY <1>1, <3>1, <3>3, <3>5, CutIsNoDatabase
    <3> QED BY <3>2, <3>4, <3>5
  <2> QED BY <1>2, <2>1, <2>2
<1>4. TypeOK'
  <2>1. db' \in Files
    BY <1>3
  <2> QED BY <1>1, <2>1 DEF TypeOK, auditVars
<1>5. DatabaseIsCurrent'
    BY <1>1, <1>3 DEF DatabaseIsCurrent, Anchored
<1>6. Survives'
    BY <1>1, <1>2, <1>3 DEF Survives, auditVars
<1> QED BY <1>1, <1>2, <1>4, <1>5, <1>6, StaysIdle

\* A process ends, or is killed and leaves a journal that can be rolled back.
LEMMA CloseKeeps ==
    ASSUME Idle, NEW p \in Procs, Close(p)
    PROVE  IInv' /\ held' = held
<1> USE DEF Idle, IInv
<1>1. /\ pc[p] # "closed" /\ pc' = [pc EXCEPT ![p] = "closed"]
      /\ selected' = [selected EXCEPT ![p] = <<>>]
      /\ db' \in {db, IF Existed(db) THEN db ELSE Empty} /\ journal' \in {journal, TRUE}
      /\ UNCHANGED <<backup, source, held, reopened>>
    BY DEF Close, Goto
<1>2. /\ db' \in Files /\ (db'.kind = "database" \/ db.kind = "database" => db' = db)
    BY <1>1, PlainFiles DEF Existed, TypeOK
<1>3. TypeOK'
  <2>1. db' \in Files /\ journal' \in BOOLEAN
    BY <1>1, <1>2 DEF TypeOK
  <2> QED BY <1>1, <2>1 DEF TypeOK, auditVars
<1>4. DatabaseIsCurrent'
    BY <1>1, <1>2 DEF DatabaseIsCurrent, Anchored
<1>5. Survives'
  <2>1. ~AllClosed
    BY <1>1 DEF AllClosed
  <2> QED BY <1>1, <1>2, <2>1 DEF Survives, Holds
<1>6. MigrationIsCovered'
  <2>1. ASSUME NEW q \in Procs, Migrating(q)' PROVE FALSE
    <3>1. q # p /\ Migrating(q)
      BY <1>1, <2>1 DEF Migrating, TypeOK
    <3>2. pc[p] = "closed"
      BY <3>1, MigratesAlone
    <3> QED BY <1>1, <3>2
  <2> QED BY <2>1 DEF MigrationIsCovered
<1>7. WorkIsFounded'
  <2>1. \A q \in Procs : pc'[q] # "closed" =>
            pc'[q] = pc[q] /\ selected'[q] = selected[q]
    BY <1>1 DEF TypeOK
  <2> QED BY <1>2, <2>1 DEF WorkIsFounded
<1> QED BY <1>1, <1>3, <1>4, <1>5, <1>6, <1>7, StaysIdle

LEMMA RollBackKeeps ==
    ASSUME Idle, RollBack
    PROVE  IInv' /\ held' = held
<1> USE DEF Idle, IInv, RollBack
<1>1. TypeOK' /\ DatabaseIsCurrent' /\ Survives'
    BY DEF TypeOK, DatabaseIsCurrent, Anchored, Survives, AllClosed, Holds, auditVars
<1>2. MigrationIsCovered' /\ WorkIsFounded'
    BY DEF MigrationIsCovered, Migrating, Alone, Holds, WorkIsFounded
<1> QED BY <1>1, <1>2, StaysIdle

LEMMA StoreKeeps ==
    ASSUME Idle, Next PROVE IInv' /\ Follows(held, held')
<1>1. CASE RollBack
    BY <1>1, RollBackKeeps, FollowsItself
<1>2. ASSUME NEW p \in Procs,
             \/ Open(p) \/ Copy(p) \/ Migrate(p) \/ Validate(p) \/ Restore(p)
             \/ Select(p) \/ Close(p)
      PROVE  IInv' /\ Follows(held, held')
  <2>1. IInv' /\ held' = held
    BY <1>2, OpenKeeps, CopyKeeps, MigrateKeeps, ValidateKeeps, RestoreKeeps,
       SelectKeeps, CloseKeeps
  <2> QED BY <2>1, FollowsItself
<1>3. ASSUME NEW p \in Procs, Ingest(p) \/ RecordDrift(p) \/ Enrich(p)
      PROVE  IInv' /\ Follows(held, held')
    BY <1>3, WritesKeep, EnrichKeeps
<1> QED BY <1>1, <1>2, <1>3 DEF Next

-----------------------------------------------------------------------------
(* The audit, which runs while no process does. *)

\* What holds of the store while nobody works on it is little.
LEMMA NobodyWorks == AllClosed => MigrationIsCovered /\ WorkIsFounded
BY DEF AllClosed, MigrationIsCovered, WorkIsFounded, Migrating

LEMMA AuditRuns ==
    ASSUME IInv, auditor # "idle"
    PROVE  /\ AllClosed /\ ~reopened /\ db.kind = "database" /\ Holds(db)
           /\ db.content = held /\ held \in Content /\ Anchored(held)
BY DEF IInv, AuditIsCovered, DatabaseIsCurrent, Holds, TypeOK

LEMMA AuditKeeps ==
    ASSUME IInv, NEW actuals \in Actuals, Audit(actuals)
    PROVE  IInv' /\ held' = held
<1> USE DEF IInv, Audit
<1>1. db' = db /\ held' = held /\ AllClosed /\ UNCHANGED <<vars, saved>> /\ auditor' = "copy"
    BY DEF vars, AllClosed
<1>2. /\ plan'.actions = Proposed(db.content, actuals) /\ plan'.actuals = actuals
      /\ db.kind = "database" /\ Holds(db)
    BY DEF Blocked, DatabaseIsCurrent, Holds
<1>3. AuditIsCovered'
    BY <1>1, <1>2 DEF AuditIsCovered, AllClosed, vars
<1>4. TypeOK' /\ DatabaseIsCurrent' /\ Survives'
    BY <1>1, <1>2 DEF TypeOK, DatabaseIsCurrent, Anchored, Survives, Holds, vars
<1>5. MigrationIsCovered' /\ WorkIsFounded'
  <2>1. AllClosed'
    BY <1>1 DEF AllClosed, vars
  <2> QED BY <2>1, NobodyWorks, PTL
<1> QED BY <1>1, <1>3, <1>4, <1>5

\* Where the audit ends, or goes on without having changed the store, what it keeps
\* is kept.
LEMMA AuditSteps ==
    ASSUME IInv, auditor # "idle", UNCHANGED <<db, backup, pc, source, selected, held, reopened>>,
           journal' \in BOOLEAN, saved' \in Files,
           auditor' \in {"idle", "copy", "repair", "undo", "verify"}, AuditIsCovered'
    PROVE  IInv'
<1>1. AllClosed' /\ Holds(db)'
    BY AuditRuns DEF AllClosed, Holds
<1>2. TypeOK' /\ DatabaseIsCurrent' /\ Survives'
    BY <1>1 DEF IInv, TypeOK, DatabaseIsCurrent, Anchored, Survives
<1>3. MigrationIsCovered' /\ WorkIsFounded'
    BY <1>1, NobodyWorks, PTL
<1> QED BY <1>2, <1>3 DEF IInv

LEMMA CopyForRepairKeeps ==
    ASSUME IInv, CopyForRepair PROVE IInv' /\ held' = held
<1>1. /\ auditor = "copy" /\ UNCHANGED vars
      /\ \/ saved' = db /\ auditor' = "repair" /\ plan' = plan
         \/ saved' = saved /\ auditor' = "idle"
    BY DEF CopyForRepair
<1>2. AuditIsCovered'
    BY <1>1 DEF IInv, AuditIsCovered, AllClosed, vars
<1> QED BY <1>1, <1>2, AuditSteps DEF IInv, TypeOK, vars

LEMMA VerifyOrKilledKeeps ==
    ASSUME IInv, Verify \/ AuditKilled PROVE IInv' /\ held' = held
<1>1. /\ auditor # "idle" /\ auditor' = "idle" /\ saved' = Absent
      /\ UNCHANGED <<db, backup, pc, source, selected, held, reopened>>
      /\ journal' \in BOOLEAN
    BY DEF Verify, AuditKilled, vars, IInv, TypeOK
<1>2. AuditIsCovered'
    BY <1>1 DEF AuditIsCovered
<1> QED BY <1>1, <1>2, AuditSteps, PlainFiles

\* What the transaction of the repair makes of the history follows it.
LEMMA RepairKeeps ==
    ASSUME IInv, Repair PROVE IInv' /\ Follows(held, held')
<1>1. auditor = "repair" /\ UNCHANGED <<backup, pc, source, selected, reopened, plan, saved>>
    BY DEF Repair
<1>2. CASE UNCHANGED <<db, held, journal>> /\ auditor' = "undo"
  <2>1. AuditIsCovered'
    BY <1>1, <1>2 DEF IInv, AuditIsCovered, AllClosed
  <2> QED BY <1>1, <1>2, <2>1, AuditSteps, FollowsItself DEF IInv, TypeOK
<1>3. CASE /\ Commit(Repaired(db.content, plan.actions, plan.actuals))
           /\ auditor' = "verify"
  <2> DEFINE d == Repaired(db.content, plan.actions, plan.actuals)
  <2>1. /\ plan.actuals \in Actuals
        /\ plan.actions = Proposed(db.content, plan.actuals)
    BY <1>1 DEF IInv, AuditIsCovered
  <2>2. d \in Content /\ Follows(held, d) /\ Anchored(d)
    BY <1>1, <2>1, AuditRuns, RepairMends
  <2> HIDE DEF d
  <2>3. AllClosed /\ ~reopened
    BY <1>1, AuditRuns
  <2>4. /\ db' \in Files /\ held' \in Content /\ journal' \in BOOLEAN /\ db'.kind = "database"
        /\ DatabaseIsCurrent' /\ Survives' /\ MigrationIsCovered' /\ WorkIsFounded'
    <3>1. \A p \in Procs : ~Migrating(p) /\ ~Migrating(p)' /\ pc'[p] # "enrich"
      BY <1>1, <2>3 DEF AllClosed, Migrating
    <3> QED BY <1>1, <1>3, <2>2, <2>3, <3>1, CommitKeeps DEF d
  <2>5. TypeOK'
    BY <1>1, <1>3, <2>4 DEF IInv, TypeOK
  <2>6. AuditIsCovered'
    BY <1>1, <1>3, <2>3, <2>4 DEF AuditIsCovered, AllClosed
  <2>7. held' = d
    BY <1>3 DEF Commit, d
  <2> QED BY <2>2, <2>4, <2>5, <2>6, <2>7 DEF IInv
<1> QED BY <1>1, <1>2, <1>3 DEF Repair

\* The exception path of the repair: its copy holds what it puts back, or puts back
\* less of.
LEMMA UndoKeeps ==
    ASSUME IInv, Undo PROVE IInv' /\ held' = held
<1>1. /\ auditor = "undo" /\ auditor' = "idle" /\ saved = db
      /\ UNCHANGED <<journal, backup, pc, source, selected, held, reopened>>
      /\ \/ db' = saved /\ saved' = Absent
         \/ db' \in Cut(saved) /\ saved' = saved
    BY DEF Undo, IInv, AuditIsCovered
<1>2. AllClosed' /\ AuditIsCovered' /\ ~reopened'
    BY <1>1, AuditRuns DEF AllClosed, AuditIsCovered
<1>3. /\ db' \in Files /\ saved' \in Files /\ (db'.kind = "database" => db'.content = held)
      /\ Holds(db)' \/ Holds(saved)'
  <2>1. db \in Files /\ Holds(db)
    BY <1>1, AuditRuns DEF IInv, TypeOK
  <2>2. CASE db' = saved /\ saved' = Absent
    BY <1>1, <2>1, <2>2, PlainFiles DEF Holds
  <2>3. CASE db' \in Cut(saved) /\ saved' = saved
    BY <1>1, <2>1, <2>3, CutIsNoDatabase DEF Holds
  <2> QED BY <1>1, <2>2, <2>3
<1>4. TypeOK'
  <2>1. db' \in Files /\ saved' \in Files
    BY <1>3
  <2> QED BY <1>1, <2>1 DEF IInv, TypeOK
<1>5. DatabaseIsCurrent'
    BY <1>1, <1>2, <1>3 DEF IInv, DatabaseIsCurrent, Anchored
<1>6. Survives'
    BY <1>1, <1>2, <1>3 DEF Survives
<1>7. MigrationIsCovered' /\ WorkIsFounded'
    BY <1>2, NobodyWorks, PTL
<1> QED BY <1>1, <1>2, <1>4, <1>5, <1>6, <1>7 DEF IInv

LEMMA StepKeeps ==
    ASSUME IInv, [AuditNext]_allVars PROVE IInv' /\ Follows(held, held')
<1>1. CASE UNCHANGED allVars
  <2> USE <1>1 DEF allVars, vars, auditVars
  <2>1. TypeOK' /\ DatabaseIsCurrent' /\ AuditIsCovered'
    BY DEF IInv, TypeOK, DatabaseIsCurrent, Anchored, AuditIsCovered, AllClosed
  <2>2. ~reopened => Survives' /\ MigrationIsCovered' /\ WorkIsFounded'
    BY DEF IInv, Survives, AllClosed, Holds, MigrationIsCovered, Migrating, Alone,
           WorkIsFounded
  <2> QED BY <2>1, <2>2, FollowsItself DEF IInv
<1>2. CASE auditor = "idle" /\ ~reopened /\ Next /\ UNCHANGED auditVars
    BY <1>2, StoreKeeps DEF Idle
<1>3. CASE Repair
    BY <1>3, RepairKeeps
<1>4. CASE (\E actuals \in Actuals : Audit(actuals)) \/ CopyForRepair \/ Undo \/ Verify
               \/ AuditKilled
  <2>1. IInv' /\ held' = held
    BY <1>4, AuditKeeps, CopyForRepairKeeps, UndoKeeps, VerifyOrKilledKeeps
  <2> QED BY <2>1, FollowsItself
<1> QED BY <1>1, <1>2, <1>3, <1>4 DEF AuditNext

LEMMA StartKeeps == AuditInit => IInv
<1> SUFFICES ASSUME AuditInit PROVE IInv
    OBVIOUS
<1>1. held \in Content /\ Anchored(held) /\ db \in Files
      /\ (db.kind = "database" => db.content = held) /\ (held # NoContent => Holds(db))
  <2>1. CASE db = Absent /\ held = NoContent
    BY <2>1, NoContentIsContent, PlainFiles
  <2>2. ASSUME NEW v \in 1 .. Version, NEW f \in Forecasts, NEW target \in {"due", "drifted"},
               held = [manifest |-> [o \in Origins |-> f],
                       row |-> [k \in Keys |-> [NewRow(k, f) EXCEPT !.target = target]],
                       drift |-> {}],
               db = Database(v, held)
        PROVE  /\ held \in Content /\ Anchored(held) /\ db \in Files
               /\ db.content = held /\ Holds(db)
    <3>1. \A k \in Keys : [NewRow(k, f) EXCEPT !.target = target] \in Row
      BY NewRowIsRow DEF Row
    <3> DEFINE rows == [k \in Keys |-> [NewRow(k, f) EXCEPT !.target = target]]
               manifest == [o \in Origins |-> f]
    <3>2. held \in Content
      <4>1. rows \in [Keys -> Row \union {None}] /\ manifest \in [Origins -> Forecasts \union {None}]
        BY <3>1
      <4>2. held = [manifest |-> manifest, row |-> rows, drift |-> {}]
        BY <2>2
      <4> HIDE DEF rows, manifest
      <4> QED BY <4>1, <4>2 DEF Content
    <3>3. \A o \in Origins : <<o, Ensemble>> \in Keys /\ held.row[<<o, Ensemble>>] # None
      BY <2>2, <3>1, StoreAssumption, RowAssumption DEF Keys
    <3>4. db \in Files /\ db.kind = "database" /\ db.content = held
      <4> HIDE DEF Content, Files
      <4> QED BY <2>2, <3>2, DatabaseIsFile
    <3> QED BY <3>2, <3>3, <3>4 DEF Anchored, Holds
  <2> QED BY <2>1, <2>2 DEF AuditInit, Init
<1>2. TypeOK
  <2>1. /\ journal = FALSE /\ reopened = FALSE /\ auditor = "idle" /\ saved = Absent
        /\ backup = [v \in 1 .. Version |-> Absent]
        /\ pc = [p \in Procs |-> "closed"] /\ source = [p \in Procs |-> 0]
        /\ selected = [p \in Procs |-> <<>>]
    BY DEF AuditInit, Init
  <2>2. selected = [p \in Procs |-> selected[p]]
    BY <2>1, Zenon
  <2>3. 0 \in 0 .. Version
    BY StoreAssumption
  <2> QED BY <1>1, <2>1, <2>2, <2>3, PlainFiles DEF TypeOK
<1>3. MigrationIsCovered /\ WorkIsFounded
    BY NobodyWorks DEF AllClosed, AuditInit, Init
<1> QED BY <1>1, <1>2, <1>3 DEF AuditInit, Init, IInv, DatabaseIsCurrent, Survives, AuditIsCovered

LEMMA HistoryIsFollowed == AuditSpec => []IInv
BY StartKeeps, StepKeeps, PTL DEF AuditSpec

-----------------------------------------------------------------------------
(* migrate_database copies the database before it changes it and puts the copy back,
   repair_database does the same: however the disk fills up and whichever process is
   killed, one of the files holds every forecast and outcome ever committed, until a
   process takes the remainder of a restore for a database. *)
THEOREM NothingCommittedIsLost == AuditSpec => []AuditedHistorySurvives
<1>1. IInv => AuditedHistorySurvives
    BY DEF IInv, Survives, AuditedHistorySurvives, HistorySurvives
<1> QED BY <1>1, HistoryIsFollowed, PTL

(* ingest_snapshot's INSERT OR IGNORE, the migrations and their rollback, the outcomes
   and the repairs: none replaces or drops the first forecast of an origin and model. *)
THEOREM FirstForecastIsKept == AuditSpec => FirstForecastStands
<1>1. IInv /\ [AuditNext]_allVars =>
        [\A k \in Keys : (held.row[k] # None /\ ~reopened) =>
            held'.row[k] # None /\ held'.row[k].by = held.row[k].by]_vars
    BY StepKeeps DEF Follows
<1> QED BY <1>1, HistoryIsFollowed, PTL DEF AuditSpec, FirstForecastStands

(* _enrich_rows fills in what is still NULL, a repair judges again and does not price
   again: the outcome of a forecast stands, however many processes saw it pending. *)
THEOREM OutcomeIsKept == AuditSpec => OutcomeIsFinal
<1>1. IInv /\ [AuditNext]_allVars =>
        [\A k \in Keys : (held.row[k] # None /\ held.row[k].actual # None /\ ~reopened) =>
            held'.row[k] # None /\ held'.row[k].actual = held.row[k].actual]_vars
    BY StepKeeps DEF Follows
<1> QED BY <1>1, HistoryIsFollowed, PTL DEF AuditSpec, OutcomeIsFinal

\* The repair a drill tries on its copy leaves what the audit passes, and no row more
\* or less.
LEMMA DrillRepairs ==
    ASSUME NEW f \in Files, f.kind = "database", f.version = Version, ~Blocked(f),
           Anchored(f.content)
    PROVE  DrillPasses(f) <=> \E o \in Origins : f.content.manifest[o] # None
<1> DEFINE c == f.content
           none == NoPlan.actuals
           mended == Database(f.version, Repaired(c, Proposed(c, none), none))
           scratch == IF ~Blocked(f) /\ Mendable(c) # {} THEN mended ELSE f
<1>1. c \in Content /\ f.version \in 1 .. Version
    BY FileKinds
<1>2. none \in Actuals
    BY DEF NoPlan, Actuals
<1>3. /\ scratch.kind = "database" /\ scratch.version = Version
      /\ scratch.content.manifest = c.manifest
      /\ \A k \in Keys : scratch.content.row[k] = None <=> c.row[k] = None
      /\ Mendable(scratch.content) = {}
  <2>1. CASE Mendable(c) # {}
    <3> DEFINE d == Repaired(c, Proposed(c, none), none)
    <3>1. /\ d \in Content /\ d.manifest = c.manifest /\ Mendable(d) = {}
          /\ \A k \in Keys : d.row[k] = None <=> c.row[k] = None
      BY <1>1, <1>2, RepairMends
    <3>2. scratch = Database(f.version, d)
      BY <2>1
    <3> HIDE DEF d
    <3>3. /\ scratch.kind = "database" /\ scratch.version = Version /\ scratch.content = d
      BY <1>1, <3>1, <3>2, DatabaseIsFile
    <3> QED BY <3>1, <3>3
  <2>2. CASE Mendable(c) = {}
    BY <2>2
  <2> QED BY <2>1, <2>2
<1>4. DrillPasses(f) <=> /\ Healthy(scratch)
                         /\ \E o \in Origins : scratch.content.manifest[o] # None
                         /\ \E k \in Keys : scratch.content.row[k] # None
    BY DEF DrillPasses
<1> HIDE DEF scratch
<1>5. ~Blocked(scratch)
  <2>1. OrphanGroups(c) = {} /\ OrphanRows(c) = {}
    BY DEF Blocked
  <2>2. OrphanRows(scratch.content) = {}
    BY <1>3, <2>1 DEF OrphanRows
  <2>3. OrphanGroups(scratch.content) = {}
    <3>1. \A o \in Origins, m \in Models : <<o, m>> \in Keys
      BY DEF Keys
    <3>2. \A o \in Origins, m \in Models :
             scratch.content.row[<<o, m>>] = None <=> c.row[<<o, m>>] = None
      BY <1>3, <3>1
    <3> QED BY <2>1, <3>2, StoreAssumption DEF OrphanGroups
  <2> QED BY <1>3, <2>2, <2>3 DEF Blocked
<1>6. (\E o \in Origins : c.manifest[o] # None) => \E k \in Keys : c.row[k] # None
    BY DEF Anchored
<1> QED BY <1>3, <1>4, <1>5, <1>6 DEF Healthy

(* disaster_recovery.run_drill and the daily audit agree on every history the store can
   come to: a recent archive with a forecast passes unless the audit would refuse to
   repair the history it is of. *)
THEOREM DrillAndAuditAgree == AuditSpec => []DrillAgreesWithAudit
<1>1. IInv => DrillAgreesWithAudit
  <2> SUFFICES ASSUME IInv, db.kind = "database", db.version = Version
               PROVE  DrillPasses(db) <=>
                          ~Blocked(db) /\ db.content.manifest # NoContent.manifest
    BY DEF DrillAgreesWithAudit
  <2>1. db \in Files /\ Anchored(db.content)
    BY DEF IInv, TypeOK, DatabaseIsCurrent
  <2>2. db.content.manifest # NoContent.manifest <=>
           \E o \in Origins : db.content.manifest[o] # None
    <3>1. db.content \in Content
      BY <2>1, FileKinds
    <3>2. db.content.manifest \in [Origins -> Forecasts \union {None}]
      BY <3>1 DEF Content
    <3>3. NoContent.manifest = [o \in Origins |-> None]
      BY DEF NoContent
    <3> QED BY <3>2, <3>3
  <2>3. CASE Blocked(db)
    <3>1. ~Healthy(db)
      BY <2>3 DEF Healthy
    <3> QED BY <2>3, <3>1 DEF DrillPasses
  <2>4. CASE ~Blocked(db)
    BY <2>1, <2>2, <2>4, DrillRepairs
  <2> QED BY <2>3, <2>4
<1> QED BY <1>1, HistoryIsFollowed, PTL

-----------------------------------------------------------------------------
(* The receipt of a drill. *)

\* While a drill is under way the copy in force stays the one it restored.
DrillHoldsCopy == step = "drill" => restored = copy

\* The steps of the other jobs: none runs, or begins one of the drill's, meanwhile.
OtherJobs ==
    \/ StartRun \/ UploadBackup \/ VerifyBackup \/ CopyBackup \/ Replace \/ Prune
    \/ FirstCopy \/ CreateRelease \/ Refresh \/ Monitor \/ RunLost \/ Recover
    \/ AuditRepairs \/ AuditUpload \/ AuditReplace

LEMMA OtherJobsWait ==
    ASSUME OtherJobs PROVE (step' = "drill" => UNCHANGED protectionVars) /\ receipt' = receipt
<1>1. CASE StartRun \/ Refresh \/ Monitor \/ Recover \/ AuditRepairs
    BY <1>1 DEF StartRun, Refresh, Monitor, Recover, AuditRepairs, protectionVars
<1>2. CASE UploadBackup \/ VerifyBackup \/ CopyBackup \/ Replace \/ Prune
    BY <1>2 DEF UploadBackup, VerifyBackup, CopyBackup, Replace, Prune, Stop
<1>3. CASE FirstCopy \/ CreateRelease \/ RunLost \/ AuditUpload \/ AuditReplace
    BY <1>3 DEF FirstCopy, CreateRelease, RunLost, AuditUpload, AuditReplace, Stop
<1> QED BY <1>1, <1>2, <1>3 DEF OtherJobs

LEMMA StepHolds ==
    DrillHoldsCopy /\ [ProtectionNext]_protectionVars =>
        DrillHoldsCopy' /\ (receipt' # receipt => receipt' = restored)
<1> SUFFICES ASSUME DrillHoldsCopy, [ProtectionNext]_protectionVars
             PROVE  DrillHoldsCopy' /\ (receipt' # receipt => receipt' = restored)
    OBVIOUS
<1>1. CASE OtherJobs \/ UNCHANGED protectionVars
    BY <1>1, OtherJobsWait DEF DrillHoldsCopy, protectionVars
<1>2. CASE DrillRestores
    BY <1>2 DEF DrillRestores, DrillHoldsCopy
<1>3. CASE DrillRecords
    BY <1>3 DEF DrillRecords, Stop, DrillHoldsCopy
<1> QED BY <1>1, <1>2, <1>3 DEF ProtectionNext, OtherJobs

(* independent_backup.record_restore reads the manifest a second time when the drill
   is over: as the jobs of the concurrency group take turns, the receipt still names
   the copy that was restored. *)
THEOREM ReceiptIsOfTheDrill == ProtectionSpec => ReceiptWasDrilled
<1>1. ProtectionInit => DrillHoldsCopy
    BY DEF ProtectionInit, DrillHoldsCopy
<1> QED BY <1>1, StepHolds, PTL DEF ProtectionSpec, ReceiptWasDrilled

-----------------------------------------------------------------------------
(* What protects the history. *)

ProtectionTypeOK ==
    /\ canonical \in Nat \union {Missing} /\ copy \in Nat \union {Missing}
    /\ published \in Nat /\ prior \in Nat /\ serial \in Nat /\ restored \in Nat
    /\ backups \in Seq({backups[i] : i \in DOMAIN backups})
    /\ \A i \in DOMAIN backups : backups[i].db \in Nat

\* The newest generation is an intact copy of this version.
NewestIs(version) == backups # <<>> /\ backups[1].db = version /\ backups[1].good

PublishedIsLatest ==
    /\ canonical # Missing => canonical = published
    /\ prior <= published /\ published <= serial
    /\ copy # Missing => copy <= serial
    /\ \A i \in DOMAIN backups : backups[i].db <= serial

\* The steps of a run that publishes, and of an audit, before the canonical asset goes.
Covered ==
    /\ step \in {"backup", "verify", "copy", "replace", "audit_upload", "audit_replace"} =>
          canonical = restored
    /\ step = "verify" => backups # <<>> /\ backups[1].db = restored
    /\ step \in {"copy", "replace"} => NewestIs(restored)
    /\ step = "audit_replace" => backups # <<>> /\ backups[1].db = restored
    /\ step = "replace" => copy = restored
    /\ step = "prune" => canonical # Missing
    /\ step \in {"first_copy", "create"} => published = 0
    /\ step = "create" => copy = serial

\* Where the canonical asset is gone, nothing but the operator touches what is left,
\* and the newest generation is the one to recover unless an audit lost it.
LostIsLeft ==
    published > 0 /\ canonical = Missing =>
        step \in {"idle", "drill"} /\ (NewestIs(published) \/ blind)

ProtectionIInv ==
    ProtectionTypeOK /\ PublishedIsLatest /\ Covered /\ LostIsLeft /\ IndependentCopyFollows

\* What a function on the first positions is.
LEMMA IsASequence ==
    ASSUME NEW n \in Nat, NEW f, f = [i \in 1 .. n |-> f[i]]
    PROVE  f \in Seq({f[i] : i \in DOMAIN f})
<1> DEFINE S == {f[i] : i \in DOMAIN f}
<1>1. DOMAIN f = 1 .. n
    OBVIOUS
<1>2. \A i \in 1 .. n : f[i] \in S
    BY <1>1
<1> HIDE DEF S
<1>3. f \in [1 .. n -> S]
    BY <1>2
<1>4. f \in Seq(S)
    BY <1>3
<1> QED BY <1>4 DEF S

\* How many numbers there are up to one.
LEMMA NumbersUpTo ==
    ASSUME NEW c \in Nat
    PROVE  IsFiniteSet(1 .. c) /\ Cardinality(1 .. c) = c
<1>1. 1 \in Int /\ c \in Int
    OBVIOUS
<1>2. IsFiniteSet(1 .. c) /\ Cardinality(1 .. c) = IF 1 > c THEN 0 ELSE c - 1 + 1
    BY <1>1, FS_Interval
<1> QED BY <1>2

\* What the deletions leave is a list of generations.
LEMMA WithoutIsASequence ==
    ASSUME NEW n \in Nat, NEW bs, DOMAIN bs = 1 .. n, NEW deleted
    PROVE  Without(bs, deleted) \in Seq({Without(bs, deleted)[i] :
                                             i \in DOMAIN Without(bs, deleted)})
<1> DEFINE left == DOMAIN bs \ deleted
           w == Without(bs, deleted)
<1>1. Cardinality(left) \in Nat
  <2>1. IsFiniteSet(1 .. n)
    BY FS_Interval
  <2>2. left \subseteq 1 .. n
    OBVIOUS
  <2> QED BY <2>1, <2>2, FS_Subset, FS_CardinalityType
<1>2. w = [i \in 1 .. Cardinality(left) |-> w[i]]
    BY DEF Without
<1> HIDE DEF w
<1>3. w \in Seq({w[i] : i \in DOMAIN w})
    BY <1>1, <1>2, IsASequence
<1> QED BY <1>3 DEF w

\* ... and none that was not there.
LEMMA WithoutAddsNone ==
    ASSUME NEW n \in Nat, NEW bs, DOMAIN bs = 1 .. n, NEW deleted
    PROVE  \A k \in DOMAIN Without(bs, deleted) :
              \E i \in DOMAIN bs : Without(bs, deleted)[k] = bs[i]
<1> DEFINE left == DOMAIN bs \ deleted
           UpTo(i) == {j \in left : j <= i}
           rank == [i \in left |-> Cardinality(UpTo(i))]
           ranks == 1 .. Cardinality(left)
<1>1. left \subseteq Nat /\ IsFiniteSet(left) /\ Cardinality(left) \in Nat
  <2>1. IsFiniteSet(1 .. n)
    BY FS_Interval
  <2>2. left \subseteq 1 .. n
    OBVIOUS
  <2> QED BY <2>1, <2>2, FS_Subset, FS_CardinalityType
<1> HIDE DEF left
<1>2. ASSUME NEW i \in left
      PROVE  /\ UpTo(i) \subseteq left /\ i \in UpTo(i) /\ IsFiniteSet(UpTo(i))
             /\ Cardinality(UpTo(i)) \in ranks /\ Cardinality(UpTo(i)) \in Nat
  <2>1. UpTo(i) \subseteq left /\ i \in UpTo(i)
    BY <1>1
  <2>2. IsFiniteSet(UpTo(i)) /\ Cardinality(UpTo(i)) <= Cardinality(left)
    BY <1>1, <2>1, FS_Subset
  <2>3. Cardinality(UpTo(i)) \in Nat /\ Cardinality(UpTo(i)) # 0
    BY <2>1, <2>2, FS_CardinalityType, FS_EmptySet
  <2> QED BY <1>1, <2>1, <2>2, <2>3
<1>3. ASSUME NEW i \in left, NEW k \in left, i < k
      PROVE  Cardinality(UpTo(i)) < Cardinality(UpTo(k))
  <2>1. k \notin UpTo(i) /\ UpTo(i) \union {k} \subseteq UpTo(k)
    <3>1. i \in Nat /\ k \in Nat
      BY <1>1
    <3>2. k \notin UpTo(i)
      BY <1>3, <3>1
    <3>3. ASSUME NEW x \in UpTo(i) \union {k} PROVE x \in UpTo(k)
      <4>1. CASE x = k
        BY <3>1, <4>1
      <4>2. CASE x \in left /\ x <= i
        BY <1>1, <1>3, <3>1, <4>2
      <4> QED BY <4>1, <4>2
    <3> QED BY <3>2, <3>3
  <2>2. Cardinality(UpTo(i) \union {k}) = Cardinality(UpTo(i)) + 1
    BY <1>2, <2>1, FS_AddElement
  <2>3. Cardinality(UpTo(i) \union {k}) <= Cardinality(UpTo(k))
    BY <1>2, <2>1, FS_Subset
  <2>4. Cardinality(UpTo(i)) \in Nat /\ Cardinality(UpTo(k)) \in Nat
    BY <1>2
  <2> HIDE DEF UpTo
  <2> QED BY <2>2, <2>3, <2>4
<1>4. rank \in Injection(left, ranks)
  <2>1. rank \in [left -> ranks]
    BY <1>2
  <2>2. ASSUME NEW i \in left, NEW k \in left, rank[i] = rank[k] PROVE i = k
    <3>1. Cardinality(UpTo(i)) = Cardinality(UpTo(k)) /\ Cardinality(UpTo(i)) \in Nat
      BY <1>2, <2>2
    <3>2. i < k => Cardinality(UpTo(i)) < Cardinality(UpTo(k))
      BY <1>3
    <3>3. k < i => Cardinality(UpTo(k)) < Cardinality(UpTo(i))
      BY <1>3
    <3>4. i \in Nat /\ k \in Nat
      BY <1>1
    <3> HIDE DEF UpTo
    <3> QED BY <3>1, <3>2, <3>3, <3>4
  <2> HIDE DEF rank, ranks
  <2> QED BY <2>1, <2>2 DEF Injection, IsInjective
<1>5. IsFiniteSet(ranks) /\ Cardinality(ranks) = Cardinality(left)
  BY <1>1, NumbersUpTo
<1>6. rank \in Surjection(left, ranks)
  <2> HIDE DEF rank, ranks
  <2> QED BY <1>4, <1>5, FS_Injection
<1>7. ASSUME NEW k \in ranks PROVE \E i \in left : Cardinality(UpTo(i)) = k
  BY <1>6 DEF Surjection
<1>8. ASSUME NEW k \in DOMAIN Without(bs, deleted)
      PROVE  \E i \in DOMAIN bs : Without(bs, deleted)[k] = bs[i]
  <2> DEFINE c == CHOOSE i \in left : Cardinality(UpTo(i)) = k
  <2>1. k \in ranks /\ Without(bs, deleted)[k] = bs[c]
    BY <1>8 DEF Without, left
  <2>2. c \in left
    BY <1>7, <2>1
  <2> HIDE DEF c
  <2> QED BY <2>1, <2>2 DEF left
<1> QED BY <1>8

\* A generation that goes up is the newest.
LEMMA UploadIsNewest ==
    ASSUME ProtectionTypeOK, NEW r
    PROVE  LET bs == <<r>> \o backups
           IN  /\ bs \in Seq({bs[i] : i \in DOMAIN bs}) /\ bs # <<>> /\ bs[1] = r
               /\ \A i \in DOMAIN bs : bs[i] = r \/ \E j \in DOMAIN backups : bs[i] = backups[j]
<1> DEFINE bs == <<r>> \o backups
           n == Len(backups) + 1
<1>1. Len(backups) \in Nat
    BY DEF ProtectionTypeOK
<1>2. bs = [i \in 1 .. n |-> bs[i]] /\ bs[1] = r /\ Len(bs) = n
    BY <1>1 DEF ProtectionTypeOK
<1>5. \A i \in DOMAIN bs : bs[i] = r \/ \E j \in DOMAIN backups : bs[i] = backups[j]
  <2>1. ASSUME NEW i \in 1 .. n, i # 1 PROVE i - 1 \in DOMAIN backups /\ bs[i] = backups[i - 1]
    BY <1>1, <2>1 DEF ProtectionTypeOK
  <2>2. DOMAIN bs = 1 .. n
    BY <1>2
  <2> HIDE DEF bs
  <2> QED BY <1>2, <2>1, <2>2
<1> HIDE DEF bs
<1>3. bs \in Seq({bs[i] : i \in DOMAIN bs})
    BY <1>1, <1>2, IsASequence
<1>4. bs # <<>>
    BY <1>1, <1>2
<1> QED BY <1>2, <1>3, <1>4, <1>5 DEF bs

-----------------------------------------------------------------------------
\* The newest generation stays while nothing is uploaded or deleted.
LEMMA NewestStays ==
    ASSUME NEW version \in Nat, NewestIs(version), UNCHANGED backups PROVE NewestIs(version)'
BY DEF NewestIs

\* The steps that leave the list of generations alone.
LEMMA RunKeeps ==
    ASSUME ProtectionIInv, StartRun \/ VerifyBackup \/ CopyBackup \/ Replace
    PROVE  ProtectionIInv'
<1> USE ProtectionAssumption DEF ProtectionIInv, ProtectionTypeOK, PublishedIsLatest, Covered,
        LostIsLeft, IndependentCopyFollows, NewestIs
<1>1. CASE StartRun
    BY <1>1 DEF StartRun
<1>2. CASE VerifyBackup
    BY <1>2 DEF VerifyBackup
<1>3. CASE CopyBackup
    BY <1>3 DEF CopyBackup, Copied, CopyFails, Stop
<1>4. CASE Replace
    BY <1>4 DEF Replace, Stop
<1> QED BY <1>1, <1>2, <1>3, <1>4

LEMMA FirstKeeps ==
    ASSUME ProtectionIInv, FirstCopy \/ CreateRelease \/ RunLost
    PROVE  ProtectionIInv'
<1> USE ProtectionAssumption DEF ProtectionIInv, ProtectionTypeOK, PublishedIsLatest, Covered,
        LostIsLeft, IndependentCopyFollows, NewestIs
<1>1. CASE FirstCopy
    BY <1>1 DEF FirstCopy, Copied, CopyFails, Stop
<1>2. CASE CreateRelease
    BY <1>2 DEF CreateRelease, Stop
<1>3. CASE RunLost
    BY <1>3 DEF RunLost, Stop
<1> QED BY <1>1, <1>2, <1>3

LEMMA OthersKeep ==
    ASSUME ProtectionIInv, Refresh \/ Monitor \/ AuditRepairs \/ AuditReplace \/ DrillRestores
                   \/ DrillRecords \/ UNCHANGED protectionVars
    PROVE  ProtectionIInv'
<1> USE ProtectionAssumption DEF ProtectionIInv, ProtectionTypeOK, PublishedIsLatest, Covered,
        LostIsLeft, IndependentCopyFollows, NewestIs
<1>1. CASE Refresh
    BY <1>1 DEF Refresh, Copied, CopyFails
<1>2. CASE Monitor \/ UNCHANGED protectionVars
    BY <1>2 DEF Monitor, protectionVars
<1>3. CASE AuditRepairs
    BY <1>3 DEF AuditRepairs
<1>4. CASE AuditReplace
  <2>1. CASE canonical' = restored /\ step' = "prune"
    BY <1>4, <2>1 DEF AuditReplace
  <2>2. CASE canonical' = Missing /\ (blind' = ~backups[1].good) /\ Stop
    <3>1. backups # <<>> /\ backups[1].db = published /\ UNCHANGED <<backups, published>> /\ step' = "idle"
      BY <1>4, <2>2 DEF AuditReplace, Stop
    <3>2. backups[1].good \/ blind'
      BY <2>2, Zenon
    <3>3. LostIsLeft'
      BY <3>1, <3>2
    <3>4. (ProtectionTypeOK /\ PublishedIsLatest /\ Covered /\ IndependentCopyFollows)'
      BY <1>4, <2>2 DEF AuditReplace, Stop
    <3> QED BY <3>3, <3>4
  <2> QED BY <1>4, <2>1, <2>2 DEF AuditReplace
<1>5. CASE DrillRestores
    BY <1>5 DEF DrillRestores
<1>6. CASE DrillRecords
    BY <1>6 DEF DrillRecords, Stop
<1> QED BY <1>1, <1>2, <1>3, <1>4, <1>5, <1>6

LEMMA UploadsKeep ==
    ASSUME ProtectionIInv, UploadBackup \/ AuditUpload
    PROVE  ProtectionIInv'
<1>1. PICK r : backups' = <<r>> \o backups /\ r.db = restored
  <2>1. PICK size \in Sizes, good \in BOOLEAN :
           backups' = <<[db |-> restored, size |-> size, good |-> good]>> \o backups
    BY DEF UploadBackup, AuditUpload
  <2> DEFINE r == [db |-> restored, size |-> size, good |-> good]
  <2>2. r.db = restored
    OBVIOUS
  <2> HIDE DEF r
  <2> QED BY <2>1, <2>2 DEF r
<1>2. /\ backups' \in Seq({backups'[i] : i \in DOMAIN backups'})
      /\ backups' # <<>> /\ backups'[1] = r
      /\ \A i \in DOMAIN backups' : backups'[i] = r \/ \E j \in DOMAIN backups : backups'[i] = backups[j]
  <2> DEFINE bs == <<r>> \o backups
  <2>1. /\ bs \in Seq({bs[i] : i \in DOMAIN bs}) /\ bs # <<>> /\ bs[1] = r
        /\ \A i \in DOMAIN bs : bs[i] = r \/ \E j \in DOMAIN backups : bs[i] = backups[j]
    BY UploadIsNewest DEF ProtectionIInv
  <2>2. backups' = bs
    BY <1>1
  <2> HIDE DEF bs
  <2> QED BY <2>1, <2>2
<1>3. /\ \/ step = "backup" /\ step' = "verify"
         \/ step = "audit_upload" /\ step' = "audit_replace"
      /\ UNCHANGED <<canonical, copy, published, prior, serial, restored>>
    BY DEF UploadBackup, AuditUpload
<1>4. restored = canonical /\ restored = published /\ restored \in Nat /\ restored <= serial
    BY <1>3, ProtectionAssumption
       DEF ProtectionIInv, ProtectionTypeOK, Covered, PublishedIsLatest
<1>5. ASSUME NEW i \in DOMAIN backups' PROVE backups'[i].db \in Nat /\ backups'[i].db <= serial
  <2>1. CASE backups'[i] = r
    BY <1>1, <1>4, <2>1
  <2>2. CASE \E j \in DOMAIN backups : backups'[i] = backups[j]
    BY <2>2 DEF ProtectionIInv, ProtectionTypeOK, PublishedIsLatest
  <2> QED BY <1>2, <2>1, <2>2
<1>6. ProtectionTypeOK'
    BY <1>2, <1>3, <1>5 DEF ProtectionIInv, ProtectionTypeOK
<1>7. PublishedIsLatest' /\ IndependentCopyFollows'
    BY <1>3, <1>5 DEF ProtectionIInv, PublishedIsLatest, IndependentCopyFollows
<1>8. Covered'
    BY <1>1, <1>2, <1>3 DEF ProtectionIInv, Covered, NewestIs
<1>9. LostIsLeft'
    BY <1>3 DEF ProtectionIInv, LostIsLeft
<1> QED BY <1>6, <1>7, <1>8, <1>9 DEF ProtectionIInv

\* The old generations go while the canonical asset is there.
LEMMA PruneKeeps ==
    ASSUME ProtectionIInv, Prune PROVE ProtectionIInv'
<1>1. /\ step = "prune" /\ step' = "idle" /\ restored' = 0
      /\ UNCHANGED <<canonical, copy, published, prior, serial>>
    BY DEF Prune, Stop
<1>2. PICK deleted : backups' = Without(backups, deleted)
    BY DEF Prune
<1>3. /\ backups' \in Seq({backups'[i] : i \in DOMAIN backups'})
      /\ \A k \in DOMAIN backups' : \E i \in DOMAIN backups : backups'[k] = backups[i]
  <2>1. Len(backups) \in Nat /\ DOMAIN backups = 1 .. Len(backups)
    BY DEF ProtectionIInv, ProtectionTypeOK
  <2>2. backups' \in Seq({backups'[i] : i \in DOMAIN backups'})
    BY <1>2, <2>1, WithoutIsASequence
  <2>3. \A k \in DOMAIN Without(backups, deleted) :
            \E i \in DOMAIN backups : Without(backups, deleted)[k] = backups[i]
    BY <2>1, WithoutAddsNone
  <2> QED BY <1>2, <2>2, <2>3
<1>4. ASSUME NEW k \in DOMAIN backups' PROVE backups'[k].db \in Nat /\ backups'[k].db <= serial
    BY <1>3 DEF ProtectionIInv, ProtectionTypeOK, PublishedIsLatest
<1>5. ProtectionTypeOK'
    BY <1>1, <1>3, <1>4 DEF ProtectionIInv, ProtectionTypeOK
<1>6. PublishedIsLatest' /\ IndependentCopyFollows'
    BY <1>1, <1>4 DEF ProtectionIInv, PublishedIsLatest, IndependentCopyFollows
<1>7. Covered' /\ LostIsLeft'
    BY <1>1 DEF ProtectionIInv, Covered, LostIsLeft
<1> QED BY <1>5, <1>6, <1>7 DEF ProtectionIInv

\* What the operator puts back was published once, and S3 holds no less.
LEMMA RecoverKeeps ==
    ASSUME ProtectionIInv, Recover PROVE ProtectionIInv'
<1>1. PICK version \in Verified :
         /\ canonical' = version /\ published' = version
         /\ prior' = IF prior < version THEN prior ELSE version
    BY DEF Recover
<1>2. /\ step = "idle" /\ published > 0 /\ canonical = Missing
      /\ UNCHANGED <<backups, copy, serial, restored, step>>
    BY DEF Recover
<1>3. version \in Nat /\ version <= serial
    BY DEF Verified, ProtectionIInv, ProtectionTypeOK, PublishedIsLatest
<1>4. prior' \in Nat /\ prior' <= prior /\ prior' <= version /\ prior \in Nat
    BY <1>1, <1>3 DEF ProtectionIInv, ProtectionTypeOK
<1>5. ProtectionTypeOK'
    BY <1>1, <1>2, <1>3, <1>4 DEF ProtectionIInv, ProtectionTypeOK
<1>6. PublishedIsLatest'
    BY <1>1, <1>2, <1>3, <1>4 DEF ProtectionIInv, PublishedIsLatest
<1>7. IndependentCopyFollows'
    BY <1>2, <1>4, ProtectionAssumption DEF ProtectionIInv, ProtectionTypeOK, IndependentCopyFollows
<1>8. Covered' /\ LostIsLeft'
    BY <1>1, <1>2, <1>3, ProtectionAssumption DEF Covered, LostIsLeft
<1> QED BY <1>5, <1>6, <1>7, <1>8 DEF ProtectionIInv

LEMMA HistoryIsCovered == ProtectionSpec => []ProtectionIInv
<1>1. ProtectionInit => ProtectionIInv
    BY ProtectionAssumption
       DEF ProtectionInit, ProtectionIInv, ProtectionTypeOK, PublishedIsLatest, Covered, LostIsLeft,
           IndependentCopyFollows
<1>2. ProtectionIInv /\ [ProtectionNext]_protectionVars => ProtectionIInv'
    BY RunKeeps, FirstKeeps, OthersKeep, UploadsKeep, PruneKeeps, RecoverKeeps DEF ProtectionNext
<1> QED BY <1>1, <1>2, PTL DEF ProtectionSpec

(* history_backup and the publish step of forecast.yml: the canonical asset is deleted
   only after the database it holds went up as the newest generation and was verified;
   no failure, lost run, deletion of old generations or recovery leaves the Release
   without the database last published, but for an audit whose generation, never
   downloaded again, had arrived damaged when its upload of the canonical asset failed. *)
THEOREM ReleaseAlwaysRecovers == ProtectionSpec => []ReleaseRecoverable
<1>1. ProtectionIInv => ReleaseRecoverable
  <2> SUFFICES ASSUME ProtectionIInv, published > 0, canonical = Missing, ~blind
               PROVE  \E i \in DOMAIN backups : backups[i].good /\ backups[i].db >= published
    BY DEF ProtectionIInv, ProtectionTypeOK, PublishedIsLatest, ReleaseRecoverable
  <2>1. NewestIs(published)
    BY DEF ProtectionIInv, LostIsLeft
  <2>2. 1 \in DOMAIN backups
    BY <2>1 DEF NewestIs, ProtectionIInv, ProtectionTypeOK
  <2> QED BY <2>1, <2>2 DEF NewestIs, ProtectionIInv, ProtectionTypeOK
<1> QED BY <1>1, HistoryIsCovered, PTL

(* independent_backup.upload_and_verify comes before the replacement, and the refresh
   copies what is canonical: S3 never falls behind the database the one last published
   was made from. *)
THEOREM CopyNeverFallsBehind == ProtectionSpec => []IndependentCopyFollows
<1>1. ProtectionIInv => IndependentCopyFollows
    BY DEF ProtectionIInv
<1> QED BY <1>1, HistoryIsCovered, PTL
=============================================================================
