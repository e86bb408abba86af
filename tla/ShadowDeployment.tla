-------------------------- MODULE ShadowDeployment --------------------------
(***************************************************************************)
(* The ledger of shadow forecasts (research/shadow_deployment.py): every   *)
(* production run restores it from the Release, matures what it can,       *)
(* records the champion's forecast and that of each approved challenger,   *)
(* and publishes it with the history.  The evidence for a promotion is     *)
(* read from the published ledger.                                         *)
(*                                                                         *)
(* Abstractions.  Time goes in units of the shortest horizon.  A forecast  *)
(* is the lineage of the market data it was made from; all rows have       *)
(* complete provenance.  One run sees one actual price, whatever the       *)
(* target: two prices are two providers, or a candle revised.  The paired  *)
(* bootstrap of the promotion gate is external and taken to favour every   *)
(* challenger.                                                             *)
(***************************************************************************)
EXTENDS Integers, FiniteSets, FiniteSetsExt

CONSTANTS
    Configs,        \* configurations, by configuration_id
    Champion,       \* the one named PRODUCTION_CHAMPION_NAME
    Horizons,       \* HORIZONS
    Lineages,       \* data_id of the market data of a run
    Prices,         \* closes of a target candle
    MinSamples,     \* minimum_live_samples, minimum_paired_samples_per_horizon
    Window,         \* observation_window_days
    None,           \* no row
    NoLedger,       \* no Release, no store on the runner
    Missing,        \* the Release is there, the archive is not
    MaxTime,        \* bound of the clock
    MaxSessions     \* bound of the runs and commands

ASSUME ShadowAssumption ==
    /\ Champion \in Configs /\ IsFiniteSet(Configs)
    /\ Horizons \subseteq Nat \ {0} /\ Horizons # {} /\ IsFiniteSet(Horizons)
    /\ MinSamples \in Nat \ {0} /\ Window \in Nat /\ MaxTime \in Nat /\ MaxSessions \in Nat
    /\ None \notin Lineages \union Prices /\ NoLedger # Missing

VARIABLES
    now,        \* the clock
    pc,         \* where the run is
    began,      \* when it began, 0 between runs
    sessions,   \* how many runs and commands there were
    store,      \* .state/shadow_deployment.sqlite
    released,   \* shadow_deployment.sqlite.gz in the Release
    copy,       \* the latest archive in the independent backup
    pledge,     \* ghost: what this run owes to its origin
    held,       \* ghost: the ledger last published
    promised    \* ghost: what the published runs owed

vars == <<now, pc, began, sessions, store, released, copy, pledge, held, promised>>

Times == 0 .. MaxTime
Keys == Configs \X Times
Longest == Max(Horizons)

\* configurations, shadow_forecasts, shadow_outcomes, shadow_failures, and
\* parity_baseline_attempts, whose captures of the same data for the same origin are
\* not told apart
Ledger ==
    [status  : [Configs -> {"unregistered", "approved", "withheld"}],
     row     : [Keys -> Lineages \union {None}],
     outcome : [Keys \X Horizons -> [actual : Prices, matured : Times] \union {None}],
     failure : SUBSET (Keys \X Times),
     attempt : SUBSET (Times \X Lineages)]

ASSUME LedgerAssumption == NoLedger \notin Ledger /\ Missing \notin Ledger

EmptyLedger ==
    [status  |-> [c \in Configs |-> "unregistered"],
     row     |-> [k \in Keys |-> None],
     outcome |-> [k \in Keys \X Horizons |-> None],
     failure |-> {},
     attempt |-> {}]

Approved(l) == {c \in Configs \ {Champion} : l.status[c] = "approved"}

-----------------------------------------------------------------------------
\* register_configuration: the first registration wins, approval included.
Registered(l, cs, status) ==
    [l EXCEPT !.status = [c \in Configs |->
        IF c \in cs /\ l.status[c] = "unregistered" THEN status ELSE l.status[c]]]

\* mutant: an outcome is dated by its target and not by when it was observed
MaturedBackdated(l, price, t) ==
    [l EXCEPT !.outcome = [k \in Keys \X Horizons |->
        IF l.outcome[k] = None /\ l.row[k[1]] # None /\ k[1][2] + k[2] <= t
        THEN [actual |-> price, matured |-> k[1][2] + k[2]]
        ELSE l.outcome[k]]]

\* mature_outcomes at t: every forecast whose target candle has closed
Matured(l, price, t) ==
    [l EXCEPT !.outcome = [k \in Keys \X Horizons |->
        IF l.outcome[k] = None /\ l.row[k[1]] # None /\ k[1][2] + k[2] <= t
        THEN [actual |-> price, matured |-> t]
        ELSE l.outcome[k]]]

\* record_forecast: the first forecast of a configuration and an origin wins
Recorded(l, cs, o, lineage) ==
    [l EXCEPT !.row = [k \in Keys |->
        IF k[1] \in cs /\ k[2] = o /\ l.row[k] = None THEN lineage ELSE l.row[k]]]

\* the first half of run_shadow
ChampionRecorded(l, o, lineage) ==
    Recorded(Registered(l, {Champion}, "approved"), {Champion}, o, lineage)

\* record_parity_baseline_attempts: the simple forecasts from the same market data
Captured(l, o, lineage) == [l EXCEPT !.attempt = @ \union {<<o, lineage>>}]

(* The second half: each of the challengers is registered, unless it is, and
   recorded, those in failing with a failure, observed at t, for a forecast. *)
ChallengersRecorded(l, cs, o, lineage, failing, t) ==
    LET forecast == Recorded(Registered(l, cs, "approved"), cs \ failing, o, lineage)
    IN [forecast EXCEPT !.failure = @ \union {<<<<c, o>>, t>> : c \in failing}]

-----------------------------------------------------------------------------
Init ==
    /\ now = 0 /\ pc = "idle" /\ began = 0 /\ sessions = 0
    /\ store = NoLedger /\ released = NoLedger /\ copy = NoLedger
    /\ pledge = {} /\ promised = {} /\ held = EmptyLedger

\* mutant: an archive that cannot be had counts as a first run
RestoreOrStartAfresh ==
    /\ pc = "idle" /\ sessions < MaxSessions
    /\ store' = IF released \in {NoLedger, Missing} THEN EmptyLedger ELSE released
    /\ pc' = "restored" /\ began' = now /\ sessions' = sessions + 1
    /\ UNCHANGED <<now, released, copy, pledge, held, promised>>

(* The restore step: restore_shadow_archive, or initialize_first_shadow_store
   where no Release was ever established.  A restore that fails ends the run,
   which changes nothing. *)
Restore ==
    /\ pc = "idle" /\ sessions < MaxSessions /\ released # Missing
    /\ store' = IF released = NoLedger THEN EmptyLedger ELSE released
    /\ pc' = "restored" /\ began' = now /\ sessions' = sessions + 1
    /\ UNCHANGED <<now, released, copy, pledge, held, promised>>

(* The forecast step, from its shadow part on.  An error of that part is
   swallowed wherever it comes up: the store cannot be opened, the snapshot is
   refused before or after the champion's row, the report cannot be written.
   Only this command has the market data that baselines are captured from. *)
Shadow ==
    /\ pc = "restored"
    /\ \E lineage \in Lineages, price \in Prices :
          LET matured == Matured(store, price, now)
              champion == ChampionRecorded(matured, now, lineage)
              captured == Captured(champion, now, lineage)
          IN \/ store' \in {store, matured, champion, captured} /\ pledge' = {}
             \/ \E failing \in SUBSET Approved(store) :
                   /\ store' = ChallengersRecorded(captured, Approved(store), now, lineage, failing, now)
                   /\ pledge' = (Approved(store) \union {Champion}) \X {now}
    /\ pc' = "verified"
    /\ UNCHANGED <<now, began, sessions, released, copy, held, promised>>

\* The publish step: the independent copy first.
CopyArchive ==
    /\ pc = "verified"
    /\ copy' = store /\ pc' = "copied"
    /\ UNCHANGED <<now, began, sessions, store, released, pledge, held, promised>>

EndRun == pc' = "idle" /\ began' = 0 /\ store' = NoLedger /\ pledge' = {}

Publish ==
    /\ pc = "copied"
    /\ released' = store /\ held' = store
    /\ promised' = promised \union pledge
    /\ EndRun
    /\ UNCHANGED <<now, sessions, copy>>

\* --clobber deletes the archive, and the new one does not arrive.
Interrupted ==
    /\ pc = "copied" /\ released # NoLedger
    /\ released' = Missing
    /\ EndRun
    /\ UNCHANGED <<now, sessions, copy, held, promised>>

\* A step fails, is cancelled, or the runner is lost.
Fail ==
    /\ pc # "idle"
    /\ EndRun
    /\ UNCHANGED <<now, sessions, released, copy, held, promised>>

-----------------------------------------------------------------------------
(* The operator's commands, on the archive of the Release while no run is
   under way: recovery from the independent backup, and approve, record and
   mature of the command line. *)
Operate(l) ==
    /\ pc = "idle"
    /\ released' = l /\ held' = l
    /\ UNCHANGED <<now, pc, began, store, copy, pledge, promised>>

Recover == released = Missing /\ Operate(copy) /\ UNCHANGED sessions

Command(l) == sessions < MaxSessions /\ sessions' = sessions + 1 /\ Operate(l)

Established == released \notin {NoLedger, Missing}

Approve ==
    /\ Established
    /\ \E c \in Configs \ {Champion}, status \in {"approved", "withheld"} :
          Command(Registered(released, {c}, status))

\* record with the production snapshot of an earlier run, for the approved
\* challengers or for those that --configs lists, whatever their status
RecordSnapshot ==
    /\ Established
    /\ \E o \in 0 .. now, lineage \in Lineages,
          cs \in {Approved(released)} \union SUBSET (Configs \ {Champion}) :
       \E failing \in SUBSET cs :
          Command(ChallengersRecorded(ChampionRecorded(released, o, lineage),
                                      cs, o, lineage, failing, now))

MatureByHand ==
    /\ Established
    /\ \E price \in Prices : Command(Matured(released, price, now))

\* A run is over before the shortest horizon has passed: the job's timeout.
Tick ==
    /\ now < MaxTime
    /\ pc # "idle" => now = began
    /\ now' = now + 1
    /\ UNCHANGED <<pc, began, sessions, store, released, copy, pledge, held, promised>>

\* The bounds of the model are reached.
Ended ==
    /\ now = MaxTime /\ sessions = MaxSessions /\ pc = "idle"
    /\ UNCHANGED vars

Next ==
    \/ Restore \/ Shadow \/ CopyArchive \/ Publish \/ Interrupted \/ Fail
    \/ Recover \/ Approve \/ RecordSnapshot \/ MatureByHand
    \/ Tick \/ Ended

Spec == Init /\ [][Next]_vars

-----------------------------------------------------------------------------
(* frozen_cohort_report for a cutoff and an evaluation time; the forecasts of
   the cohort, by configuration and origin *)
Cohorts == {k \in [cutoff : Times, asof : Times] : k.cutoff <= k.asof - Longest}

Eligible(l, k) == {key \in Keys : l.row[key] # None /\ key[2] <= k.cutoff}

\* the actual price of a pair as the report gives it
ActualAsOf(l, k, pair) ==
    LET outcome == l.outcome[pair]
    IN IF outcome # None /\ outcome.matured <= k.asof THEN outcome.actual ELSE None

\* mutant: the failures that the report leaves out of account
NoFailures(l, k) == {}

FailuresAsOf(l, k) == {f \in l.failure : f[1][2] <= k.cutoff /\ f[2] <= k.asof}

Ready(l, k) ==
    /\ Eligible(l, k) # {}
    /\ FailuresAsOf(l, k) = {}
    /\ \A pair \in Eligible(l, k) \X Horizons : ActualAsOf(l, k, pair) # None

\* evidence_report: the pairs that are due or will be, those that have their outcome,
\* and those of attempts that failed, which count as missing
Evidence(l) ==
    LET forecast == {key \in Keys : l.row[key] # None} \X Horizons
        failed == l.failure \X Horizons
    IN  [expected |-> Cardinality(forecast) + Cardinality(failed),
         matured |-> Cardinality({pair \in forecast : l.outcome[pair] # None})]

\* evaluate: the origins that champion and challenger share
\* mutant: less those at which the challenger failed in some run
CommonUnfailed(l, c) ==
    {o \in Times : /\ l.row[<<c, o>>] # None /\ l.row[<<Champion, o>>] = l.row[<<c, o>>]
                   /\ \A f \in l.failure : f[1] # <<c, o>>}

CommonOrigins(l, c) ==
    {o \in Times : l.row[<<c, o>>] # None /\ l.row[<<Champion, o>>] = l.row[<<c, o>>]}

\* _evaluate_series: the origins at which both are matured, with one actual close
Paired(l, c, h) ==
    {o \in CommonOrigins(l, c) :
        LET mine == l.outcome[<<<<c, o>>, h>>]
            its == l.outcome[<<<<Champion, o>>, h>>]
        IN mine # None /\ its # None /\ mine.actual = its.actual}

\* ... and those that count as live samples
Live(l, c) ==
    {o \in CommonOrigins(l, c) : \E h \in Horizons :
        l.outcome[<<<<c, o>>, h>>] # None /\ l.outcome[<<<<Champion, o>>, h>>] # None}

\* _promotion_gate, where the statistics favour the challenger
Promotable(l, c) ==
    /\ Cardinality(Live(l, c)) >= MinSamples
    /\ \A h \in Horizons : Cardinality(Paired(l, c, h)) >= MinSamples
    /\ Max(CommonOrigins(l, c)) - Min(CommonOrigins(l, c)) >= Window

-----------------------------------------------------------------------------
Extends(l, m) ==
    /\ \A c \in Configs : m.status[c] # "unregistered" => l.status[c] = m.status[c]
    /\ \A k \in Keys : m.row[k] # None => l.row[k] = m.row[k]
    /\ \A k \in Keys \X Horizons : m.outcome[k] # None => l.outcome[k] = m.outcome[k]
    /\ m.failure \subseteq l.failure
    /\ m.attempt \subseteq l.attempt

\* Published evidence stands: no rerun, lost run, interrupted upload, recovery or
\* command rewrites a row or begins a second ledger in place of the first.
EvidenceStands == [][Extends(held', held)]_held

\* There is a ledger to report on, with all that was observed by the time of
\* evaluation.
Closed(k) == released # Missing /\ k.asof < now /\ (pc # "idle" => k.asof < began)

\* The rows of a frozen report are immutable: once its time of evaluation is
\* past, no later maturation, failure, rerun or recovery changes what it says of a
\* pair it has, or adds a failure to it, and no run adds a pair.  That is left to an
\* operator who records an old snapshot.
FrozenRowsStand ==
    [][\A k \in Cohorts : Closed(k) =>
          /\ FailuresAsOf(held', k) = FailuresAsOf(held, k)
          /\ pc = "copied" => Eligible(held', k) = Eligible(held, k)
          /\ \A pair \in Eligible(held, k) \X Horizons :
                ActualAsOf(held', k, pair) = ActualAsOf(held, k, pair)]_held

\* A cohort that is ready misses nothing: wherever a run went through its shadow
\* part, each configuration it had to run has a forecast there, with every
\* outcome observed by the time of evaluation, and the baselines were captured.  The
\* evidence report agrees: where
\* it misses no pair, every cohort is ready once all its outcomes were observed.
ReadyIsFull ==
    /\ \A k \in Cohorts : Ready(held, k) =>
        \A key \in promised : key[2] <= k.cutoff =>
            /\ held.row[key] # None
            /\ \E a \in held.attempt : a[1] = key[2]
            /\ \A h \in Horizons : ActualAsOf(held, k, <<key, h>>) # None
    /\ Evidence(held).matured = Evidence(held).expected =>
        \A k \in Cohorts : Eligible(held, k) # {} =>
            \/ Ready(held, k)
            \/ \E pair \in Eligible(held, k) \X Horizons : held.outcome[pair].matured > k.asof

\* the origins at which both have a forecast and its outcome
Judged(l, c, h) ==
    {o \in Times : \A d \in {c, Champion} :
        l.row[<<d, o>>] # None /\ l.outcome[<<<<d, o>>, h>>] # None}

\* What counts for a promotion stands.  Whether an origin counts for a horizon is
\* settled once both its outcomes are published: no later forecast, price, failure,
\* rerun, recovery or command adds it or takes it away.  And a challenger that has the
\* live samples, the pairs and the window that the gate asks for has them from then on
\* (evaluate, _evaluate_series, _promotion_gate).
CountedStands ==
    [][\A c \in Configs \ {Champion} :
          /\ \A h \in Horizons :
                Paired(held', c, h) \intersect Judged(held, c, h) = Paired(held, c, h)
          /\ Promotable(held, c) => Promotable(held', c)]_held
=============================================================================
