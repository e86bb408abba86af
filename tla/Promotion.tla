----------------------------- MODULE Promotion ------------------------------
(***************************************************************************)
(* From the weekly optimizer to a change of production and back            *)
(* (.github/workflows/optimize.yml, ops/promotion_policy.py,               *)
(* research/champion_challenger.py, ops/optimizer_pr.py,                   *)
(* ops/rollback_safeguards.py).                                            *)
(*                                                                         *)
(* Each command reads the files the others left in the working directory,  *)
(* whatever run they come from, and writes its own.  People merge and      *)
(* close pull requests; the production runs mature live outcomes.          *)
(***************************************************************************)
EXTENDS PromotionPolicy

CONSTANTS
    Reports,            \* the evidence an optimizer run may come to
    Healths,            \* the pipeline_health.json a run may restore, Missing included
    OutcomesOf,         \* configuration -> its matured live outcomes in the store
    LiveReports,        \* the live reports an operator may supply
    Deployed,           \* the configuration in production at first
    MaxWrites,          \* bound: files written, each with a time of its own
    MaxEvaluations      \* bound: rollback evaluations

\* Numbers of origins are counted, accuracies are percentages.
ASSUME ReportAssumption ==
    \A e \in Reports : /\ Challenger(e).origins \in Nat
                       /\ Challenger(e).direction \in Int /\ e.production.direction \in Int

VARIABLES
    report,             \* optimizer_report.json and its generated_at
    decision,           \* promotion_decision.json
    comparison,         \* champion_challenger_report.json
    prs,                \* the open pull requests of the optimizer: [branch, name]
    production,         \* the configuration on the base branch
    matured,            \* the configurations with matured outcomes in the store
    rollback,           \* the rollback state file
    writes,             \* files written so far, the clock of generated_at
    cleared,            \* history: the candidates the policy answered "review" for
    evaluations         \* history: the breaches of each rollback evaluation

files == <<report, decision, comparison>>
live == <<rollback, evaluations>>
vars == <<files, prs, production, matured, live, writes, cleared>>

-----------------------------------------------------------------------------
\* Live evidence: rows of [config, horizon, error, direction, covered].

Mean100(value(_), rows) == (100 * MapThenSumSet(value, rows)) \div Cardinality(rows)

\* metrics: mean error, share of right directions, distance of the coverage from 80 %
LiveMetrics(rows) ==
    LET Covered(r) == IF r.covered THEN 1 ELSE 0
        Right(r) == IF r.right THEN 1 ELSE 0
        coverage == Mean100(Covered, rows) - 80
    IN  [mae |-> Mean100(LAMBDA r : r.error, rows), direction |-> Mean100(Right, rows),
         calibration |-> IF coverage < 0 THEN -coverage ELSE coverage]

\* build_live_report: the previous champion is every other configuration; no
\* report without outcomes of both
LiveReport(rows, config) ==
    LET new == {r \in rows : r.config = config}
        old == rows \ new
        At(h, rs) == {r \in rs : r.horizon = h}
        both == {h \in Horizons : At(h, new) # {} /\ At(h, old) # {}}
    IN  IF new = {} \/ old = {} THEN Missing
        ELSE [config |-> config, samples |-> Cardinality(new),
              new |-> LiveMetrics(new), old |-> LiveMetrics(old),
              horizon |-> [h \in both |-> <<LiveMetrics(At(h, new)).mae,
                                            LiveMetrics(At(h, old)).mae>>]]

\* The checks of evaluate_rollback that fail, the number of samples apart.
Breaches(r) ==
    {b \in {"skill", "direction", "calibration", "horizon"} :
        \/ b = "skill" /\ 100 * (r.new.mae - r.old.mae) > 5 * r.old.mae /\ r.old.mae > 0
        \/ b = "direction" /\ r.old.direction - r.new.direction > 2
        \/ b = "calibration" /\ r.new.calibration - r.old.calibration > 5
        \/ b = "horizon" /\ \E h \in DOMAIN r.horizon :
              /\ r.horizon[h][2] > 0
              /\ 100 * (r.horizon[h][1] - r.horizon[h][2]) > 5 * r.horizon[h][2]}

\* mutant: any breach continues the streak
BreachCountOfAny(prior, breaches) ==
    IF breaches = {} THEN 0 ELSE IF prior = Missing THEN 1 ELSE prior.count + 1

\* consecutive_breach_count: only the very same breaches continue the streak
BreachCount(prior, breaches) ==
    IF breaches = {} THEN 0
    ELSE IF prior # Missing /\ prior.breaches = breaches THEN prior.count + 1 ELSE 1

\* evaluate_rollback
RollbackState(r, prior) ==
    LET breaches == Breaches(r)
        count == BreachCount(prior, breaches)
        ready == /\ r.samples >= MinSamples /\ breaches # {}
                 /\ "horizon" \in breaches \/ count >= 2
    IN  [breaches |-> breaches, count |-> count, samples |-> r.samples,
         verdict |-> IF ready THEN "recommend_rollback" ELSE "continue_monitoring"]

-----------------------------------------------------------------------------
\* configuration_manifest: the id of a candidate in the champion report
ManifestId(name) == <<"forecast-config", name>>

\* build_experiment_manifest: the id of the deployed configuration in the store
HistoryId(name) == <<"cfg", name>>

History ==
    UNION {{[r EXCEPT !.config = HistoryId(r.config)] : r \in OutcomesOf[c]} : c \in matured}

FromHistory ==
    IF comparison = Missing THEN Missing ELSE LiveReport(History, ManifestId(comparison.name))

Init ==
    /\ report = Missing /\ decision = Missing /\ comparison = Missing
    /\ prs = {} /\ production = Deployed /\ matured = {}
    /\ rollback = Missing /\ writes = 0
    /\ cleared = {} /\ evaluations = <<>>

Tick == writes < MaxWrites /\ writes' = writes + 1

\* optimizer.main: the evidence is for the current code and the fixed catalog
Optimize(e) ==
    /\ Tick
    /\ report' = [evidence |-> e, at |-> writes]
    /\ UNCHANGED <<decision, comparison, prs, production, matured, live, cleared>>

\* promotion_policy.main, on the health file the run restored; worth, a history
\* field, is whether the optimizer itself recommends the candidate
Decide(file, approved) ==
    /\ report # Missing /\ Tick
    /\ LET verdict == Decision(report.evidence, HealthSnapshot(file), approved)
           name == Challenger(report.evidence).name
       IN  /\ decision' = [verdict |-> verdict, name |-> name, at |-> writes,
                           worth |-> WorthReview(report.evidence)]
           /\ cleared' = IF verdict = "review" THEN cleared \union {name} ELSE cleared
    /\ UNCHANGED <<report, comparison, prs, production, matured, live>>

\* champion_challenger.main: refuses origins that differ and a decision about
\* another candidate; comparison_id hashes both reports, times included
Compare ==
    /\ report # Missing
    /\ IdenticalOrigins(report.evidence)
    /\ decision # Missing => decision.name = Challenger(report.evidence).name
    /\ comparison' = [name |-> Challenger(report.evidence).name,
                      id |-> <<report.at, IF decision = Missing THEN Missing ELSE decision.at>>]
    /\ comparison' # comparison
    /\ UNCHANGED <<report, decision, prs, production, matured, live, writes, cleared>>

\* mutant: a PR for any decision
OpenPrUnreviewed ==
    /\ decision # Missing /\ comparison # Missing /\ decision.name = comparison.name
    /\ prs' = prs \union {[branch |-> comparison.id, name |-> decision.name]}
    /\ UNCHANGED <<files, production, matured, live, writes, cleared>>

\* prepare_pull_request: the branch is named after the candidate and the
\* comparison; an open pull request of that branch is edited
OpenPr ==
    /\ decision # Missing /\ comparison # Missing
    /\ decision.verdict = "review"
    /\ decision.name = comparison.name
    /\ prs' = prs \union {[branch |-> comparison.id, name |-> decision.name]}
    /\ prs' # prs
    /\ UNCHANGED <<files, production, matured, live, writes, cleared>>

\* A person merges or closes a pull request.
Merge(pr) ==
    /\ production' = pr.name
    /\ prs' = prs \ {pr}
    /\ UNCHANGED <<files, matured, live, writes, cleared>>

Close(pr) ==
    /\ prs' = prs \ {pr}
    /\ UNCHANGED <<files, production, matured, live, writes, cleared>>

\* Forecasts of the deployed configuration reach their targets.
Mature ==
    /\ production \notin matured
    /\ matured' = matured \union {production}
    /\ UNCHANGED <<files, prs, production, live, writes, cleared>>

\* rollback_safeguards.main: the record is made anew from the decision and the
\* champion report at hand, the live report is supplied or built from the store,
\* and the state file is of whatever evaluation came last
EvaluateRollback(r) ==
    /\ Len(evaluations) < MaxEvaluations
    /\ decision # Missing /\ comparison # Missing
    /\ decision.verdict = "review"
    /\ r # Missing /\ r.config = ManifestId(comparison.name)
    /\ rollback' = RollbackState(r, rollback)
    /\ evaluations' = Append(evaluations, Breaches(r))
    /\ UNCHANGED <<files, prs, production, matured, writes, cleared>>

Next ==
    \/ \E e \in Reports : Optimize(e)
    \/ \E h \in Healths, approved \in BOOLEAN : Decide(h, approved)
    \/ Compare
    \/ OpenPr
    \/ \E pr \in prs : Merge(pr) \/ Close(pr)
    \/ Mature
    \/ \E r \in LiveReports \union {FromHistory} : EvaluateRollback(r)

Spec == Init /\ [][Next]_vars

-----------------------------------------------------------------------------
Names == {Deployed} \union {Challenger(e).name : e \in Reports}

\* The promotion path only recommends: production changes by the adoption of a
\* proposal alone, and only what the policy cleared is ever proposed, though the
\* decision, the champion report and the pull request come from different runs.
RecommendsOnly ==
    INSTANCE ReviewOnly WITH Configurations <- Names, proposed <- {pr.name : pr \in prs}

OnlyRecommends == RecommendsOnly!Spec

\* The two gates agree: what promotion_policy.py sends to review is also worth a
\* review to the optimizer, which never saw the family of candidates, the segments
\* or the health of the pipeline.
ReviewIsStricter ==
    decision # Missing /\ decision.verdict = "review" => decision.worth

\* A rollback is recommended on enough live samples, for a protected horizon or
\* for what two evaluations in a row found, the very same breaches both times.
RollbackIsSustained ==
    rollback # Missing /\ rollback.verdict = "recommend_rollback" =>
        LET n == Len(evaluations)
        IN  /\ rollback.samples >= MinSamples
            /\ \/ "horizon" \in evaluations[n]
               \/ /\ n >= 2 /\ evaluations[n] # {}
                  /\ evaluations[n - 1] = evaluations[n]

=============================================================================
