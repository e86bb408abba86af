-------------------------- MODULE PromotionPolicy --------------------------
(***************************************************************************)
(* What the weekly optimizer, the promotion policy, the multiple-testing   *)
(* adjustment and the champion report compute from the evidence of a       *)
(* replay (research/optimizer.py, ops/promotion_policy.py,                 *)
(* research/multiple_testing.py, research/segment_evaluation.py,           *)
(* research/champion_challenger.py).                                       *)
(*                                                                         *)
(* Abstractions.  An error is a natural number, an accuracy a percentage.  *)
(* A bootstrap is its tail: of 1000 resampled mean improvements, how many  *)
(* are not in the candidate's favour.  A fraction is compared by cross     *)
(* multiplication.  The origins of a candidate are the first n hours of    *)
(* one grid, so equal numbers are the same origins.                        *)
(***************************************************************************)
EXTENDS Integers, Sequences, FiniteSets, FiniteSetsExt

CONSTANTS
    Missing,            \* no file, no value
    Horizons,           \* HORIZONS
    MaxComparisons,     \* multiple_testing_max_comparisons
    MinSegmentPairs     \* segment_minimum_paired_samples

ASSUME PolicyAssumption ==
    /\ Horizons \subseteq Nat \ {0} /\ IsFiniteSet(Horizons)
    /\ MaxComparisons \in Nat \ {0} /\ MinSegmentPairs \in Nat \ {0}

MinSamples == 32        \* minimum_samples, DEFAULT_MIN_PAIRED_SAMPLES
Alpha == 50             \* 1 - DEFAULT_CONFIDENCE, in thousandths

\* _relative_improvement(new, base) >= percent / 100
Improves(new, base, percent) ==
    IF base > 0 THEN 100 * (base - new) >= percent * base ELSE 0 >= percent

-----------------------------------------------------------------------------
\* The paired moving-block bootstrap.  Blocks are 24 origins long, or all of them.

EffectiveSamples(samples) == samples \div Min({samples, 24})

\* The conclusion at confidence 1 - alpha / divisor.
Conclusion(samples, tail, divisor) ==
    IF samples < MinSamples \/ EffectiveSamples(samples) < 8 THEN "inconclusive"
    ELSE IF 2 * tail * divisor < Alpha THEN "candidate_better"
    ELSE IF 2 * (1000 - tail) * divisor < Alpha THEN "baseline_better"
    ELSE "inconclusive"

\* The candidate with the least objective error, the first one on a tie.
Challenger(report) ==
    LET least == Min({report.challengers[i].mae : i \in DOMAIN report.challengers})
    IN  report.challengers[Min({i \in DOMAIN report.challengers :
                                  report.challengers[i].mae = least})]

\* family_rank: one more than the comparisons with a smaller p-value
FamilyRank(tails, focal) == 1 + Cardinality({i \in DOMAIN tails : tails[i] < tails[focal]})

\* per_comparison_alpha of the method "holm", as alpha / HolmDivisor
HolmDivisor(comparisons, rank) ==
    LET count == Min({comparisons, MaxComparisons})
    IN  count - Min({rank, count}) + 1

\* build_multiple_testing_assessment: the conclusion for the challenger at the
\* confidence its rank in the family calls for; none when origins differ.
AdjustedConclusion(report) ==
    LET cs == report.challengers
        c == Challenger(report)
        focal == CHOOSE i \in DOMAIN cs : cs[i] = c
        rank == FamilyRank([i \in DOMAIN cs |-> cs[i].tail], focal)
    IN  IF \E i \in DOMAIN cs : cs[i].origins # report.production.origins THEN Missing
        ELSE IF Len(cs) = 1 THEN Conclusion(c.origins, c.tail, 1)
        ELSE Conclusion(c.origins, c.tail, HolmDivisor(Len(cs), rank))

-----------------------------------------------------------------------------
\* Segments: rows are [origin, horizon, target, label, error], labelled when the
\* forecast was made.

\* _eligible: matured rows with an error, the first of each origin and horizon
Eligible(rows, now) ==
    LET Kept(i) == /\ rows[i].target > rows[i].origin /\ rows[i].target <= now
                   /\ rows[i].error # Missing
    IN  {rows[i] : i \in {j \in DOMAIN rows :
            /\ Kept(j)
            /\ \A k \in 1 .. j - 1 :
                  ~( /\ Kept(k) /\ rows[k].origin = rows[j].origin
                     /\ rows[k].horizon = rows[j].horizon )}}

\* The pairs of a segment: both rows of an origin and horizon carry its label.
SegmentPairs(candidate, baseline, now, label) ==
    {p \in Eligible(candidate, now) \X Eligible(baseline, now) :
        /\ p[1].origin = p[2].origin /\ p[1].horizon = p[2].horizon
        /\ p[1].label = label /\ p[2].label = label}

\* promotion_guard: a protected segment with enough pairs is over 5 % worse
SegmentBlocked(candidate, baseline, now, protected) ==
    \E label \in protected :
        LET pairs == SegmentPairs(candidate, baseline, now, label)
        IN  /\ Cardinality(pairs) >= MinSegmentPairs
            /\ ~Improves(MapThenSumSet(LAMBDA p : p[1].error, pairs),
                         MapThenSumSet(LAMBDA p : p[2].error, pairs), -5)

ProtectedSegments == {"high_volatility", "high", "low_liquidity", "degraded"}

HasSegments(report) == report.production.rows # Missing /\ Challenger(report).rows # Missing

-----------------------------------------------------------------------------
\* The promotion policy.

\* health_snapshot of a pipeline_health.json: drift is "none" when it is quiet
HealthSnapshot(file) ==
    IF file = Missing THEN Missing
    ELSE [drift |-> file.drift, open |-> \E s \in DOMAIN file.stages : file.stages[s] = "open"]

\* Regime errors of a horizon that both sides have enough samples of.
WorseInRegime(c, p, percent) ==
    \E r \in DOMAIN c.regime \intersect DOMAIN p.regime :
        \E h \in DOMAIN c.regime[r] \intersect DOMAIN p.regime[r] :
            /\ c.regime[r][h].samples >= 8 /\ p.regime[r][h].samples >= 8
            /\ ~Improves(c.regime[r][h].mae, p.regime[r][h].mae, -percent)

WorseOnSomeHorizon(new, base, percent) ==
    \E h \in Horizons : ~Improves(new[h], base[h], -percent)

StableFolds(c, p) ==
    /\ Cardinality({i \in DOMAIN c.folds : p.folds[i] > 0 /\ c.folds[i] < p.folds[i]}) >= 2
    /\ \A i \in DOMAIN c.folds : Improves(c.folds[i], p.folds[i], -2)

\* hard_veto_checks that fail
HardFailures(report, health, approved) ==
    LET c == Challenger(report)
        p == report.production
    IN  {v \in {"horizon", "regime", "persistence", "segment", "direction", "folds",
                "naive", "drift", "circuits"} :
            \/ v = "horizon" /\ WorseOnSomeHorizon(c.horizon, p.horizon, 5)
            \/ v = "regime" /\ WorseInRegime(c, p, 10)
            \/ v = "persistence" /\ WorseOnSomeHorizon(c.horizon, c.persistence, 5)
            \/ v = "segment" /\ HasSegments(report) /\ ~approved
               /\ SegmentBlocked(c.rows, p.rows, report.now, ProtectedSegments)
            \/ v = "direction" /\ c.direction - p.direction < -2
            \/ v = "folds" /\ ~StableFolds(c, p)
            \/ v = "naive" /\ Conclusion(c.origins, c.naiveTail, 1) = "baseline_better"
            \/ v = "drift" /\ health # Missing /\ health.drift = "severe"
            \/ v = "circuits" /\ health # Missing /\ health.open}

\* review_requirements that fail
EvidenceFailures(report, health) ==
    LET c == Challenger(report)
        adjusted == AdjustedConclusion(report)
    IN  {v \in {"samples", "material", "supported", "adjusted", "drift", "health", "segments"} :
            \/ v = "samples" /\ c.origins < MinSamples
            \/ v = "material" /\ ~Improves(c.mae, report.production.mae, 3)
            \/ v = "supported" /\ Conclusion(c.origins, c.tail, 1) # "candidate_better"
            \/ v = "adjusted" /\ adjusted \notin {Missing, "candidate_better"}
            \/ v = "drift" /\ (health = Missing \/ health.drift # "none")
            \/ v = "health" /\ health = Missing
            \/ v = "segments" /\ ~HasSegments(report)}

\* mutant: the evidence is looked at before the vetoes
DecisionByEvidence(report, health, approved) ==
    IF EvidenceFailures(report, health) = {} THEN "review"
    ELSE IF HardFailures(report, health, approved) # {} THEN "reject"
    ELSE "keep"

\* evaluate_promotion
Decision(report, health, approved) ==
    IF HardFailures(report, health, approved) # {} THEN "reject"
    ELSE IF EvidenceFailures(report, health) = {} THEN "review"
    ELSE "keep"

\* recommendation of the optimizer: the policy's evidence without regimes,
\* persistence margins, segments, family adjustment and health
WorthReview(report) ==
    LET c == Challenger(report)
        p == report.production
    IN  /\ c.origins >= MinSamples /\ Improves(c.mae, p.mae, 3)
        /\ ~WorseOnSomeHorizon(c.horizon, p.horizon, 5)
        /\ c.direction - p.direction >= -2 /\ StableFolds(c, p)
        /\ Conclusion(c.origins, c.tail, 1) = "candidate_better"
        /\ Conclusion(c.origins, c.naiveTail, 1) # "baseline_better"

\* validate_identical_origins
IdenticalOrigins(report) ==
    /\ report.production.origins > 0
    /\ \A i \in DOMAIN report.challengers :
          report.challengers[i].origins = report.production.origins
=============================================================================
