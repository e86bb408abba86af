---------------------------- MODULE WalkForward -----------------------------
(***************************************************************************)
(* Studies that replay the weighting of the ensemble over frozen forecasts *)
(* (research/backtest.py, research/optimizer.py,                           *)
(* research/recency_adaptation.py, research/uncertainty_weighting.py), and *)
(* the forecasts of a challenger (research/shadow_deployment.py).          *)
(*                                                                         *)
(* A study makes a forecast at each of some origins once, and then walks   *)
(* over them in segments: the folds of a cross-validation, or all origins  *)
(* once for each candidate.  At an origin it weighs the models by what had *)
(* come true of the origins in its history, scores the ensemble against    *)
(* the candle so many candles later, and appends the origin to its         *)
(* history.  The optimizer installs the parameters of a candidate in the   *)
(* module that production weighs with, for as long as the candidate is     *)
(* replayed; a challenger of the shadow deployment, which learns from its  *)
(* own earlier forecasts, installs them for the one forecast it makes.     *)
(***************************************************************************)
EXTENDS RecencyPolicy, PurgedFolds

CONSTANTS
    Exchanges,          \* what the exchange has: [start, moves, gaps, answers]
    Studies,            \* [kind, requested, settings, inner, confidence]
    Policies,           \* recency policies by name
    Candidates,         \* candidates of the optimizer, in order
    Production,         \* the parameters of production: [least, full, floor, cap]
    ContextCandles,     \* candles a forecast is made of
    MinHistory,         \* candles a download must have
    DominanceEvidence   \* MIN_DOMINANCE_EVIDENCE_SAMPLES

Settings == [folds : Int, least : Int, purge : Int, embargo : Int, keep : Int, mode : STRING]
Kinds == {"backtest", "shadow", "optimizer", "recency", "uncertainty"}

ASSUME StudyAssumption ==
    /\ \A e \in Exchanges :
          /\ e.start \in Int /\ e.moves \in Seq(Int) /\ Len(e.answers) > 0
          /\ e.answers \in Seq([Contexts -> [Horizons -> [point : Int, q10 : Int, q90 : Int, sound : BOOLEAN]]])
    /\ \A s \in Studies : /\ s.kind \in Kinds /\ s.requested \in Nat \ {0} /\ s.confidence \in BOOLEAN
                           /\ s.settings \in Settings /\ s.inner \in Settings
    /\ Candidates \in Seq([models : SUBSET Models, least : Nat \ {0}, full : Nat, limit : Nat,
                            floor : Nat, cap : Nat])
    /\ \A i \in DOMAIN Candidates : Candidates[i] # Missing
    /\ ContextCandles \in Nat /\ ContextCandles >= 2 /\ MinHistory \in Nat
    /\ DominanceEvidence \in Nat /\ DominanceEvidence >= AdaptiveMin

VARIABLES
    study,
    candles,            \* the download: a sequence of [at, close]
    samples,            \* the frozen forecasts, oldest first
    queue,              \* segments to be walked: [train, validation, candidate]
    segment,            \* the segment being walked, with the positions still to come
    history,            \* positions of the samples it may learn from
    installed,          \* the parameters in the module of production
    rows                \* what was decided, in order

walkVars == <<study, candles, samples, queue, segment, history, installed, rows>>

Longest == Max(Horizons)

-----------------------------------------------------------------------------
\* The data and the forecasts

\* fetch_binance_history: the candles of the exchange, stamped with the hour they
\* close at.  The newest one is still open.
Download(exchange) ==
    LET Level(i) == exchange.start + SumFunction(SubSeq(exchange.moves, 1, i))
        hours == Ascending(DOMAIN exchange.moves \ exchange.gaps)
    IN  [i \in DOMAIN hours |-> [at |-> Hour * hours[i], close |-> Level(hours[i])]]

\* the positions of the candles that are forecast from: all there is room for, or as
\* many as were asked for, evenly spaced
OriginPositions(n, requested) ==
    LET first == ContextCandles + 1
        last == n - Longest
        count == Min({requested, last - first + 1})
    IN  IF count = 1 THEN {first}
        ELSE {first + ((i - 1) * (last - first)) \div (count - 1) : i \in 1 .. count}

\* generate_base_samples: the forecast of a position, and the closes so many candles
\* later
Sample(series, position, answer) ==
    LET context == SubSeq(series, position - ContextCandles + 1, position)
        close == series[position].close
        moves == ModelMoves(answer, context)
    IN  [at |-> series[position].at, close |-> close,
         regime |-> Regime(Features(context)), features |-> Features(context),
         models |-> Table([m \in Models |-> Table([h \in Horizons |-> close + moves[m][h]])]),
         bands |-> Table([c \in Contexts |-> Table([h \in Horizons |->
                       <<close + answer[c][h].q10, close + answer[c][h].q90>>])]),
         actuals |-> [h \in Horizons |-> series[position + h].close]]

Actuals(series) ==
    [t \in {series[i].at : i \in DOMAIN series} |-> (CHOOSE c \in {series[i] : i \in DOMAIN series} : c.at = t).close]

\* the snapshots of some positions, by origin
Snapshots(positions) ==
    Table([o \in {samples[i].at : i \in positions} |->
              samples[CHOOSE i \in positions : samples[i].at = o]])

-----------------------------------------------------------------------------
\* What is decided at an origin

\* mutant: a replay weighs with every outcome it has
Everything(actuals, origin) == actuals

\* the outcomes that could be observed at the origin
Visible(actuals, origin) == [t \in {u \in DOMAIN actuals : u <= origin} |-> actuals[t]]

Adaptive(snapshots, visible, sample, h, confidence) ==
    AdaptiveWeights(snapshots, KnownAt(snapshots, <<>>, visible, sample.at), h, sample.regime, confidence).weights

\* adaptive_model_weights for the models of a candidate, with the parameters in force
CandidateWeights(candidate, parameters, snapshots, visible, sample, h) ==
    LET policy == [models |-> candidate.models, limit |-> Max({candidate.limit, parameters.least})] @@ parameters
    IN  LearnedWeights(policy, snapshots, KnownAt(snapshots, <<>>, visible, sample.at), h, sample.regime,
                       1000).weights

\* _apply_candidate_parameters, for one forecast of a challenger
Parameters(candidate) ==
    [least |-> candidate.least, full |-> candidate.full, floor |-> candidate.floor, cap |-> candidate.cap]

\* shadow_predictions: the other parameters of a challenger, and its own history
ChallengerWeights(candidate, snapshots, visible, sample, h) ==
    CandidateWeights(candidate, Parameters(candidate), snapshots, visible, sample, h)

\* The weights of each policy for one horizon: those of evaluate_cross_validation,
\* replay_candidate, shadow_predictions, evaluate_recency_adaptation and
\* evaluate_uncertainty_weighting.
Decide(kind, candidate, parameters, snapshots, actuals, sample, h, confidence) ==
    LET visible == Visible(actuals, sample.at)
        known == KnownAt(snapshots, <<>>, visible, sample.at)
        production == Adaptive(snapshots, visible, sample, h, confidence)
    IN  CASE kind = "backtest" -> [adaptive |-> Adaptive(snapshots, visible, sample, h, 1000)]
          [] kind = "shadow" -> [challenger |-> ChallengerWeights(candidate, snapshots, visible, sample, h)]
          [] kind = "optimizer" ->
                [candidate |-> CandidateWeights(candidate, parameters, snapshots, visible, sample, h)]
          [] kind = "recency" ->
                [production_adaptive |-> production]
                @@ [p \in DOMAIN Policies |->
                       RecencyWeights(snapshots, visible, h, sample.regime, sample.at, Policies[p],
                                      production, confidence)]
          [] kind = "uncertainty" ->
                [adaptive |-> Adaptive(snapshots, visible, sample, h, 1000),
                 correlation_aware |-> Weights(snapshots, known, h, sample.regime, 1000).weights,
                 uncertainty_aware |-> UncertaintyWeights(snapshots, visible, h, sample.regime, sample.at,
                                                          DominanceEvidence).weights]

\* the drift at an origin, which is given all outcomes, and the confidence it leaves
Severity(kind, snapshots, actuals, sample) ==
    IF kind = "recency" THEN DriftAt(snapshots, actuals, sample.at, sample.features) ELSE "none"
ConfidenceOf(s, severity) == IF s.confidence THEN AdaptiveConfidence(severity) ELSE 1000

\* the error of the weighted mean of the models, and whether its direction is right
Scored(sample, weights, h) ==
    LET active == {m \in DOMAIN weights : weights[m] > 0}
        move == SumFunction([m \in active |-> weights[m] * (sample.models[m][h] - sample.close)])
                    \div SumFunctionOnSet(weights, active)
        moved == sample.actuals[h] - sample.close
    IN  [error |-> Abs(move - moved), right |-> Sign(move) = Sign(moved)]

-----------------------------------------------------------------------------
\* The walk

Idle == [start |-> 0, validation |-> {}, candidate |-> Missing]

\* the segments of a study: its folds, or all origins for each candidate.  Folds that
\* cannot be built end it.
Segments(s, at) ==
    LET all == 1 .. Len(at)
        folds == Folds(at, s.settings, Longest)
        Walk(c) == [train |-> {}, validation |-> all, candidate |-> c]
    IN  CASE s.kind \in {"optimizer", "shadow"} -> [i \in DOMAIN Candidates |-> Walk(Candidates[i])]
          [] s.kind = "uncertainty" -> <<Walk(Missing)>>
          [] OTHER -> IF folds = Missing THEN <<>>
                      ELSE [i \in DOMAIN folds |->
                               [train |-> folds[i].train, validation |-> folds[i].validation,
                                candidate |-> Missing]]

\* a study starts with its download and its frozen forecasts, or is refused
WalkInit ==
    \E exchange \in Exchanges, s \in Studies :
        LET series == Download(exchange)
            n == Len(series)
            positions == Ascending(OriginPositions(n, s.requested))
            frozen == [i \in DOMAIN positions |->
                          Sample(series, positions[i], exchange.answers[1 + (positions[i] % Len(exchange.answers))])]
        IN  /\ n >= MinHistory /\ n - Longest > ContextCandles + 1
            /\ study = s
            /\ candles = series
            /\ samples = frozen
            /\ queue = Segments(s, [i \in DOMAIN frozen |-> frozen[i].at])
            /\ segment = Idle
            /\ history = {}
            /\ installed = Production
            /\ rows = <<>>

\* the newest of some positions
NewestPositions(positions) == {i \in positions : Cardinality({j \in positions : j > i}) < HistoryLimit}

\* apply_candidate: what production weighs with while a candidate is replayed
Applied(candidate) == IF study.kind = "optimizer" THEN Parameters(candidate) ELSE installed

\* the next fold or candidate: its history, and its parameters.  The assertion made of
\* a fold (assert_no_fold_leakage) is a part of FoldsAreKept.
Begin ==
    /\ segment = Idle /\ queue # <<>>
    /\ LET next == Head(queue)
       IN  /\ segment' = [start |-> Min(next.validation), validation |-> next.validation,
                         candidate |-> next.candidate]
           /\ history' = NewestPositions(next.train)
           /\ installed' = Applied(next.candidate)
    /\ queue' = Tail(queue)
    /\ UNCHANGED <<study, candles, samples, rows>>

Unusable == segment.candidate # Missing /\ "persistence" \notin segment.candidate.models
Refused == study.kind = "optimizer" /\ Unusable

\* a challenger without persistence makes no forecast: run_shadow counts a failure
FailToForecast ==
    /\ segment.validation # {} /\ study.kind = "shadow" /\ Unusable
    /\ segment' = [segment EXCEPT !.validation = @ \ {Min(@)}]
    /\ UNCHANGED <<study, candles, samples, queue, history, installed, rows>>

\* one origin is weighed and scored, and becomes history.  A candidate lets its history
\* grow, and bounds what is read of it.
Replay ==
    /\ segment.validation # {} /\ ~Unusable
    /\ LET i == Min(segment.validation)
           sample == samples[i]
           snapshots == Snapshots(history)
           actuals == Actuals(candles)
           severity == Severity(study.kind, snapshots, actuals, sample)
           weights == Table([h \in Horizons |->
                          Decide(study.kind, segment.candidate, installed, snapshots, actuals, sample, h,
                                 ConfidenceOf(study, severity))])
       IN  /\ rows' = Append(rows,
                   [position |-> i, start |-> segment.start, candidate |-> segment.candidate, learned |-> history,
                    severity |-> severity, weights |-> weights,
                    scores |-> [h \in Horizons |->
                        [p \in DOMAIN weights[h] |-> Scored(sample, weights[h][p], h)]]])
           /\ history' = IF study.kind \in {"optimizer", "shadow"} THEN history \cup {i}
                         ELSE NewestPositions(history \cup {i})
           /\ segment' = [segment EXCEPT !.validation = @ \ {i}]
    /\ UNCHANGED <<study, candles, samples, queue, installed>>

\* the end of a segment: the parameters are put back, also when the candidate is
\* refused, which ends the study
Finish ==
    /\ segment # Idle /\ (segment.validation = {} \/ Refused)
    /\ segment' = Idle
    /\ history' = {}
    /\ installed' = Production
    /\ queue' = IF Refused THEN <<>> ELSE queue
    /\ UNCHANGED <<study, candles, samples, rows>>

WalkNext == Begin \/ Replay \/ FailToForecast \/ Finish
WalkSpec == WalkInit /\ [][WalkNext]_walkVars

-----------------------------------------------------------------------------
\* Properties

At == [i \in DOMAIN samples |-> samples[i].at]
CandlesBy(time) == [i \in {j \in DOMAIN candles : candles[j].at <= time} |-> candles[i]]
LastRow == rows[Len(rows)]

\* The folds of a cross-validation keep their word (cross_validation.py:70): every
\* origin after the first ones is validated once, and what an origin learned from is
\* of its own validation block or had its longest target due before the block, the
\* embargo away.  Inner folds (cross_validation.py:127) are of origins that were due
\* before the outer block in the same way.
FoldsAreKept ==
    LET Due(j, start, embargo) == At[j] + Hour * (Longest + embargo) <= At[start]
        nested == NestedFolds(At, [study.settings EXCEPT !.mode = "expanding"], study.inner, Longest)
        Touched(n) == UNION {n.inner[k].train \cup n.inner[k].validation : k \in DOMAIN n.inner}
        folds == Folds(At, study.settings, Longest)
    IN  /\ folds # Missing => \A i \in DOMAIN folds : ~Leaks(folds[i], At, study.settings, Longest)
        /\ study.kind \in {"backtest", "recency"} =>
              /\ \A i \in DOMAIN rows :
                    /\ rows[i].position = study.settings.least + i
                    /\ \A j \in rows[i].learned : \/ j \in rows[i].start .. rows[i].position - 1
                                                  \/ Due(j, rows[i].start, study.settings.embargo)
              /\ rows # <<>> /\ queue = <<>> /\ segment = Idle
                    => Len(rows) = Len(samples) - study.settings.least
        /\ nested # Missing => \A i \in DOMAIN nested : \A j \in Touched(nested[i]) :
                                   Due(j, Min(nested[i].outer.validation), study.settings.embargo)

\* No look-ahead in a replay (optimizer.py:293, recency_adaptation.py:221 and :586,
\* uncertainty_weighting.py:15): the weights of an origin and the drift that
\* shrinks them would be the same if there were no candle after the origin.
WeightsSeeThePast ==
    rows # <<>> =>
        LET sample == samples[LastRow.position]
            snapshots == Snapshots(LastRow.learned)
            actuals == Actuals(CandlesBy(sample.at))
            severity == Severity(study.kind, snapshots, actuals, sample)
            parameters == IF LastRow.candidate = Missing THEN Production ELSE Parameters(LastRow.candidate)
        IN  /\ \A j \in LastRow.learned : At[j] < sample.at
            /\ LastRow.severity = severity
            /\ \A h \in Horizons :
                  LastRow.weights[h] = Decide(study.kind, LastRow.candidate, parameters, snapshots, actuals,
                                              sample, h, ConfidenceOf(study, severity))

\* The dominance guard (uncertainty_weighting.py:350): after the penalties and the
\* bounds, a model weighs more than twice every other one only if it is a TimesFM whose
\* intervals came due often enough, and held often enough.  An empty interval is none.
LeadIsEvidenced ==
    rows # <<>> /\ study.kind = "uncertainty" =>
        \A h \in Horizons, m \in Models :
            LET weights == LastRow.weights[h].uncertainty_aware
                actuals == Actuals(candles)
                due == Observed(Snapshots(LastRow.learned), actuals, h, samples[LastRow.position].at)
                Band(o) == samples[CHOOSE i \in DOMAIN samples : samples[i].at = o].bands[m][h]
                banded == {o \in due : m \in Contexts /\ Band(o)[1] < Band(o)[2]}
                held == {o \in banded : Band(o)[1] <= actuals[o + Hour * h] /\ actuals[o + Hour * h] <= Band(o)[2]}
            IN  /\ Cardinality(due) >= AdaptiveMin
                /\ \A n \in Models \ {m} : weights[m] > MaxRatio * weights[n] + Cardinality(Models)
                => /\ m \in Contexts /\ Cardinality(banded) >= DominanceEvidence
                   /\ 1000 * Cardinality(held) >= 650 * Cardinality(banded)

=============================================================================
