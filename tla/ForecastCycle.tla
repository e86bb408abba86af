---------------------------- MODULE ForecastCycle ----------------------------
(***************************************************************************)
(* The forecasts of successive runs, and what each learns from those       *)
(* before it (cli/btc_forecast.py, main): candles are selected, outcomes   *)
(* of earlier forecasts are recorded from them, drift is measured, the     *)
(* ensemble is weighed by the outcomes, its quantiles are reconciled, and  *)
(* the claims that may be made of it are decided.                          *)
(*                                                                         *)
(* store is the durable history, rolling the small cache of the newest     *)
(* snapshots.  A run that raises leaves neither: the job fails before they *)
(* are uploaded.  A candle may be wrong in the answer of the primary       *)
(* provider; tape holds what really happened.                              *)
(***************************************************************************)
EXTENDS ForecastEvidence

CONSTANTS
    Candles,        \* the candles a provider answers with
    Pasts,          \* hours that were forecast already: sequences of [move, answer]
    FirstCloses,        \* the closes before them, a sequence
    Moves,          \* what the close may do in an hour
    Answers,        \* what TimesFM may answer
    Errata,         \* how far the newest candle of the primary may be off
    RollingLimit,   \* HISTORY_LIMIT of the rolling cache
    MaxHours, MaxRuns

ASSUME CycleAssumption ==
    /\ Candles \in Nat \ {0} /\ FirstCloses \in Seq(Int) /\ Len(FirstCloses) > Candles
    /\ Moves \subseteq Int /\ Errata \subseteq Int
    /\ \A past \in Pasts :
          Len(past) \in Nat /\ \A i \in 1 .. Len(past) : past[i].move \in Int /\ Numeric(past[i].answer)
    /\ RollingLimit \in Nat \ {0} /\ \A answer \in Answers : Numeric(answer)
    /\ MinOverlap <= MinCandles /\ MinOverlap <= CompareCandles

VARIABLES
    tape,           \* hour -> close
    now,            \* minutes
    store,          \* [snapshots, outcomes]
    rolling,        \* the cache: a sequence of snapshots, oldest first
    published,      \* the last forecast.json
    runs            \* runs so far

vars == <<tape, now, store, rolling, published, runs>>

LatestHour(time) == (time \div Hour) * Hour

\* a function with a value for one more argument
With(f, x, y) == [z \in (DOMAIN f) \cup {x} |-> IF z = x THEN y ELSE f[z]]

\* the newest candles of a tape up to an hour
Answered(closes, latest) ==
    LET at(i) == latest - Hour * (Candles - i)
    IN  [i \in 1 .. Candles |->
            [at |-> at(i), close |-> closes[at(i)], volume |-> 1, flaw |-> "none"]]

\* What the providers answer: both the tape, the primary with an erratum, alone or
\* not; or the secondary alone, with all hours or one hour late.
Deliveries(closes, time) ==
    LET latest == LatestHour(time)
        true == Answered(closes, latest)
        wrong(e) == [true EXCEPT ![Candles].close = @ + e]
    IN  {<<true, true>>, <<Missing, true>>, <<Missing, Answered(closes, latest - Hour)>>}
        \cup {<<wrong(e), true>> : e \in Errata} \cup {<<wrong(e), Missing>> : e \in Errata}

-----------------------------------------------------------------------------
\* The store

\* ingest_snapshot: the first forecast of an origin stands
Ingest(snapshots, snapshot) ==
    IF snapshot.origin \in DOMAIN snapshots THEN snapshots
    ELSE With(snapshots, snapshot.origin, snapshot)

\* enrich_outcomes: the outcomes that are pending and whose target has a candle
Enriched(snapshots, outcomes, market) ==
    LET due == {k \in (DOMAIN snapshots) \X Horizons :
                   k \notin DOMAIN outcomes /\ k[1] + Hour * k[2] \in Stamps(market.series)}
    IN  [k \in (DOMAIN outcomes) \cup due |->
            IF k \in DOMAIN outcomes THEN outcomes[k]
            ELSE [actual |-> Close(market.series, k[1] + Hour * k[2]), matured |-> market.at,
                  checked |-> k[1] + Hour * k[2] \in market.compared]]

\* save_forecast_history: the last forecast of an origin, and the newest of all
Save(cache, snapshot) ==
    LET others == Ordered({i \in DOMAIN cache : cache[i].origin # snapshot.origin})
        all == Append([j \in DOMAIN others |-> cache[others[j]]], snapshot)
        n == Len(all)
    IN  SubSeq(all, Max({1, n - RollingLimit + 1}), n)

-----------------------------------------------------------------------------
\* A run

\* what is measured and claimed of a snapshot, before and after its quantiles
\* are reconciled
Assessment(history, outcomes, known, snapshot, coherence, severity) ==
    LET origin == snapshot.origin
        ever == [k \in DOMAIN outcomes |-> outcomes[k].actual]
        matured == MaturedBy(outcomes, origin)
        Move(h) == snapshot.ensemble[h].point - snapshot.close
        probability == [h \in Horizons |-> Probability(history, matured, h, Move(h))]
        threshold == [h \in Horizons |-> Threshold(history, matured, h, Move(h))]
        Width(h) == snapshot.ensemble[h].q90 - snapshot.ensemble[h].q10
        confidence == Confidence([h \in Horizons |->
            HorizonConfidence(Performance(history, ever, h), Calibration(history, ever, h, snapshot.regime),
                              Width(h), severity)])
        abstention == Abstention(severity, confidence, threshold, probability,
                                 [h \in Horizons |-> snapshot.ensemble[h].agreeing])
    IN  [origin |-> origin, severity |-> severity, confidence |-> confidence,
         predictions |-> coherence.predictions, base |-> snapshot.close,
         weights |-> snapshot.weights, probability |-> probability, threshold |-> threshold,
         conditional |-> [h \in Horizons |->
             Conditional(history, matured, h, Bucket(snapshot.regime, snapshot.features))],
         state |-> abstention, attribution |-> Attribution(abstention, threshold),
         evidence |-> (DOMAIN matured) \cup (DOMAIN known)]

\* what a run stores and publishes once its horizons are reconciled, or Missing when
\* it raises
Concluded(snapshots, outcomes, cache, market, severity, snapshot, coherence) ==
    LET known == KnownAt(snapshots, outcomes, Closes(market.series), snapshot.origin)
        final == [snapshot EXCEPT !.ensemble = coherence.predictions]
        after == Ingest(snapshots, final)
    IN  IF Raises(coherence) THEN Missing
        ELSE [store |-> [snapshots |-> after, outcomes |-> Enriched(after, outcomes, market)],
              rolling |-> Save(cache, final),
              published |-> Assessment(snapshots, outcomes, known, snapshot, coherence, severity)]

\* the horizons of a forecast, reconciled with the evidence for their directions
Cohered(snapshots, outcomes, snapshot) ==
    LET matured == MaturedBy(outcomes, snapshot.origin)
        samples == [h \in Horizons |->
            Probability(snapshots, matured, h, snapshot.ensemble[h].point - snapshot.close).samples]
    IN  Coherence(snapshot.ensemble, snapshot.close, samples)

\* main from one intermediate result to the next: its outcomes, the drift they show,
\* the forecast made under it, and the horizons reconciled
AfterForecast(snapshots, outcomes, cache, market, severity, snapshot) ==
    Concluded(snapshots, outcomes, cache, market, severity, snapshot,
              Cohered(snapshots, outcomes, snapshot))

Forecast(snapshots, outcomes, cache, market, answer, severity) ==
    AfterForecast(snapshots, outcomes, cache, market, severity,
        BuildForecast(answer, market.series, snapshots, outcomes, AdaptiveConfidence(severity)))

Drifted(snapshots, outcomes, market) ==
    Drift(snapshots, [k \in DOMAIN outcomes |-> outcomes[k].actual],
          Last(market.series).at, Features(market.series))

Learned(snapshots, outcomes, cache, market, answer) ==
    Forecast(snapshots, outcomes, cache, market, answer, Drifted(snapshots, outcomes, market))

\* What a run makes of a store, a cache and the market it sees: the new ones and the
\* forecast.
Result(kept, cache, market, answer) ==
    LET snapshots == FoldLeft(Ingest, kept.snapshots, cache)
    IN  IF market.series = Missing \/ ~Sound(answer) THEN Missing
        ELSE Learned(snapshots, Enriched(snapshots, kept.outcomes, market), cache, market, answer)

\* the series that is selected of a delivery, and the hours that were compared
Market(delivery, time) ==
    LET primary == Attempt(delivery[1], time).data
        secondary == Attempt(delivery[2], time).data
    IN  [series |-> Selection(delivery[1], delivery[2], time).data, at |-> time,
         compared |-> IF Missing \in {primary, secondary} THEN {} ELSE Overlap(primary, secondary)]

\* a run on what the providers delivered
Outcome(kept, cache, delivery, answer, time) == Result(kept, cache, Market(delivery, time), answer)

-----------------------------------------------------------------------------
\* The hours

EmptyStore == [snapshots |-> <<>>, outcomes |-> <<>>]

FirstHours == [t \in {Hour * i : i \in 1 .. Len(FirstCloses)} |-> FirstCloses[t \div Hour]]

Turned(closes, time, kept) ==
    [tape |-> closes, now |-> time, store |-> kept.store, rolling |-> kept.rolling]

\* an hour, with a run on true candles at its end
Live(s, hour) ==
    LET time == s.now + Hour
        closes == With(s.tape, LatestHour(time), s.tape[LatestHour(s.now)] + hour.move)
        series == Answered(closes, LatestHour(time))
        Kept(result) == IF result = Missing THEN s ELSE result
    IN  Turned(closes, time, Kept(Outcome(s.store, s.rolling, <<series, series>>, hour.answer, time)))

\* the states after each of some hours
Lives(past) ==
    LET lived[n \in 0 .. Len(past)] ==
            IF n = 0 THEN [tape |-> FirstHours, now |-> Hour * Len(FirstCloses) + 20,
                           store |-> EmptyStore, rolling |-> <<>>]
            ELSE Live(lived[n - 1], past[n])
    IN  lived

Lived(past) == Lives(past)[Len(past)]

Init ==
    /\ \E lived \in {Lived(past) : past \in Pasts} :
          tape = lived.tape /\ now = lived.now /\ store = lived.store /\ rolling = lived.rolling
    /\ published = Missing
    /\ runs = 0

\* an hour passes, to twenty past the next
NextHour ==
    /\ Cardinality(DOMAIN tape) < Len(FirstCloses) + MaxHours
    /\ \E move \in Moves :
          tape' = With(tape, LatestHour(now) + Hour, tape[LatestHour(now)] + move)
    /\ now' = LatestHour(now) + Hour + 20
    /\ UNCHANGED <<store, rolling, published, runs>>

\* half an hour passes
Later ==
    /\ now % Hour = 20
    /\ now' = now + 30
    /\ UNCHANGED <<tape, store, rolling, published, runs>>

\* main, to its end
Run ==
    /\ runs < MaxRuns
    /\ \E delivery \in Deliveries(tape, now), answer \in Answers :
          \E result \in {Outcome(store, rolling, delivery, answer, now)} :
              /\ result # Missing
              /\ store' = result.store
              /\ rolling' = result.rolling
              /\ published' = result.published
    /\ runs' = runs + 1
    /\ UNCHANGED <<tape, now>>

\* the durable history is lost; the next run starts it again from the cache
LoseStore ==
    /\ store # EmptyStore
    /\ store' = EmptyStore
    /\ UNCHANGED <<tape, now, rolling, published, runs>>

Next == NextHour \/ Later \/ Run \/ LoseStore

Spec == Init /\ [][Next]_vars

-----------------------------------------------------------------------------
\* Properties

Origins == {t \in DOMAIN tape : t % Hour = 0}

\* An outcome that was recorded when both providers gave its candle is close to the
\* truth: a wrong candle of one of them never becomes the measure of a forecast.
OutcomesAreChecked ==
    \A k \in DOMAIN store.outcomes :
        store.outcomes[k].checked =>
            Distance(store.outcomes[k].actual, tape[k[1] + Hour * k[2]]) <= MaxDifference

\* The weights of the models, the probabilities and the thresholds of a forecast are
\* made of outcomes that were there at its origin, even when a fallback moved the
\* origin behind outcomes that were recorded already (leakage_guard of the sections).
EvidencePrecedesOrigin ==
    published # Missing => \A k \in published.evidence : k[1] + Hour * k[2] <= published.origin

\* The medians and intervals of a published forecast fit each other, and its point
\* is inside the interval.
PublishedIsCoherent ==
    published # Missing =>
        LET p == published.predictions
        IN  /\ Crossings(p) = {}
            /\ \A h \in Horizons : p[h].q10 < p[h].point /\ p[h].point < p[h].q90

\* A claim is only made when every horizon has enough outcomes, the ensemble was
\* nearer to them than persistence, and the move is beyond the noise.
ClaimsAreEarned ==
    [][published' # published /\ published'.state = "healthy" =>
          \A h \in Horizons :
              LET origins == {k[1] : k \in {l \in DOMAIN store'.outcomes : l[2] = h}}
                  Err(level(_)) ==
                      SumFunction([o \in origins |->
                          Abs(level(store'.snapshots[o]) - store'.outcomes[<<o, h>>].actual)])
              IN  /\ Cardinality(origins) >= MinEvidence
                  /\ Err(LAMBDA s : s.ensemble[h].point) < Err(LAMBDA s : s.close)
                  /\ Abs(published'.predictions[h].point - published'.base) > published'.threshold[h].neutral]_vars

=============================================================================
