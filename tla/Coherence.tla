------------------------------ MODULE Coherence ------------------------------
(***************************************************************************)
(* How the quantiles of the horizons are made to fit each other            *)
(* (forecasting/multi_horizon_coherence.py).  The longer the horizon, the  *)
(* wider its interval; no median turns against the one before it without   *)
(* evidence.  Predictions are [point, q10, q50, q90] per horizon, in       *)
(* logarithmic levels; base is the last close.                             *)
(***************************************************************************)
EXTENDS ForecastEngine

CONSTANT MinEvidence    \* matured samples that a claim about a horizon needs

ASSUME CoherenceAssumption == MinEvidence \in Nat \ {0}

QuantileGap == 5
EnvelopeGap == 5
MaxAdjustment == 200
FlipThreshold == 25

HorizonsUpTo(h) == {g \in Horizons : g <= h}
Before(h) == Max({g \in Horizons : g < h})
Neighbours == {n \in Horizons \X Horizons : n[1] < n[2] /\ n[1] = Before(n[2])}

\* _crossing_records: <<shorter, longer, level>>, a horizon with itself for its
\* own order
Crossings(p) ==
    {<<h, h, "q10">> : h \in {g \in Horizons : p[g].q50 - p[g].q10 < QuantileGap}}
    \cup {<<h, h, "q90">> : h \in {g \in Horizons : p[g].q90 - p[g].q50 < QuantileGap}}
    \cup {<<n[1], n[2], "q10">> : n \in {m \in Neighbours : p[m[2]].q10 > p[m[1]].q10}}
    \cup {<<n[1], n[2], "q90">> : n \in {m \in Neighbours : p[m[2]].q90 < p[m[1]].q90}}

Evidenced(samples, g, h) == samples[g] >= MinEvidence /\ samples[h] >= MinEvidence
Marked(short, long) == Abs(short) >= FlipThreshold /\ Abs(long) >= FlipThreshold

\* the turns that stand: _flip_records
Flips(p, base, samples) ==
    {n \in Neighbours :
        LET short == p[n[1]].q50 - base
            long == p[n[2]].q50 - base
        IN  /\ short # 0 /\ Sign(short) # Sign(long)
            /\ Marked(short, long) /\ Evidenced(samples, n[1], n[2])}

\* The targets of _reconcile_targets.
\* 1: every interval leaves a gap around its median
Opened(p) ==
    Table([h \in Horizons |-> [p[h] EXCEPT !.q10 = Min({@, p[h].q50 - QuantileGap}),
                                           !.q90 = Max({@, p[h].q50 + QuantileGap})]])

\* 2: from the shortest horizon on, each interval covers the one before it
Nested(p) ==
    LET Gap(g, h) == EnvelopeGap * Cardinality({f \in Horizons : g < f /\ f <= h})
    IN  Table([h \in Horizons |->
            [p[h] EXCEPT !.q10 = Min({p[g].q10 - Gap(g, h) : g \in HorizonsUpTo(h)}),
                         !.q90 = Max({p[g].q90 + Gap(g, h) : g \in HorizonsUpTo(h)})]])

\* a median that turns without evidence takes the value of the one before
Settled(p, base, samples) ==
    LET median[h \in Horizons] ==
            IF HorizonsUpTo(h) = {h} THEN p[h].q50
            ELSE LET g == Before(h)
                     short == median[g] - base
                     long == p[h].q50 - base
                 IN  IF Sign(short) = Sign(long) \/ (Marked(short, long) /\ Evidenced(samples, g, h))
                     THEN p[h].q50 ELSE median[g]
    IN  Table([h \in Horizons |-> [p[h] EXCEPT !.q50 = median[h]]])

Targets(p, base, samples) == Opened(Settled(Nested(Opened(p)), base, samples))

\* 4: no quantile moves by more than MaxAdjustment
Reconciled(p, base, samples) ==
    LET target == Targets(p, base, samples)
        Toward(from, to) == from + Clip(to - from, -MaxAdjustment, MaxAdjustment)
    IN  Table([h \in Horizons |-> [p[h] EXCEPT !.q10 = Toward(@, target[h].q10),
                                               !.q50 = Toward(@, target[h].q50),
                                               !.q90 = Toward(@, target[h].q90)]])

\* intervals that grew by more than a fifth
Overgrown(p, after) == {h \in Horizons : 5 * (after[h].q90 - after[h].q10) > 6 * (p[h].q90 - p[h].q10)}

\* reconcile_forecast_coherence: what is published, and what keeps it from being
\* published.  Only the crossings that were there before are looked for again.
Coherence(p, base, samples) ==
    LET after == Reconciled(p, base, samples)
    IN  [predictions |-> after,
         unrecoverable |-> (Crossings(p) \cap Crossings(after))
                               \cup {<<h, h, "width">> : h \in Overgrown(p, after)},
         flips |-> Flips(p, base, samples)]

\* mutant: only an interval that grew too much keeps a forecast from being published
RaisesForWidth(coherence) == \E r \in coherence.unrecoverable : r[3] = "width"

\* assert_forecast_coherent raises
Raises(coherence) == coherence.unrecoverable # {}

=============================================================================
