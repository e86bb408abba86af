----------------------------- MODULE MarketData -----------------------------
(***************************************************************************)
(* What is computed from the hourly candles of the two providers           *)
(* (data/market_data_sources.py, data/market_data_validation.py).          *)
(*                                                                         *)
(* A series is a sequence of candles.  A candle is stamped with the hour   *)
(* it closes at.  Prices are logarithmic, in basis points: a percentage    *)
(* between two prices of the code is a difference here.  A close is finite *)
(* and positive; what may be wrong with the open, high and low of a candle *)
(* is its "flaw".  Times are minutes; Hour is the interval of the candles. *)
(* A fetch builds all columns from the same rows: their lengths agree.     *)
(***************************************************************************)
EXTENDS Integers, Sequences, SequencesExt

CONSTANTS
    Missing,            \* no data, no record
    MinCandles,         \* candles a valid series has at least
    CompareCandles,     \* the most recent shared candles that are compared
    MinOverlap,         \* shared candles a comparison needs
    VolumeHistory,      \* candles before the first whose volume is checked
    VolumeLookback      \* candles of the median a volume is checked against

ASSUME MarketDataAssumption ==
    /\ MinCandles \in Nat \ {0} /\ CompareCandles \in Nat \ {0} /\ MinOverlap \in Nat \ {0}
    /\ VolumeHistory \in Nat \ {0} /\ VolumeLookback \in Nat \ {0}

Hour == 60
MaxStaleness == 90
FutureTolerance == 1
MaxReturn == 2000
MaxDifference == 75
MaxVolumeMultiple == 50
VolumeCap == 10

Stamps(series) == {series[i].at : i \in DOMAIN series}
Close(series, at) == series[Max({i \in DOMAIN series : series[i].at = at})].close
Closes(series) == [t \in Stamps(series) |-> Close(series, t)]
Distance(a, b) == IF a < b THEN b - a ELSE a - b

-----------------------------------------------------------------------------
\* Validation

\* twice the median of a sequence of volumes
DoubleMedian(volumes) ==
    LET s == SortSeq(volumes, <)
        n == Len(s)
    IN  s[(n + 1) \div 2] + s[n \div 2 + 1]

\* the volumes that candle i is held against
VolumeWindow(volumes, i) ==
    SubSeq(volumes, IF i > VolumeLookback THEN i - VolumeLookback ELSE 1, i - 1)

CheckedVolumes(volumes) == (VolumeHistory + 1) .. Len(volumes)

ExtremeVolumes(volumes) ==
    IF \E i \in DOMAIN volumes : volumes[i] <= 0 THEN {}
    ELSE {i \in CheckedVolumes(volumes) :
             2 * volumes[i] > MaxVolumeMultiple * DoubleMedian(VolumeWindow(volumes, i))}

Volumes(series) == [i \in DOMAIN series |-> series[i].volume]

\* The codes of the errors validate_market_data reports.  A column that is not
\* finite, or a low that is not positive, keeps the later checks from running.
Errors(series, now) ==
    LET n == Len(series)
        flaws == {series[i].flaw : i \in 1 .. n} \ {"none"}
        Step(i) == series[i + 1].at - series[i].at
        pairs == 1 .. (n - 1)
        Hidden(e) == \/ e # "non_positive" /\ "non_finite" \in flaws \ {e}
                     \/ e = "extreme_candle_range" /\ "non_positive" \in flaws
    IN  {e \in flaws : ~Hidden(e)}
        \cup {e \in {"insufficient_candles", "non_positive_volume", "extreme_hourly_return",
                     "extreme_volume", "duplicate_timestamp", "out_of_order_timestamp",
                     "missing_or_irregular_candle", "future_timestamp", "stale_data"} :
                \/ e = "insufficient_candles" /\ n < MinCandles
                \/ e = "non_positive_volume" /\ \E i \in 1 .. n : series[i].volume <= 0
                \/ e = "extreme_hourly_return" /\ "non_finite" \notin flaws
                   /\ \E i \in pairs : Distance(series[i].close, series[i + 1].close) > MaxReturn
                \/ e = "extreme_volume" /\ ExtremeVolumes(Volumes(series)) # {}
                \/ e = "duplicate_timestamp" /\ \E i \in pairs : Step(i) = 0
                \/ e = "out_of_order_timestamp" /\ \E i \in pairs : Step(i) < 0
                \/ e = "missing_or_irregular_candle" /\ \E i \in pairs : Step(i) > 0 /\ Step(i) # Hour
                \/ e = "future_timestamp" /\ n > 0 /\ Last(series).at > now + FutureTolerance
                \/ e = "stale_data" /\ n > 0 /\ now - Last(series).at > MaxStaleness}

\* The outlying volumes are capped from the oldest on, each against medians of
\* what was capped before it.
WinsorizedVolumes(volumes) ==
    LET Cap(vs, i) ==
            LET ceiling == (VolumeCap * DoubleMedian(VolumeWindow(vs, i))) \div 2
            IN  IF vs[i] > ceiling THEN [vs EXCEPT ![i] = ceiling] ELSE vs
    IN  FoldLeft(Cap, volumes, [k \in 1 .. Len(volumes) - VolumeHistory |-> VolumeHistory + k])

Winsorized(series) ==
    LET vs == WinsorizedVolumes(Volumes(series))
    IN  [i \in DOMAIN series |-> [series[i] EXCEPT !.volume = vs[i]]]

-----------------------------------------------------------------------------
\* The two providers

\* Both fetches raise when they get fewer than MinCandles completed candles; a
\* fetch that raises leaves no data.
Fetched(answer) == IF answer # Missing /\ Len(answer) < MinCandles THEN Missing ELSE answer

\* Data whose only fault are outlying volumes is capped and validated again.
Attempt(answer, now) ==
    LET data == Fetched(answer)
        errors == Errors(data, now)
        capped == Winsorized(data)
    IN  IF data = Missing THEN [data |-> Missing, healthy |-> FALSE]
        ELSE IF errors = {"extreme_volume"}
             THEN [data |-> capped, healthy |-> Errors(capped, now) = {}]
             ELSE [data |-> data, healthy |-> errors = {}]

\* The compared stamps: the most recent ones that both series have.
Overlap(left, right) ==
    LET common == Stamps(left) \cap Stamps(right)
    IN  {t \in common : Cardinality({u \in common : u > t}) < CompareCandles}

CompareCloses(left, right) ==
    LET compared == Overlap(left, right)
    IN  IF Cardinality(compared) < MinOverlap THEN "insufficient_overlap"
        ELSE IF \E t \in compared : Distance(Close(left, t), Close(right, t)) > MaxDifference
             THEN "disagreement" ELSE "ok"

Comparison(primary, secondary) ==
    IF primary.data = Missing \/ secondary.data = Missing THEN Missing
    ELSE CompareCloses(primary.data, secondary.data)

Selected(status, data, comparison) == [status |-> status, data |-> data, comparison |-> comparison]

\* mutant: a healthy primary is taken before the providers are compared
ChosenUncompared(primary, secondary, comparison) ==
    IF primary.healthy THEN Selected("primary", primary.data, comparison)
    ELSE IF comparison = "disagreement" THEN Selected("disagreement", Missing, comparison)
    ELSE IF ~secondary.healthy THEN Selected("unhealthy", Missing, comparison)
    ELSE Selected("fallback", secondary.data, comparison)

\* A disagreement counts whatever the health of the data; a fallback from data, and
\* not from an outage, needs enough overlap.
Chosen(primary, secondary, comparison) ==
    IF comparison = "disagreement" THEN Selected("disagreement", Missing, comparison)
    ELSE IF primary.healthy THEN Selected("primary", primary.data, comparison)
    ELSE IF ~secondary.healthy THEN Selected("unhealthy", Missing, comparison)
    ELSE IF primary.data # Missing /\ comparison # "ok" THEN Selected("unchecked", Missing, comparison)
    ELSE Selected("fallback", secondary.data, comparison)

\* what select_market_data returns or raises
Selection(primaryAnswer, secondaryAnswer, now) ==
    LET primary == Attempt(primaryAnswer, now)
        secondary == Attempt(secondaryAnswer, now)
    IN  Chosen(primary, secondary, Comparison(primary, secondary))

=============================================================================
