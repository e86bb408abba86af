--------------------------- MODULE OptionalSources --------------------------
(***************************************************************************)
(* The optional inputs of a forecast: what is made of the rows of their    *)
(* providers (data/derivatives_signals.py, data/microstructure_signals.py, *)
(* data/cross_asset_signals.py), which of them are kept out of the         *)
(* features (data/source_health.py) and what is retained of them           *)
(* (data/optional_source_retention.py).                                    *)
(*                                                                         *)
(* Rows are the times they are stamped with, in minutes; the values they   *)
(* carry are left out, and so are values that cannot be read.  A snapshot  *)
(* is what its features and their quality were made from.                  *)
(***************************************************************************)
EXTENDS Integers, Sequences, SequencesExt

CONSTANTS
    RetentionMinutes,   \* BTC_OPTIONAL_SOURCE_RETENTION_HOURS
    MaxRecords          \* BTC_OPTIONAL_SOURCE_RETENTION_MAX_RECORDS

ASSUME RetentionAssumption == RetentionMinutes \in Nat \ {0} /\ MaxRecords \in Nat \ {0}

Hours(n) == 60 * n
Day == Hours(24)

MaxFundingAge == Hours(12)
MaxStatsAge == 150
MaxBookLag == 75
MaxEthAge == Hours(2)
MaxMacroAge == 7 * Day

-----------------------------------------------------------------------------
\* Snapshots

\* _bounded_rows: no row after the origin of the forecast
Bounded(rows, origin) == {t \in rows : t <= origin}

Newest(rows) == Max(rows)
AgeOf(rows, origin) == IF rows = {} THEN {} ELSE {origin - Newest(rows)}
Stale(rows, origin, limit) == \A age \in AgeOf(rows, origin) : age > limit
IsStale(rows, origin, limit) == rows = {} \/ Stale(rows, origin, limit)

Statistics == {"open_interest", "long_liquidation", "short_liquidation", "total_liquidation",
               "liquidation_imbalance"}
DerivativeFeatures == Statistics \cup {"funding_rate", "oi_change_1h", "oi_change_24h"}

\* derivatives_signals.snapshot_from_rows
DerivativesSnapshot(origin, fundingRows, statsRows) ==
    LET funding == Bounded(fundingRows, origin)
        stats == Bounded(statsRows, origin)
        staleFunding == IsStale(funding, origin, MaxFundingAge)
        staleStats == IsStale(stats, origin, MaxStatsAge)
        Before(age) == \E t \in stats : t <= Newest(stats) - age
        features ==
            {f \in DerivativeFeatures :
                \/ f = "funding_rate" /\ ~staleFunding
                \/ f \in Statistics /\ ~staleStats
                \/ f = "oi_change_1h" /\ ~staleStats /\ Before(Hours(1))
                \/ f = "oi_change_24h" /\ ~staleStats /\ Before(Day)}
    IN  [source |-> "derivatives", origin |-> origin, captured |-> origin,
         features |-> features, missing |-> DerivativeFeatures \ features,
         ages |-> AgeOf(funding, origin) \cup AgeOf(stats, origin),
         markers |-> {s \in {"funding", "stats"} : \/ s = "funding" /\ staleFunding
                                                   \/ s = "stats" /\ staleStats}]

\* fetch_derivatives_snapshot: the second provider is asked for funding when the
\* first has none
FundingRows(binance, gate) == IF binance # {} THEN binance ELSE gate

BookFeatures == {"spread", "microprice", "depth", "imbalance"}

\* microstructure_signals.snapshot_from_book: a live book, all of it or nothing
BookSnapshot(origin, captured, book) ==
    LET lag == captured - origin
        usable == lag >= 0 /\ lag <= MaxBookLag /\ book = "ok"
    IN  [source |-> "microstructure", origin |-> origin, captured |-> captured,
         features |-> IF usable THEN BookFeatures ELSE {},
         missing |-> IF usable THEN {} ELSE BookFeatures,
         ages |-> {}, markers |-> {}]

\* fetch_microstructure_snapshot: Kraken, then Bitstamp, then an empty book
Book(kraken, bitstamp) == IF kraken # "down" THEN kraken
                          ELSE IF bitstamp # "down" THEN bitstamp ELSE "empty"

\* _macro_available_at: a daily observation counts from the next midnight on
MacroAvailable(day) == (day + 1) * Day
EligibleMacro(days, origin) == {d \in days : MacroAvailable(d) <= origin}

MacroFeatures(days, origin) ==
    LET eligible == EligibleMacro(days, origin)
    IN  IF eligible = {} \/ origin - MacroAvailable(Max(eligible)) > MaxMacroAge THEN {}
        ELSE {"level"} \cup IF Cardinality(eligible) >= 6 THEN {"change"} ELSE {}

\* cross_asset_signals.snapshot_from_inputs: hours are the stamps both assets have
EthFeatures == {"return", "relative_return", "correlation"}

CrossAssetSnapshot(origin, btcRows, ethRows, macroDays) ==
    LET common == Bounded(btcRows \cap ethRows, origin)
        fresh == ~IsStale(common, origin, MaxEthAge)
        Has(hours) == Cardinality(common) > hours
        eth == {f \in EthFeatures : fresh /\ Has(IF f = "return" THEN 1 ELSE 2)}
        macro == MacroFeatures(macroDays, origin)
        features == eth \cup macro
    IN  [source |-> "cross_asset", origin |-> origin, captured |-> origin,
         features |-> features, missing |-> (EthFeatures \cup {"level", "change"}) \ features,
         ages |-> AgeOf(common, origin), markers |-> {}]

\* The three snapshots of btc_forecast.main, from what the providers answer.
Snapshots(origin, captured, rows) ==
    {DerivativesSnapshot(origin, FundingRows(rows.binance, rows.gate), rows.stats),
     BookSnapshot(origin, captured, Book(rows.kraken, rows.bitstamp)),
     CrossAssetSnapshot(origin, rows.btc, rows.eth, rows.macro)}

-----------------------------------------------------------------------------
\* Health

MaxOptionalAge == 150

StaleInput(snapshot) ==
    LET age == IF snapshot.ages # {} THEN Max(snapshot.ages) ELSE snapshot.origin - snapshot.captured
    IN  age > MaxOptionalAge \/ snapshot.markers # {}

\* more than a quarter of the features missing
IncompleteInput(snapshot) ==
    LET missing == Cardinality(snapshot.missing)
    IN  snapshot.features = {} \/ 4 * missing > Cardinality(snapshot.features) + missing

Key(snapshot) == <<snapshot.source, snapshot.origin>>

\* the digest of an input seen for this origin before, in the state file
RevisedInput(snapshot, seen) == Key(snapshot) \in DOMAIN seen /\ seen[Key(snapshot)] # snapshot

\* evaluate_source_health: the sources whose features are left out
Quarantined(snapshots, seen) ==
    {s.source : s \in {t \in snapshots : \/ StaleInput(t)
                                         \/ IncompleteInput(t)
                                         \/ RevisedInput(t, seen)}}

AfterHealth(snapshots, seen) ==
    [k \in {Key(s) : s \in snapshots} |-> CHOOSE s \in snapshots : Key(s) = k] @@ seen

-----------------------------------------------------------------------------
\* Retention

\* records: a sequence of [origin, observed, revision, snapshots], sorted by when they
\* were observed, origin and revision; what a revision is identified by is its content
Precedes(r, s) ==
    \/ r.observed < s.observed
    \/ /\ r.observed = s.observed
       /\ r.origin < s.origin \/ (r.origin = s.origin /\ r.revision < s.revision)

\* sorting again what is sorted but for one record
Placed(records, record) ==
    LET before == {i \in DOMAIN records : ~Precedes(record, records[i])}
    IN  InsertAt(records, Max({0} \cup before) + 1, record)

Kept(records, now) ==
    LET Held(r) == now - r.observed <= RetentionMinutes /\ r.observed <= now
        kept[i \in 0 .. Len(records)] ==
            IF i = 0 THEN <<>>
            ELSE IF Held(records[i]) THEN Append(kept[i - 1], records[i]) ELSE kept[i - 1]
    IN  kept[Len(records)]

LastRecords(records) ==
    IF Len(records) <= MaxRecords THEN records
    ELSE SubSeq(records, Len(records) - MaxRecords + 1, Len(records))

\* mutant: a later observation takes the place of the first
RetainLatest(records, snapshots, origin, now) ==
    LET other == SelectSeq(Kept(records, now), LAMBDA r : r.origin # origin)
    IN  LastRecords(Append(other, [origin |-> origin, observed |-> now, revision |-> 1,
                                   snapshots |-> snapshots]))

\* retain_optional_sources
Retain(records, snapshots, origin, now) ==
    LET kept == Kept(records, now)
        revisions == {i \in DOMAIN kept : kept[i].origin = origin}
        record == [origin |-> origin, observed |-> now, revision |-> Cardinality(revisions) + 1,
                   snapshots |-> snapshots]
        duplicate == \E i \in revisions : kept[i].snapshots = snapshots /\ kept[i].observed = now
    IN  LastRecords(IF duplicate THEN kept ELSE Placed(kept, record))

\* replay_optional_sources: the first observation that is left of the origin
Replay(records, origin) ==
    LET matches == {i \in DOMAIN records : records[i].origin = origin}
    IN  IF matches = {} THEN {} ELSE records[Min(matches)].snapshots

=============================================================================
