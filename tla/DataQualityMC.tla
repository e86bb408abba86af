--------------------------- MODULE DataQualityMC ----------------------------
(***************************************************************************)
(* Seven hours of candles with gaps that are covered, half covered, too    *)
(* large, contradicted or uncomparable, and two origins whose providers    *)
(* are late, early, down or of different ages.                             *)
(***************************************************************************)
EXTENDS DataQuality

Candle(h, offset) == [at |-> 60 * h, close |-> 10 * h + offset, volume |-> 1, flaw |-> "none"]
Candles(hours, offset) == {Candle(h, offset) : h \in hours}
Deliver(primary, secondary) == [primary |-> SetToSeries(primary), secondary |-> SetToSeries(secondary)]

MCDeliveries ==
    {Deliver(Candles(1 .. 7, 0), Candles(1 .. 7, 5)),
     Deliver(Candles(1 .. 7 \ {3, 4, 5}, 0), Candles({1, 2, 4, 6, 7}, 5)),
     Deliver(Candles(1 .. 7 \ {2, 3}, 0), Candles(1 .. 6, 5) \cup {Candle(7, 90)}),
     Deliver(Candles({1, 6, 7}, 0), Candles(1 .. 7, 5)),
     Deliver(Candles({1, 2, 4, 6, 7}, 0), Candles(1 .. 3, 5) \cup {[Candle(6, 5) EXCEPT !.at = 350]})}

MCWarningAt == [m \in Metrics |-> CASE m = "gaps_detected" -> 1
                                    [] m = "missing_candles_total" -> 2
                                    [] m = "silent_fill_candidates" -> 1
                                    [] m = "withhold_gaps" -> 0]
MCCriticalAt == [m \in Metrics |-> CASE m = "gaps_detected" -> 2
                                     [] m = "missing_candles_total" -> 4
                                     [] m = "silent_fill_candidates" -> 3
                                     [] m = "withhold_gaps" -> 2]

Good(o) == [binance |-> {o - 60}, gate |-> {}, stats |-> {o - 1440, o - 60, o}, kraken |-> "ok",
            bitstamp |-> "ok", btc |-> {o - 120, o - 60, o}, eth |-> {o - 120, o - 60, o},
            macro |-> -8 .. -2]

MCObservations ==
    [o \in {0, 60} |->
        {Good(o),
         [Good(o) EXCEPT !.stats = {o - 60, o + 30}, !.eth = {o - 180}, !.macro = {-30, -1, 0}],
         [Good(o) EXCEPT !.binance = {}, !.gate = {o - 480}, !.kraken = "crossed", !.btc = {}]}]

=============================================================================
