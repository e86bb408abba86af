---------------------------- MODULE PromotionMC ----------------------------
(***************************************************************************)
(* Reports around one that passes every check: each field that a check     *)
(* reads takes a value on either side of its limit.                        *)
(***************************************************************************)
EXTENDS Promotion

Rows(error) ==
    <<[origin |-> 1, horizon |-> 2, target |-> 3, label |-> "degraded", error |-> error],
      [origin |-> 2, horizon |-> 2, target |-> 4, label |-> "degraded", error |-> error]>>

Candidate(name, mae) ==
    [name |-> name, mae |-> mae, origins |-> 240, tail |-> 10, naiveTail |-> 500,
     direction |-> 50, horizon |-> [h \in Horizons |-> mae],
     persistence |-> [h \in Horizons |-> 100], folds |-> <<mae, mae, mae>>,
     regime |-> [calm |-> [h \in Horizons |-> [samples |-> 8, mae |-> mae]]],
     rows |-> Rows(mae)]

Production == Candidate("production", 100)
Good == Candidate("blend", 90)

\* A report of the candidate alone, or with a weaker one that had more luck.
Report(c, others) == [production |-> Production, challengers |-> <<c>> \o others, now |-> 10]

Variants ==
    {Good, [Good EXCEPT !.mae = 98], [Good EXCEPT !.tail = 20], [Good EXCEPT !.origins = 48],
     [Good EXCEPT !.horizon = [h \in Horizons |-> 106]], [Good EXCEPT !.rows = Rows(106)],
     [Good EXCEPT !.folds = <<90, 103, 90>>], [Good EXCEPT !.naiveTail = 990]}

MCReports ==
    {Report(c, <<>>) : c \in Variants}
        \union {Report(Good, <<[Candidate("recent", 95) EXCEPT !.tail = 5]>>),
                Report([Good EXCEPT !.tail = 20], <<[Candidate("recent", 95) EXCEPT !.tail = 5]>>),
                Report(Candidate("recent", 90), <<>>)}

Health(drift, x) == [drift |-> drift, stages |-> [forecast |-> "closed", x |-> x]]

MCHealths == {Missing, Health("none", "closed"), Health("none", "open"), Health("severe", "closed")}

MCOutcomes ==
    [c \in {"production", "blend", "recent"} |->
        {[config |-> c, horizon |-> h, error |-> 10, right |-> TRUE, covered |-> TRUE] :
            h \in Horizons}]

Live(name, error, covered, horizon) ==
    [config |-> ManifestId(name), samples |-> 32,
     new |-> [mae |-> error, direction |-> 50, calibration |-> covered],
     old |-> [mae |-> 100, direction |-> 50, calibration |-> 0],
     horizon |-> [h \in Horizons |-> <<horizon, 100>>]]

MCLiveReports ==
    {Live("blend", 100, 0, 100), Live("blend", 110, 0, 100), Live("blend", 100, 10, 100),
     Live("blend", 110, 0, 110), [Live("blend", 110, 0, 110) EXCEPT !.samples = 8]}
=============================================================================
