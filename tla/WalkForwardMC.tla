--------------------------- MODULE WalkForwardMC ----------------------------
(***************************************************************************)
(* Some markets of sixteen hours, with and without a gap, under what       *)
(* TimesFM may answer; the studies with the settings that matter.          *)
(***************************************************************************)
EXTENDS WalkForward

MCFeatures(series) ==
    LET n == Len(series)
        step == Abs(series[n].close - series[n - 1].close)
    IN  [trend |-> Min({100, Abs(series[n].close - series[1].close) \div 2}),
         high |-> IF step >= 300 THEN 95 ELSE 0]
MCFade == [x \in 0 .. 499 |-> 1000 - 2 * x]
MCRank == [c \in Contexts |-> 1]

Answer(move, width) ==
    [h \in Horizons |-> [point |-> h * move, q10 |-> h * move - width, q90 |-> h * move + width, sound |-> TRUE]]
Answers(first, second) == [c \in Contexts |-> IF c = "c512" THEN first ELSE second]

Good == Answers(Answer(100, 90), Answer(100, 90))
Narrow == Answers(Answer(100, 5), Answer(-150, 400))
Wild == Answers(Answer(300, 20), Answer(-300, 20))

Rise(n) == [i \in 1 .. n |-> 100]
Turn(n) == [i \in 1 .. n |-> IF i < n - 5 THEN 100 ELSE -250]
Saw(n) == [i \in 1 .. n |-> IF i % 2 = 0 THEN 180 ELSE -60]
Jump(n) == [i \in 1 .. n |-> IF i > n - 6 THEN 320 ELSE 90 + 5 * (i % 3)]

Exchange(moves, gaps, answers) == [start |-> 1000, moves |-> moves, gaps |-> gaps, answers |-> answers]
MCExchanges ==
    {Exchange(m, g, a) : m \in {Rise(16), Turn(16), Saw(16), Jump(16)}, g \in {{}, {11}},
                         a \in {<<Good>>, <<Narrow>>, <<Good, Wild>>}}

Setting(folds, embargo, mode, purge) ==
    [folds |-> folds, least |-> 5, purge |-> purge, embargo |-> embargo, mode |-> mode, keep |-> 3]
Study(kind, settings, confidence) ==
    [kind |-> kind, requested |-> 99, settings |-> settings, confidence |-> confidence,
     inner |-> [settings EXCEPT !.folds = 1, !.least = 2, !.mode = "expanding", !.purge = 2, !.embargo = 0]]

MCStudies ==
    {Study("backtest", Setting(2, 1, "expanding", 2), FALSE), Study("backtest", Setting(3, 1, "rolling", 2), FALSE),
     Study("backtest", Setting(2, 0, "expanding", 1), FALSE),
     Study("recency", Setting(2, 1, "expanding", 2), TRUE), Study("recency", Setting(1, 0, "expanding", 2), FALSE),
     Study("optimizer", Setting(2, 1, "expanding", 2), FALSE),
     Study("shadow", Setting(2, 1, "expanding", 2), FALSE),
     Study("uncertainty", Setting(2, 1, "expanding", 2), FALSE),
     [Study("uncertainty", Setting(2, 1, "expanding", 2), FALSE) EXCEPT !.requested = 7]}

Policy(technique, window, halfLife, blend, shift) ==
    [technique |-> technique, window |-> window, halfLife |-> halfLife, least |-> 2, full |-> 4,
     blend |-> blend, shift |-> shift]
MCPolicies ==
    [rolling |-> Policy("rolling_window", 4, 1, 450, 60), exponential |-> Policy("exponential_decay", 0, 2, 550, 350),
     linear |-> Policy("linear_decay", 0, 3, 550, 40)]

Candidate(models, least, full, limit, floor, cap) ==
    [models |-> models, least |-> least, full |-> full, limit |-> limit, floor |-> floor, cap |-> cap]
MCProduction == [least |-> 2, full |-> 4, floor |-> 30, cap |-> 550]
MCCandidates ==
    <<Candidate(Models, 2, 4, 4, 50, 400), Candidate(Models \ {"c1024"}, 3, 5, 6, 30, 650),
      Candidate(Contexts, 2, 3, 4, 30, 550)>>
=============================================================================
