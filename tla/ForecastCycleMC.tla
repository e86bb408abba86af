-------------------------- MODULE ForecastCycleMC ---------------------------
EXTENDS ForecastCycle

\* the regime scores of a series: how far it moved, and how unevenly
MCFeatures(series) ==
    LET n == Len(series)
        drift == Abs(series[n].close - series[1].close)
        step == Abs(series[n].close - series[n - 1].close)
    IN  [trend |-> Min({100, drift \div 4}), high |-> IF step >= 600 THEN 95 ELSE 0,
         volatility |-> IF step >= 600 THEN 160 ELSE 100]

MCFade == [x \in 0 .. 499 |-> 1000 - 2 * x]

Answer(first, second, w1, w2) ==
    [c \in Contexts |-> (1 :> [point |-> first, q10 |-> first - w1, q90 |-> first + w1, sound |-> TRUE])
                        @@ (2 :> [point |-> second, q10 |-> second - w2, q90 |-> second + w2, sound |-> TRUE])]

Steady == Answer(100, 200, 30, 100)
Up == Answer(150, 250, 60, 200)
Flip == Answer(30, -20, 40, 70)
Torn == Answer(100, 200, 1500, 1100)
Unsound == [c \in Contexts |-> [Up[c] EXCEPT ![2].sound = FALSE]]

Split == [Up EXCEPT !["c1024"] = Answer(-200, -300, 60, 200)["c1024"]]

MCAnswers == {Up, Flip, Torn, Split}

Over == Answer(900, 1800, 200, 400)

\* n hours that rise evenly, with an answer in each, and one that jumps
Risen(move, answer, n) == [i \in 1 .. n |-> [move |-> move, answer |-> answer]]
Jumped(first) == Risen(100, first, 3) \o Risen(100, Steady, 6) \o Risen(550, Steady, 1)
MCPasts == {Risen(100, Unsound, 9) \o Risen(100, Up, 1), Jumped(Steady), Jumped(Over)}
MCBefore == <<10, 0, 20, 10, 30, 20, 40>>
MCMoves == {-200, 150}
MCRank == [c \in Contexts |-> 1]
=============================================================================
