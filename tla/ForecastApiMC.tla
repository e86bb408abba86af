--------------------------- MODULE ForecastApiMC ---------------------------
(* A small instance of ForecastApi. *)
EXTENDS ForecastApi

Stages(x) ==
    [s \in RequiredStages |->
        IF s = "x_post" THEN x ELSE [health |-> "healthy", circuit |-> "closed"]]

Healthy == [overall |-> "healthy", stages |-> Stages([health |-> "healthy", circuit |-> "closed"])]
XOpen == [overall |-> "open", stages |-> Stages([health |-> "open", circuit |-> "open"])]

SmallHealthFiles == {Healthy, XOpen}

Everything == [from |-> Missing, to |-> Missing, model |-> Missing]
Bounded == [from |-> [at |-> 1, spelled |-> "Z"], to |-> Missing, model |-> Missing]
OfModel == [from |-> Missing, to |-> [at |-> 2, spelled |-> "offset"], model |-> 1]

SmallFilters == {Everything, Bounded, OfModel}
=============================================================================
