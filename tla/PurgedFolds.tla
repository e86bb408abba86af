---------------------------- MODULE PurgedFolds -----------------------------
(***************************************************************************)
(* Walk-forward folds whose training targets are known before validation   *)
(* starts (forecasting/cross_validation.py).                               *)
(*                                                                         *)
(* "at" is the sequence of the times of the origins.  A fold is a record   *)
(* of two sets of positions in it.  Settings are [folds, least, purge,     *)
(* embargo, mode, keep]; purge and embargo are in hours.                   *)
(***************************************************************************)
EXTENDS MarketData

\* numpy.array_split: the i-th of k chunks of the positions first .. last
Chunk(first, last, k, i) ==
    LET n == last - first + 1
        start(j) == first + (j - 1) * (n \div k) + Min({j - 1, n % k})
    IN  start(i) .. start(i + 1) - 1

\* the elements of a set of numbers, in order
Ascending(S) ==
    [i \in 1 .. Cardinality(S) |-> CHOOSE x \in S : Cardinality({y \in S : y < x}) = i - 1]

\* _validate_timestamps and the checks of the settings
Refuses(at, settings, longest) ==
    \/ Len(at) < 2 \/ \E i \in 1 .. Len(at) - 1 : at[i + 1] <= at[i]
    \/ settings.folds < 1 \/ settings.least < 1 \/ settings.least >= Len(at)
    \/ settings.purge < longest \/ settings.embargo < 0
    \/ settings.mode = "rolling" /\ settings.keep < 1

\* mutant: the embargo is not kept
EligibleUpToPurge(at, first, settings) ==
    {i \in 1 .. first - 1 : at[i] <= at[first] - Hour * settings.purge}

\* the positions a fold may train on, given where its validation starts
Eligible(at, first, settings) ==
    LET early == {i \in 1 .. first - 1 : at[i] <= at[first] - Hour * (settings.purge + settings.embargo)}
    IN  IF settings.mode = "rolling"
        THEN {i \in early : Cardinality({j \in early : j > i}) < settings.keep} ELSE early

\* build_purged_walk_forward_folds: Missing when it raises
Folds(at, settings, longest) ==
    LET first == settings.least + 1
        chunks == Min({settings.folds, Len(at) - settings.least})
        Fold(i) ==
            LET validation == Chunk(first, Len(at), chunks, i)
            IN  [train |-> Eligible(at, Min(validation), settings), validation |-> validation]
    IN  IF Refuses(at, settings, longest) THEN Missing
        ELSE IF \E i \in 1 .. chunks : Fold(i).train = {} THEN Missing
        ELSE [i \in 1 .. chunks |-> Fold(i)]

\* build_nested_walk_forward_folds: a sequence of [outer, inner]; the inner folds are
\* built from the training positions of the outer one
NestedFolds(at, outer, inner, longest) ==
    LET folds == Folds(at, outer, longest)
        Local(train) == Folds([i \in 1 .. Cardinality(train) |-> at[Ascending(train)[i]]], inner, longest)
        Mapped(train, fold) == [train |-> {Ascending(train)[i] : i \in fold.train},
                                validation |-> {Ascending(train)[i] : i \in fold.validation}]
        TooShort(train) == Cardinality(train) <= inner.least \/ Local(train) = Missing
    IN  IF folds = Missing THEN Missing
        ELSE IF \E i \in DOMAIN folds : TooShort(folds[i].train) THEN Missing
        ELSE [i \in DOMAIN folds |->
                 [outer |-> folds[i],
                  inner |-> [j \in DOMAIN Local(folds[i].train) |->
                                Mapped(folds[i].train, Local(folds[i].train)[j])]]]

\* assert_no_fold_leakage
Leaks(fold, at, settings, longest) ==
    LET start == Min(fold.validation)
    IN  \E i \in fold.train : \/ i >= start
                              \/ at[i] + Hour * longest > at[start] - Hour * settings.embargo
=============================================================================
