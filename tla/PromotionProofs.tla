-------------------------- MODULE PromotionProofs --------------------------
(***************************************************************************)
(* The promotion path implements ReviewOnly, for any reports, healths and  *)
(* live evidence: what the policy decides is opaque there, that it is the  *)
(* only way to a proposal is what is shown.  Then what it decides: nothing *)
(* the optimizer itself would not recommend.  Last, what the rollback      *)
(* state file says of the evaluations before it.                           *)
(***************************************************************************)
EXTENDS Promotion, TLAPS

\* The decision file and the pull requests name candidates of some report ...
NamesAreKnown ==
    /\ report # Missing => report.evidence \in Reports
    /\ decision # Missing => decision.name \in Names
    /\ \A pr \in prs : pr.name \in Names

\* ... that the policy sent to review, in this run or an earlier one.
ProposedWasCleared ==
    /\ decision # Missing /\ decision.verdict = "review" => decision.name \in cleared
    /\ \A pr \in prs : pr.name \in cleared

IInv == NamesAreKnown /\ ProposedWasCleared

proposed == {pr.name : pr \in prs}

LEMMA InitHolds == Init => IInv /\ RecommendsOnly!Init
BY DEF Init, IInv, NamesAreKnown, ProposedWasCleared, RecommendsOnly!Init

-----------------------------------------------------------------------------
\* The steps that only read the pull requests and the decision.
Aside ==
    \/ \E e \in Reports : Optimize(e)
    \/ Compare
    \/ Mature
    \/ \E r \in LiveReports \union {FromHistory} : EvaluateRollback(r)
    \/ UNCHANGED vars

LEMMA AsideStutters ==
    ASSUME IInv, Aside PROVE IInv' /\ UNCHANGED RecommendsOnly!vars
<1>1. UNCHANGED <<decision, prs, production, cleared>>
    BY DEF Aside, Optimize, Compare, Mature, EvaluateRollback, vars, files, live
<1>2. report' # Missing => report'.evidence \in Reports
    BY DEF Aside, Optimize, Compare, Mature, EvaluateRollback, vars, files, IInv, NamesAreKnown
<1> QED BY <1>1, <1>2 DEF IInv, NamesAreKnown, ProposedWasCleared, RecommendsOnly!vars

\* A decision clears its candidate, or nothing.
LEMMA DecideClears ==
    ASSUME IInv, NEW h, NEW approved, Decide(h, approved)
    PROVE  IInv' /\ [RecommendsOnly!Next]_RecommendsOnly!vars
<1> DEFINE verdict == Decision(report.evidence, HealthSnapshot(h), approved)
           name == Challenger(report.evidence).name
           worth == WorthReview(report.evidence)
<1>1. name \in Names
    BY DEF Decide, IInv, NamesAreKnown, Names
<1>2. /\ decision' = [verdict |-> verdict, name |-> name, at |-> writes, worth |-> worth]
      /\ cleared' = IF verdict = "review" THEN cleared \union {name} ELSE cleared
      /\ UNCHANGED <<report, prs, production>>
    BY DEF Decide
<1> HIDE DEF verdict, name, worth
<1>3. IInv'
    BY <1>1, <1>2 DEF IInv, NamesAreKnown, ProposedWasCleared
<1>4. CASE verdict = "review"
    <2>1. RecommendsOnly!Clear(name)
        BY <1>2, <1>4 DEF RecommendsOnly!Clear
    <2> QED BY <1>1, <1>3, <2>1 DEF RecommendsOnly!Next
<1>5. CASE verdict # "review"
    BY <1>2, <1>3, <1>5 DEF RecommendsOnly!vars
<1> QED BY <1>4, <1>5

LEMMA OpenPrProposes ==
    ASSUME IInv, OpenPr PROVE IInv' /\ RecommendsOnly!Next
<1>1. PICK name \in Names : name = decision.name /\ name \in cleared
    BY DEF OpenPr, IInv, NamesAreKnown, ProposedWasCleared
<1> DEFINE pr == [branch |-> comparison.id, name |-> name]
<1>2. /\ prs' = prs \union {pr} /\ pr.name = name
      /\ UNCHANGED <<report, decision, production, cleared>>
    BY <1>1 DEF OpenPr, files
<1> HIDE DEF pr
<1>3. IInv'
    BY <1>1, <1>2 DEF IInv, NamesAreKnown, ProposedWasCleared
<1>4. proposed' = proposed \union {name}
    BY <1>2 DEF proposed
<1>5. RecommendsOnly!Propose(name)
    BY <1>1, <1>2, <1>4 DEF RecommendsOnly!Propose, proposed
<1> QED BY <1>3, <1>5 DEF RecommendsOnly!Next

\* Another pull request may stay open for the same candidate.
LEMMA PrEnds ==
    ASSUME IInv, NEW pr \in prs, Merge(pr) \/ Close(pr)
    PROVE  IInv' /\ [RecommendsOnly!Next]_RecommendsOnly!vars
<1>1. prs' = prs \ {pr} /\ UNCHANGED <<report, decision, cleared>>
    BY DEF Merge, Close, files
<1>2. IInv'
    BY <1>1 DEF IInv, NamesAreKnown, ProposedWasCleared
<1>3. pr.name \in Names /\ pr.name \in proposed /\ proposed' \in {proposed, proposed \ {pr.name}}
    BY <1>1 DEF IInv, NamesAreKnown, proposed
<1>4. CASE Merge(pr)
    <2>1. RecommendsOnly!Adopt(pr.name)
        BY <1>1, <1>3, <1>4 DEF Merge, RecommendsOnly!Adopt, proposed
    <2> QED BY <1>2, <1>3, <2>1 DEF RecommendsOnly!Next
<1>5. CASE Close(pr) /\ proposed' = proposed \ {pr.name}
    <2>1. RecommendsOnly!Decline(pr.name)
        BY <1>1, <1>5 DEF Close, RecommendsOnly!Decline, proposed
    <2> QED BY <1>2, <1>3, <2>1 DEF RecommendsOnly!Next
<1>6. CASE Close(pr) /\ proposed' = proposed
    BY <1>1, <1>2, <1>6 DEF Close, RecommendsOnly!vars, proposed
<1> QED BY <1>3, <1>4, <1>5, <1>6

LEMMA StepImplements ==
    IInv /\ [Next]_vars => IInv' /\ [RecommendsOnly!Next]_RecommendsOnly!vars
BY AsideStutters, DecideClears, OpenPrProposes, PrEnds DEF Next, Aside

(* The commands of the promotion path, run in any order on the files of any runs,
   implement ReviewOnly: production changes by the adoption of a proposal alone, and
   only what promotion_policy.py sent to review is ever proposed. *)
THEOREM PromotionOnlyRecommends == Spec => OnlyRecommends
BY InitHolds, StepImplements, PTL DEF Spec, OnlyRecommends, RecommendsOnly!Spec

-----------------------------------------------------------------------------
\* What no veto and no missing requirement leaves of a report: the policy repeats
\* every check of the optimizer's recommendation.
LEMMA ReviewIsWorth ==
    ASSUME NEW e \in Reports, NEW h, NEW approved, Decision(e, h, approved) = "review"
    PROVE  WorthReview(e)
<1> DEFINE c == Challenger(e)
           p == e.production
<1>1. c.origins \in Nat /\ c.direction \in Int /\ p.direction \in Int
    BY ReportAssumption
<1>2. HardFailures(e, h, approved) = {} /\ EvidenceFailures(e, h) = {}
    BY DEF Decision
<1>3. /\ "horizon" \notin HardFailures(e, h, approved)
      /\ "direction" \notin HardFailures(e, h, approved)
      /\ "folds" \notin HardFailures(e, h, approved)
      /\ "naive" \notin HardFailures(e, h, approved)
    BY <1>2
<1>4. /\ ~WorseOnSomeHorizon(c.horizon, p.horizon, 5)
      /\ ~(c.direction - p.direction < -2)
      /\ StableFolds(c, p)
      /\ Conclusion(c.origins, c.naiveTail, 1) # "baseline_better"
    BY <1>3 DEF HardFailures
<1>5. /\ "samples" \notin EvidenceFailures(e, h)
      /\ "material" \notin EvidenceFailures(e, h)
      /\ "supported" \notin EvidenceFailures(e, h)
    BY <1>2
<1>6. /\ ~(c.origins < MinSamples)
      /\ Improves(c.mae, p.mae, 3)
      /\ Conclusion(c.origins, c.tail, 1) = "candidate_better"
    BY <1>5 DEF EvidenceFailures
<1>7. c.origins >= MinSamples /\ c.direction - p.direction >= -2
    BY <1>1, <1>4, <1>6 DEF MinSamples
<1> HIDE DEF c, p
<1> QED BY <1>4, <1>6, <1>7 DEF WorthReview, c, p

\* The decision file keeps what the optimizer thought of the candidate.
LEMMA StricterKept == IInv /\ ReviewIsStricter /\ [Next]_vars => ReviewIsStricter'
<1> SUFFICES ASSUME IInv, ReviewIsStricter, [Next]_vars PROVE ReviewIsStricter'
    OBVIOUS
<1>1. CASE UNCHANGED decision
    BY <1>1 DEF ReviewIsStricter
<1>2. ASSUME NEW h, NEW approved, Decide(h, approved) PROVE ReviewIsStricter'
    <2> DEFINE verdict == Decision(report.evidence, HealthSnapshot(h), approved)
               worth == WorthReview(report.evidence)
    <2>1. decision' = [verdict |-> verdict, name |-> Challenger(report.evidence).name,
                       at |-> writes, worth |-> worth]
        BY <1>2 DEF Decide
    <2>2. verdict = "review" => worth
        BY <1>2, ReviewIsWorth DEF Decide, IInv, NamesAreKnown
    <2> HIDE DEF verdict, worth
    <2> QED BY <2>1, <2>2 DEF ReviewIsStricter
<1>3. UNCHANGED decision \/ \E h \in Healths, approved \in BOOLEAN : Decide(h, approved)
    BY DEF Next, vars, files, Optimize, Compare, OpenPr, Merge, Close, Mature, EvaluateRollback
<1> QED BY <1>1, <1>2, <1>3

(* Whatever the reports say, a candidate that promotion_policy.py sends to review is
   one the optimizer recommends: the second gate only takes away. *)
THEOREM PolicyOnlyTightens == Spec => []ReviewIsStricter
<1>1. Init => ReviewIsStricter
    BY DEF Init, ReviewIsStricter
<1> QED BY <1>1, InitHolds, StepImplements, StricterKept, PTL DEF Spec

-----------------------------------------------------------------------------
(* The state file tells the last evaluation, and a count of two or more that the one
   before it found the very same breaches.  It is only ever written together with
   the history, so an evaluation of another record in between cannot be skipped. *)
StreakIsCounted ==
    /\ evaluations \in Seq(SUBSET {"skill", "direction", "calibration", "horizon"})
    /\ rollback # Missing =>
          LET n == Len(evaluations)
          IN  /\ n >= 1 /\ rollback.count \in Nat
              /\ rollback.breaches = evaluations[n]
              /\ rollback.count >= 2 => n >= 2 /\ evaluations[n - 1] = evaluations[n]
              /\ rollback.verdict = "recommend_rollback" =>
                    /\ rollback.samples >= MinSamples /\ rollback.breaches # {}
                    /\ "horizon" \in rollback.breaches \/ rollback.count >= 2

LEMMA EvaluationCounts ==
    ASSUME StreakIsCounted, NEW r, EvaluateRollback(r) PROVE StreakIsCounted'
<1> DEFINE B == Breaches(r)
           K == BreachCount(rollback, B)
           ready == /\ r.samples >= MinSamples /\ B # {}
                    /\ "horizon" \in B \/ K >= 2
           V == IF ready THEN "recommend_rollback" ELSE "continue_monitoring"
           n == Len(evaluations)
<1>1. B \in SUBSET {"skill", "direction", "calibration", "horizon"}
    BY DEF Breaches
<1>2. /\ rollback' = [breaches |-> B, count |-> K, samples |-> r.samples, verdict |-> V]
      /\ evaluations' = Append(evaluations, B)
    BY DEF EvaluateRollback, RollbackState
<1>3. V = "recommend_rollback" => ready
    OBVIOUS
<1> HIDE DEF B, V
<1>4. K \in Nat /\ (K >= 2 => rollback # Missing /\ rollback.breaches = B)
    BY DEF StreakIsCounted, BreachCount
<1> HIDE DEF K
<1>5. /\ evaluations' \in Seq(SUBSET {"skill", "direction", "calibration", "horizon"})
      /\ Len(evaluations') = n + 1 /\ n \in Nat
      /\ evaluations'[n + 1] = B
      /\ n >= 1 => evaluations'[n] = evaluations[n]
    BY <1>1, <1>2 DEF StreakIsCounted
<1>6. K >= 2 => n >= 1 /\ evaluations'[n] = B
    BY <1>4, <1>5 DEF StreakIsCounted
<1>7. /\ rollback'.breaches = B /\ rollback'.count = K /\ rollback'.samples = r.samples
      /\ rollback'.verdict = V
    BY <1>2
<1>8. (n + 1) - 1 = n /\ n + 1 >= 1 /\ (n >= 1 => n + 1 >= 2)
    BY <1>5
<1> QED BY <1>3, <1>4, <1>5, <1>6, <1>7, <1>8 DEF StreakIsCounted

LEMMA StreakKept == StreakIsCounted /\ [Next]_vars => StreakIsCounted'
<1>1. ASSUME StreakIsCounted, UNCHANGED live PROVE StreakIsCounted'
    BY <1>1 DEF StreakIsCounted, live
<1>2. ASSUME [Next]_vars
      PROVE  UNCHANGED live \/ \E r \in LiveReports \union {FromHistory} : EvaluateRollback(r)
    BY <1>2 DEF Next, vars, Optimize, Decide, Compare, OpenPr, Merge, Close, Mature
<1> QED BY <1>1, <1>2, EvaluationCounts

(* A rollback is only recommended for a protected horizon or for breaches that two
   evaluations in a row found alike, however many other runs, pull requests and
   reports come in between (evaluate_rollback, consecutive_breach_count). *)
THEOREM RollbackNeedsPersistence == Spec => []RollbackIsSustained
<1>1. Init => StreakIsCounted
    BY DEF Init, StreakIsCounted
<1>2. StreakIsCounted => RollbackIsSustained
    BY DEF StreakIsCounted, RollbackIsSustained
<1> QED BY <1>1, <1>2, StreakKept, PTL DEF Spec
=============================================================================
