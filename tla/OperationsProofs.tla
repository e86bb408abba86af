-------------------------- MODULE OperationsProofs --------------------------
(***************************************************************************)
(* What watches the pipeline.  The guardian and the watchdog (Monitoring): *)
(* TypeOK, OneIssue and SuppressedWasHeard for any retry budget, backoff,  *)
(* tolerances and dedup window.  The circuits of pipeline_health.py        *)
(* (PipelineHealth), for every cooldown and every order of commands: they  *)
(* trip exactly at their thresholds, and a tripped X circuit lets one      *)
(* publication through, a whole cooldown after the last failure.  The data *)
(* (DataQuality), for any deliveries and observations: the log of the gap  *)
(* alerts is never behind their state, a backfill leaves nothing to fill   *)
(* and tells what it took, and what is replayed of an origin is what was   *)
(* observed of it first.                                                   *)
(***************************************************************************)
EXTENDS Monitoring, PipelineHealth, DataQuality, FiniteSetTheorems, TLAPS

(* An issue that was filed is that of an open incident, or of a sweep whose
   state was not saved. *)
IssuesAreOpen ==
    \A c \in Failures : issues[c] <= lost + (IF c \in guardian.open THEN 1 ELSE 0)

FailureIsClassified == latest.status = "failed" => latest.category \in Failures

IInv == TypeOK /\ FailureIsClassified /\ IssuesAreOpen /\ SuppressedWasHeard

LEMMA InitHolds == Init => IInv
<1> SUFFICES ASSUME Init PROVE IInv
    OBVIOUS
<1>1. GuardianTypeOK
    BY GuardianAssumption
    DEF Init, GuardianInit, GuardianTypeOK, Guardian, AgeLimit, LostLimit, Categories, Failures
<1>2. WatchdogTypeOK
    <2>1. Critical + 1 \in 0 .. Critical + 1 /\ Window \in 0 .. Window
        BY WatchdogAssumption
    <2> QED BY <2>1 DEF Init, WatchdogInit, WatchdogTypeOK
<1>3. IssuesAreOpen
    BY DEF Init, GuardianInit, IssuesAreOpen
<1>4. SuppressedWasHeard
    BY WatchdogAssumption DEF Init, WatchdogInit, SuppressedWasHeard
<1>5. FailureIsClassified
    BY DEF Init, GuardianInit, FailureIsClassified
<1> QED BY <1>1, <1>2, <1>3, <1>4, <1>5 DEF IInv, TypeOK

-----------------------------------------------------------------------------
(* The watchdog. *)

LEMMA WatchdogTicks == ASSUME IInv, WatchdogTick PROVE (WatchdogTypeOK /\ SuppressedWasHeard)'
BY WatchdogAssumption DEF IInv, TypeOK, WatchdogTypeOK, SuppressedWasHeard, WatchdogTick, Later

LEMMA WatchdogWatches ==
    ASSUME IInv, NEW found \in Findings, NEW gh \in BOOLEAN,
           Watch(found, gh) \/ KilledUnsaved(found) \/ KilledSaved(found)
    PROVE  (WatchdogTypeOK /\ SuppressedWasHeard)'
<1> DEFINE severity == Checked(found)
<1>1. Printed(severity) /\ age' = age /\ alerts' \in {alerts, Deduped(severity)}
    BY DEF Watch, KilledUnsaved, KilledSaved
<1>2. status' \in {"absent", "ok", "breached"} /\ filed' \in BOOLEAN
    BY DEF IInv, TypeOK, WatchdogTypeOK, Watch, KilledUnsaved, KilledSaved, Reading, Torn
<1> HIDE DEF severity
<1>3. (alerts \in [Severities -> 0 .. Window] /\ heard \in [Severities -> 0 .. Window])'
    BY <1>1, WatchdogAssumption DEF IInv, TypeOK, WatchdogTypeOK, Printed, Deduped
<1>4. SuppressedWasHeard'
    BY <1>1, WatchdogAssumption
    DEF IInv, TypeOK, WatchdogTypeOK, SuppressedWasHeard, Printed, Deduped, Due
<1> QED BY <1>1, <1>2, <1>3, <1>4 DEF IInv, TypeOK, WatchdogTypeOK

LEMMA ForecastPublished ==
    ASSUME IInv, Published PROVE (WatchdogTypeOK /\ SuppressedWasHeard)'
<1>1. 0 \in 0 .. Critical + 1
    BY WatchdogAssumption
<1> QED BY <1>1 DEF IInv, TypeOK, WatchdogTypeOK, SuppressedWasHeard, Published

LEMMA WatchdogIdle ==
    ASSUME IInv, UNCHANGED watchdogVars PROVE (WatchdogTypeOK /\ SuppressedWasHeard)'
BY DEF IInv, TypeOK, WatchdogTypeOK, SuppressedWasHeard, watchdogVars

-----------------------------------------------------------------------------
(* The guardian. *)

LEMMA GuardianIdle ==
    ASSUME IInv, UNCHANGED guardianVars PROVE (GuardianTypeOK /\ FailureIsClassified /\ IssuesAreOpen)'
BY DEF IInv, TypeOK, GuardianTypeOK, FailureIsClassified, IssuesAreOpen, guardianVars

LEMMA RunChanges ==
    ASSUME IInv, RunStarts \/ RunSucceeds \/ RunFails \/ GuardianTick
    PROVE  (GuardianTypeOK /\ FailureIsClassified /\ IssuesAreOpen)'
<1> DEFINE Latest == [status : {"none", "running", "success", "failed"},
                      category : Failures \union {"none"}, age : 0 .. AgeLimit]
<1> USE DEF IInv, TypeOK, GuardianTypeOK
<1>1. lost' = lost /\ issues' = issues /\ guardian'.open = guardian.open
    BY DEF RunStarts, RunSucceeds, RunFails, GuardianTick, Guardian
<1>2. guardian' \in Guardian
    BY DEF RunStarts, RunSucceeds, RunFails, GuardianTick, Guardian
<1>3. latest' \in Latest /\ FailureIsClassified'
    <2>1. CASE RunStarts
        BY <2>1, GuardianAssumption DEF RunStarts, FailureIsClassified, AgeLimit
    <2>2. CASE RunSucceeds
        BY <2>2 DEF RunSucceeds, FailureIsClassified
    <2>3. CASE RunFails
        <3>1. PICK c \in Failures :
                latest' = [latest EXCEPT !.status = "failed", !.category = c]
            BY <2>3 DEF RunFails
        <3> QED BY <3>1 DEF FailureIsClassified
    <2>4. CASE GuardianTick
        <3> DEFINE older == IF latest.age < AgeLimit THEN latest.age + 1 ELSE latest.age
        <3>1. older \in 0 .. AgeLimit
            BY GuardianAssumption DEF AgeLimit
        <3>2. latest' = [latest EXCEPT !.age = older]
            BY <2>4 DEF GuardianTick
        <3> QED BY <3>1, <3>2 DEF FailureIsClassified
    <2> QED BY <2>1, <2>2, <2>3, <2>4
<1> QED BY <1>1, <1>2, <1>3 DEF IssuesAreOpen

LEMMA ScheduleChecked ==
    ASSUME IInv, NEW missed \in BOOLEAN
    PROVE  /\ CheckSchedule(guardian, missed) \in Guardian
           /\ \A c \in Failures :
                  c \in guardian.open <=> c \in CheckSchedule(guardian, missed).open
BY DEF IInv, TypeOK, GuardianTypeOK, Guardian, Categories, Failures,
       CheckSchedule, Escalate, Recover

\* A failed run leaves the incidents open that were, and opens the one whose issue
\* it files.
LEMMA FailedRunChecked ==
    ASSUME IInv, latest.status = "failed", NEW g \in Guardian, NEW dispatched \in BOOLEAN,
           NEW got \in BOOLEAN
    PROVE  /\ RunFailed(g, dispatched) \in Guardian
           /\ g.open \subseteq RunFailed(g, dispatched).open
           /\ Files(g, got) => latest.category \in RunFailed(g, dispatched).open
<1> DEFINE s == [g EXCEPT !.seen = TRUE]
           pending == [s EXCEPT !.retry = "pending"]
           retried == [s EXCEPT !.retry = "dispatched", !.attempts = @ + 1]
<1>0. s \in Guardian /\ s.open = g.open /\ s.attempts = g.attempts
    BY DEF Guardian
<1> HIDE DEF s
<1>1. CASE ~TakenUp(g)
    BY <1>1 DEF RunFailed, Files, Escalated, TakenUp
<1>2. CASE Escalated(g)
    <2>1. RunFailed(g, dispatched) = Escalate(s, latest.category)
        BY <1>2 DEF RunFailed, Escalated, TakenUp, s
    <2>2. latest.category \in Categories
        BY DEF IInv, FailureIsClassified, Categories
    <2>3. Escalate(s, latest.category) \in Guardian
        BY <1>0, <2>2 DEF Escalate, Guardian
    <2>4. Escalate(s, latest.category).open = g.open \union {latest.category}
        BY <1>0 DEF Escalate, Guardian
    <2> QED BY <2>1, <2>3, <2>4
<1>3. CASE TakenUp(g) /\ ~Escalated(g)
    <2>1. CASE Decision(g) = "dispatch" /\ dispatched
        <3>1. RunFailed(g, dispatched) = retried
            BY <1>3, <2>1 DEF RunFailed, s
        <3>2. g.attempts < RetryAttempts
            BY <2>1, GuardianAssumption DEF Decision, Guardian
        <3>3. s.attempts + 1 \in 0 .. RetryAttempts
            BY <1>0, <3>2, GuardianAssumption DEF Guardian
        <3>4. retried \in Guardian /\ retried.open = g.open
            BY <1>0, <3>3 DEF Guardian
        <3> QED BY <1>3, <3>1, <3>4 DEF Files
    <2>2. CASE ~(Decision(g) = "dispatch" /\ dispatched)
        <3>1. RunFailed(g, dispatched) \in {s, pending}
            BY <1>3, <2>2 DEF RunFailed, s
        <3>2. pending \in Guardian /\ pending.open = g.open
            BY <1>0 DEF Guardian
        <3> QED BY <1>0, <1>3, <3>1, <3>2 DEF Files
    <2> QED BY <2>1, <2>2
<1> QED BY <1>1, <1>2, <1>3 DEF Escalated, TakenUp

LEMMA HealthyRunChecked ==
    ASSUME NEW g \in Guardian PROVE RunHealthy(g) \in Guardian
<1> DEFINE met == [g EXCEPT !.seen = TRUE, !.attempts = 0]
<1>1. met \in Guardian
    <2>1. 0 \in 0 .. RetryAttempts
        BY GuardianAssumption
    <2> QED BY <2>1 DEF Guardian
<1> HIDE DEF met
<1>2. Recover(met, Categories) \in Guardian
    BY <1>1 DEF Recover, Guardian
<1> QED BY <1>2 DEF RunHealthy, met

\* The two clauses that matter to the issues: what the state says is open stays open
\* unless the run has not failed, and a filed issue's incident is open.
LEMMA SweepPreserves ==
    ASSUME IInv, NEW got \in BOOLEAN, NEW fresh, NEW dispatched \in BOOLEAN,
           NEW issued \in BOOLEAN, NEW saved \in BOOLEAN,
           Sweep(got, fresh, dispatched, issued, saved)
    PROVE  (GuardianTypeOK /\ FailureIsClassified /\ IssuesAreOpen)'
<1> DEFINE missed    == Missed(got, fresh)
           scheduled == CheckSchedule(guardian, missed)
           checked   == CheckRun(scheduled, got, dispatched)
           healthy   == saved /\ got /\ latest.status \in {"running", "success"}
           added(c)  == issued /\ c = latest.category /\ Files(scheduled, got)
<1> HIDE DEF missed
<1>1. /\ scheduled \in Guardian
      /\ \A c \in Failures : c \in guardian.open <=> c \in scheduled.open
    <2>1. missed \in BOOLEAN
        BY DEF missed, Missed
    <2> QED BY <2>1, ScheduleChecked
<1> HIDE DEF scheduled
<1>2. /\ checked \in Guardian
      /\ latest.status \in {"none", "failed"} \/ ~got => scheduled.open \subseteq checked.open
      /\ Files(scheduled, got) => latest.category \in checked.open
    <2>1. CASE ~got \/ latest.status = "none"
        BY <1>1, <2>1 DEF CheckRun, Files
    <2>2. CASE got /\ latest.status = "failed"
        <3>1. checked = RunFailed(scheduled, dispatched)
            BY <2>2 DEF CheckRun
        <3> QED BY <1>1, <2>2, <3>1, FailedRunChecked
    <2>3. CASE got /\ latest.status \notin {"none", "failed"}
        <3>1. checked = RunHealthy(scheduled)
            BY <2>3 DEF CheckRun
        <3> QED BY <1>1, <2>3, <3>1, HealthyRunChecked DEF Files
    <2> QED BY <2>1, <2>2, <2>3
<1> HIDE DEF checked
<1>3. /\ latest' = latest
      /\ guardian' = IF saved THEN checked ELSE guardian
      /\ lost' = IF saved THEN lost ELSE lost + 1
      /\ saved \/ lost < LostLimit
      /\ issues' = [c \in Failures |->
                       IF healthy THEN 0 ELSE IF added(c) THEN issues[c] + 1 ELSE issues[c]]
    BY DEF Sweep, checked, scheduled, missed
<1> HIDE DEF healthy, added
<1>4. GuardianTypeOK'
    BY <1>2, <1>3 DEF IInv, TypeOK, GuardianTypeOK, LostLimit
<1>5. FailureIsClassified'
    BY <1>3 DEF IInv, FailureIsClassified
<1>6. ASSUME NEW c \in Failures
      PROVE  issues[c]' <= lost' + (IF c \in guardian'.open THEN 1 ELSE 0)
    <2>1. /\ lost \in Nat /\ issues[c] \in Nat
          /\ c \in guardian.open <=> c \in scheduled.open
          /\ issues[c] <= lost + (IF c \in guardian.open THEN 1 ELSE 0)
        BY <1>1 DEF IInv, TypeOK, GuardianTypeOK, LostLimit, IssuesAreOpen
    <2>2. CASE healthy
        BY <1>3, <2>1, <2>2 DEF healthy
    <2>3. CASE ~healthy /\ added(c)
        <3>1. c \notin guardian.open /\ c \in checked.open
            BY <1>2, <2>1, <2>3 DEF added, Files
        <3> QED BY <1>3, <2>1, <2>3, <3>1
    <2>4. CASE ~healthy /\ ~added(c) /\ saved
        <3>1. latest.status \in {"none", "failed"} \/ ~got
            BY <2>4 DEF healthy, IInv, TypeOK, GuardianTypeOK
        <3> QED BY <1>2, <1>3, <2>1, <2>4, <3>1
    <2>5. CASE ~healthy /\ ~added(c) /\ ~saved
        BY <1>3, <2>1, <2>5
    <2> QED BY <2>2, <2>3, <2>4, <2>5
<1> QED BY <1>4, <1>5, <1>6 DEF IssuesAreOpen

-----------------------------------------------------------------------------
LEMMA NextPreserves == IInv /\ [Next]_vars => IInv'
<1> SUFFICES ASSUME IInv, [Next]_vars PROVE IInv'
    OBVIOUS
<1> DEFINE GuardianHolds == GuardianTypeOK /\ FailureIsClassified /\ IssuesAreOpen
           WatchdogHolds == WatchdogTypeOK /\ SuppressedWasHeard
<1>1. GuardianHolds' /\ WatchdogHolds' => IInv'
    BY DEF IInv, TypeOK
<1>2. CASE RunStarts /\ UNCHANGED watchdogVars
    BY <1>1, <1>2, RunChanges, WatchdogIdle
<1>3. CASE RunEnds
    BY <1>1, <1>3, RunChanges, WatchdogIdle, ForecastPublished DEF RunEnds
<1>4. CASE \E got, dispatched, issued, saved \in BOOLEAN : Guard(got, dispatched, issued, saved)
    BY <1>1, <1>4, SweepPreserves, WatchdogIdle DEF Guard
<1>5. CASE Watches
    BY <1>1, <1>5, WatchdogWatches, GuardianIdle DEF Watches
<1>6. CASE Tick
    BY <1>1, <1>6, RunChanges, WatchdogTicks DEF Tick
<1>7. CASE UNCHANGED vars
    BY <1>1, <1>7, GuardianIdle, WatchdogIdle DEF vars
<1> QED BY <1>2, <1>3, <1>4, <1>5, <1>6, <1>7 DEF Next

LEMMA Invariance == Spec => []IInv
BY InitHolds, NextPreserves, PTL DEF Spec

(* The state of the two monitors keeps its form: retry_attempts never exceeds the
   budget, and no dedup entry is younger than nothing or older than its window. *)
THEOREM TypeCorrect == Spec => []TypeOK
<1>1. IInv => TypeOK
    BY DEF IInv
<1> QED BY <1>1, Invariance, PTL

(* However many runs fail, are retried and fail again, and whatever gh fails to do,
   each kind of failure has one issue until a run is seen that has not failed; a
   sweep that does not live to save its state adds at most one. *)
THEOREM OneIssuePerFailure == Spec => []OneIssue
<1>1. IInv => OneIssue
    BY DEF IInv, TypeOK, GuardianTypeOK, LostLimit, IssuesAreOpen, OneIssue
<1> QED BY <1>1, Invariance, PTL

(* For every window and tolerance, an alert the watchdog keeps quiet was printed
   less than a dedup window ago, though runs are killed between printing and saving. *)
THEOREM SuppressedAlertsWereHeard == Spec => []SuppressedWasHeard
<1>1. IInv => SuppressedWasHeard
    BY DEF IInv
<1> QED BY <1>1, Invariance, PTL

-----------------------------------------------------------------------------
(* pipeline_health.py. *)

\* The count the code keeps is the streak cut at the threshold, and a circuit is
\* tripped exactly when the count has reached it.
Tracks(h, n) ==
    \A s \in Stages :
        /\ h.failures[s] = IF n[s] < Threshold[s] THEN n[s] ELSE Threshold[s]
        /\ h.circuit[s] # "closed" <=> h.failures[s] = Threshold[s]

\* The age of an open circuit never runs ahead of the ghost clock.
AgeBehindClock == health.age <= quiet

HealthIInv == HealthTypeOK /\ Tracks(health, streak) /\ OneProbe /\ AgeBehindClock

-----------------------------------------------------------------------------
\* What the provers need of the stages and of STAGE_THRESHOLDS.
LEMMA StagesFacts ==
    /\ Threshold \in [Stages -> 2 .. 3]
    /\ "x_post" \in Stages /\ "forecast" \in Stages
    /\ "market_data" \in Stages /\ "history" \in Stages
BY DEF Stages, Threshold

\* The fields of an updated state, at any stage t.
LEMMA UpdateFacts ==
    ASSUME NEW h \in Health, NEW s \in Stages, NEW c \in CircuitStates, NEW n \in 0 .. 3,
           NEW g, g = UpdateStage(h, s, c, n), NEW t \in Stages
    PROVE  /\ g \in Health
           /\ g.age = IF s = "x_post" THEN 0 ELSE h.age
           /\ g.circuit[t] = IF t = s THEN c ELSE h.circuit[t]
           /\ g.failures[t] = IF t = s THEN n ELSE h.failures[t]
<1> DEFINE C == [h.circuit EXCEPT ![s] = c]
           F == [h.failures EXCEPT ![s] = n]
           A == IF s = "x_post" THEN 0 ELSE h.age
<1>1. /\ h.circuit \in [Stages -> CircuitStates] /\ h.failures \in [Stages -> 0 .. 3]
      /\ h.age \in 0 .. Cooldown
  BY DEF Health
<1>2. g = [h EXCEPT !.circuit = C, !.failures = F, !.age = A]
  BY DEF UpdateStage, Health
<1>3. C \in [Stages -> CircuitStates] /\ F \in [Stages -> 0 .. 3] /\ A \in 0 .. Cooldown
  BY <1>1, CooldownAssumption
<1>4. /\ C[t] = IF t = s THEN c ELSE h.circuit[t]
      /\ F[t] = IF t = s THEN n ELSE h.failures[t]
  BY <1>1
<1> HIDE DEF C, F, A
<1>5. g \in Health /\ g.circuit = C /\ g.failures = F /\ g.age = A
  BY <1>2, <1>3 DEF Health
<1>6. QED
  BY <1>4, <1>5 DEF A

\* What one observation of stage s does, at any stage t: the count and the
\* circuit of s move together with its streak, and no other stage changes.
LEMMA RecordFacts ==
    ASSUME NEW h \in Health, NEW s \in Stages, NEW ok \in BOOLEAN, NEW n \in 0 .. StreakLimit,
           h.failures[s] = IF n < Threshold[s] THEN n ELSE Threshold[s],
           NEW g, g = IF ok THEN RecordSuccess(h, s) ELSE RecordFailure(h, s),
           NEW t \in Stages
    PROVE  /\ g \in Health
           /\ g.age = IF s = "x_post" THEN 0 ELSE h.age
           /\ Counted(n, ~ok) \in 0 .. StreakLimit
           /\ t # s => g.circuit[t] = h.circuit[t] /\ g.failures[t] = h.failures[t]
           /\ t = s => /\ g.failures[t] = IF Counted(n, ~ok) < Threshold[s]
                                          THEN Counted(n, ~ok) ELSE Threshold[s]
                       /\ g.circuit[t] = IF g.failures[t] = Threshold[s] THEN "open" ELSE "closed"
<1>1. Threshold[s] \in 2 .. 3
  BY StagesFacts
<1>2. "open" \in CircuitStates /\ "closed" \in CircuitStates
  BY DEF CircuitStates
<1>3. CASE ok
  <2>1. g = UpdateStage(h, s, "closed", 0) /\ Counted(n, ~ok) = 0
    BY <1>3 DEF RecordSuccess, Counted
  <2>2. /\ g \in Health /\ g.age = IF s = "x_post" THEN 0 ELSE h.age
        /\ g.circuit[t] = IF t = s THEN "closed" ELSE h.circuit[t]
        /\ g.failures[t] = IF t = s THEN 0 ELSE h.failures[t]
    <3>1. 0 \in 0 .. 3
      OBVIOUS
    <3>2. QED
      BY <1>2, <2>1, <3>1, UpdateFacts
  <2>3. 0 \in 0 .. StreakLimit /\ 0 < Threshold[s] /\ 0 # Threshold[s]
    BY <1>1 DEF StreakLimit
  <2>4. QED
    BY <2>1, <2>2, <2>3
<1>4. CASE ~ok
  <2>1. Counted(n, ~ok) = IF n < 3 THEN n + 1 ELSE n
    BY <1>4 DEF Counted, StreakLimit
  <2>2. /\ FailureCount(h, s) = IF Counted(n, ~ok) < Threshold[s] THEN Counted(n, ~ok)
                                ELSE Threshold[s]
        /\ Counted(n, ~ok) \in 0 .. StreakLimit
    BY <1>1, <2>1 DEF FailureCount, StreakLimit
  <2>3. PICK f \in 0 .. 3 : f = FailureCount(h, s)
    BY <1>1, <2>1, <2>2 DEF StreakLimit
  <2>4. PICK c \in CircuitStates : c = IF f = Threshold[s] THEN "open" ELSE "closed"
    BY <1>2
  <2>5. g = UpdateStage(h, s, c, f)
    BY <1>4, <2>3, <2>4 DEF RecordFailure
  <2>6. /\ g \in Health /\ g.age = IF s = "x_post" THEN 0 ELSE h.age
        /\ g.circuit[t] = IF t = s THEN c ELSE h.circuit[t]
        /\ g.failures[t] = IF t = s THEN f ELSE h.failures[t]
    BY <2>5, UpdateFacts
  <2>7. QED
    BY <2>2, <2>3, <2>4, <2>6
<1>5. QED
  BY <1>3, <1>4

\* One record keeps the count in step with the streaks.
LEMMA TracksRecord ==
    ASSUME NEW h \in Health, NEW n \in [Stages -> 0 .. StreakLimit], Tracks(h, n),
           NEW s \in Stages, NEW ok \in BOOLEAN,
           NEW g, g = IF ok THEN RecordSuccess(h, s) ELSE RecordFailure(h, s),
           NEW m, m = Tally(n, s, ~ok)
    PROVE  /\ g \in Health
           /\ g.age = IF s = "x_post" THEN 0 ELSE h.age
           /\ s # "x_post" => g.circuit["x_post"] = h.circuit["x_post"]
           /\ m \in [Stages -> 0 .. StreakLimit]
           /\ Tracks(g, m)
<1>1. /\ n[s] \in 0 .. StreakLimit
      /\ h.failures[s] = IF n[s] < Threshold[s] THEN n[s] ELSE Threshold[s]
  BY DEF Tracks
<1>2. m[s] = Counted(n[s], ~ok) /\ \A t \in Stages : t # s => m[t] = n[t]
  BY DEF Tally
<1>3. /\ g \in Health
      /\ g.age = IF s = "x_post" THEN 0 ELSE h.age
      /\ Counted(n[s], ~ok) \in 0 .. StreakLimit
  BY <1>1, RecordFacts
<1>4. s # "x_post" => g.circuit["x_post"] = h.circuit["x_post"]
  BY <1>1, RecordFacts, StagesFacts
<1>5. ASSUME NEW t \in Stages
      PROVE  /\ g.failures[t] = IF m[t] < Threshold[t] THEN m[t] ELSE Threshold[t]
             /\ g.circuit[t] # "closed" <=> g.failures[t] = Threshold[t]
  <2>1. CASE t = s
    BY <1>1, <1>2, <2>1, RecordFacts
  <2>2. CASE t # s
    <3>1. g.circuit[t] = h.circuit[t] /\ g.failures[t] = h.failures[t]
      BY <1>1, <2>2, RecordFacts
    <3>2. QED
      BY <1>2, <2>2, <3>1 DEF Tracks
  <2>3. QED
    BY <2>1, <2>2
<1>6. m \in [Stages -> 0 .. StreakLimit]
  BY <1>3 DEF Tally
<1>7. QED
  BY <1>3, <1>4, <1>5, <1>6 DEF Tracks

\* A signal is not a circuit.
LEMMA SignalFacts ==
    ASSUME NEW h \in Health, NEW n, Tracks(h, n), NEW g,
           \/ g = h
           \/ \E v \in {"success", "failure"} :
                 g = [h EXCEPT !.forecast = v] \/ g = [h EXCEPT !.history = v]
           \/ \E v \in {"unknown", "healthy", "unhealthy"} : g = [h EXCEPT !.market = v]
           \/ \E v \in {"unknown", "normal", "severe"} : g = [h EXCEPT !.drift = v]
    PROVE  g \in Health /\ g.age = h.age /\ g.circuit = h.circuit /\ Tracks(g, n)
<1>1. g \in Health /\ g.age = h.age /\ g.circuit = h.circuit /\ g.failures = h.failures
  BY DEF Health
<1>2. QED
  BY <1>1 DEF Tracks

-----------------------------------------------------------------------------
\* A fresh pipeline_health.json satisfies the inductive invariant.
LEMMA InitIInv == HealthInit => HealthIInv
<1> SUFFICES ASSUME HealthInit PROVE HealthIInv
  OBVIOUS
<1>1. health \in Health /\ health.age = 0
  BY CooldownAssumption DEF HealthInit, InitialHealth, Health, CircuitStates
<1>2. \A s \in Stages : health.failures[s] = 0 /\ health.circuit[s] = "closed" /\ streak[s] = 0
  BY DEF HealthInit, InitialHealth
<1>3. HealthTypeOK
  BY <1>1, <1>2, StagesFacts, CooldownAssumption DEF HealthInit, HealthTypeOK, StreakLimit
<1>4. Tracks(health, streak)
  BY <1>2, StagesFacts DEF Tracks
<1>5. OneProbe /\ AgeBehindClock
  BY <1>1 DEF HealthInit, OneProbe, AgeBehindClock
<1>6. QED
  BY <1>3, <1>4, <1>5 DEF HealthIInv

\* The part of the invariant that every observation of a stage other than
\* x_post restores in the same way.
LEMMA IInvFromTracks ==
    ASSUME HealthIInv, health' \in Health, streak' \in [Stages -> 0 .. StreakLimit],
           Tracks(health', streak'), health'.age = health.age,
           health'.circuit["x_post"] = health.circuit["x_post"],
           UNCHANGED <<probes, quiet>>
    PROVE  HealthIInv'
<1>1. \A s \in Stages : health'.failures[s] <= Threshold[s]
  BY StagesFacts DEF Tracks, StreakLimit
<1>2. QED
  BY <1>1 DEF HealthIInv, HealthTypeOK, OneProbe, AgeBehindClock

\* observe-forecast, which records one stage or two, preserves the invariant.
LEMMA ForecastPreserves ==
    ASSUME HealthIInv, NEW o \in StepOutcomes, NEW v \in {"ok", "failed", "absent"},
           NEW d \in {"normal", "severe", "absent"}, ForecastObserved(o, v, d)
    PROVE  HealthIInv'
<1> DEFINE ok == o = "success"
           h1 == Record(health, "forecast", o)
           n1 == Tally(streak, "forecast", ~ok)
           h2 == ObserveForecastOutcome(health, o)
           h3 == ObserveValidation(h2, o, v)
           n3 == IF v = "absent" THEN n1
                 ELSE Tally(n1, "market_data", ~(v = "ok"))
<1>1. health \in Health /\ streak \in [Stages -> 0 .. StreakLimit] /\ Tracks(health, streak)
  BY DEF HealthIInv, HealthTypeOK
<1>2. /\ h1 \in Health /\ h1.age = health.age
      /\ h1.circuit["x_post"] = health.circuit["x_post"]
      /\ n1 \in [Stages -> 0 .. StreakLimit] /\ Tracks(h1, n1)
  <2>1. ok \in BOOLEAN /\ h1 = IF ok THEN RecordSuccess(health, "forecast")
                                ELSE RecordFailure(health, "forecast")
    BY DEF Record
  <2> HIDE DEF h1, n1, ok
  <2>2. n1 = Tally(streak, "forecast", ~ok)
    BY DEF n1
  <2>3. QED
    BY <1>1, <2>1, <2>2, TracksRecord, StagesFacts
<1>3. /\ h2 \in Health /\ h2.age = health.age
      /\ h2.circuit["x_post"] = health.circuit["x_post"] /\ Tracks(h2, n1)
  <2>1. h2 = [h1 EXCEPT !.forecast = Normalized(o)] /\ Normalized(o) \in {"success", "failure"}
    BY DEF ObserveForecastOutcome, Normalized
  <2> HIDE DEF h1, h2, n1
  <2>2. QED
    BY <1>2, <2>1, SignalFacts
<1>4. /\ h3 \in Health /\ h3.age = health.age
      /\ h3.circuit["x_post"] = health.circuit["x_post"]
      /\ n3 \in [Stages -> 0 .. StreakLimit] /\ Tracks(h3, n3)
  <2>1. CASE v = "absent"
    <3>1. n3 = n1 /\ (h3 = h2 \/ h3 = [h2 EXCEPT !.market = "unknown"])
      BY <2>1 DEF ObserveValidation
    <3> HIDE DEF h2, h3, n1, n3
    <3>2. QED
      BY <1>2, <1>3, <3>1, SignalFacts
  <2>2. CASE v # "absent"
    <3> DEFINE fine == v = "ok"
               g == IF fine THEN RecordSuccess(h2, "market_data")
                    ELSE RecordFailure(h2, "market_data")
    <3>1. /\ n3 = Tally(n1, "market_data", ~fine)
          /\ h3 = [g EXCEPT !.market = IF fine THEN "healthy" ELSE "unhealthy"]
      BY <2>2 DEF ObserveValidation
    <3>2. fine \in BOOLEAN /\ g = IF fine THEN RecordSuccess(h2, "market_data")
                                   ELSE RecordFailure(h2, "market_data")
      OBVIOUS
    <3> HIDE DEF h2, h3, n1, n3, g, fine
    <3>3. /\ g \in Health /\ g.age = health.age
          /\ g.circuit["x_post"] = health.circuit["x_post"]
          /\ n3 \in [Stages -> 0 .. StreakLimit] /\ Tracks(g, n3)
      BY <1>2, <1>3, <3>1, <3>2, TracksRecord, StagesFacts
    <3>4. QED
      BY <3>1, <3>2, <3>3, SignalFacts
  <2>3. QED
    BY <2>1, <2>2
<1>5. streak' = n3 /\ UNCHANGED <<probes, quiet>>
  BY StagesFacts DEF ForecastObserved, HealthIInv, HealthTypeOK
<1>6. health' = h3 \/ \E w \in {"unknown", "normal", "severe"} : health' = [h3 EXCEPT !.drift = w]
  BY DEF ForecastObserved, ObserveForecast, ObserveDrift
<1>7. /\ health' \in Health /\ health'.age = health.age
      /\ health'.circuit["x_post"] = health.circuit["x_post"] /\ Tracks(health', n3)
  <2> HIDE DEF h3, n3
  <2>1. QED
    BY <1>4, <1>6, SignalFacts
<1>8. QED
  <2> HIDE DEF n3
  <2>1. QED
    BY <1>4, <1>5, <1>7, IInvFromTracks

\* observe-history preserves the invariant.
LEMMA HistoryPreserves ==
    ASSUME HealthIInv, NEW o \in StepOutcomes, HistoryObserved(o)
    PROVE  HealthIInv'
<1> DEFINE ok == o = "success"
           h1 == Record(health, "history", o)
           n1 == Tally(streak, "history", ~ok)
<1>1. health \in Health /\ streak \in [Stages -> 0 .. StreakLimit] /\ Tracks(health, streak)
  BY DEF HealthIInv, HealthTypeOK
<1>2. ok \in BOOLEAN /\ h1 = IF ok THEN RecordSuccess(health, "history")
                              ELSE RecordFailure(health, "history")
  BY DEF Record
<1>3. /\ health' = [h1 EXCEPT !.history = Normalized(o)] /\ streak' = n1
      /\ Normalized(o) \in {"success", "failure"} /\ UNCHANGED <<probes, quiet>>
  BY DEF HistoryObserved, ObserveHistory, Normalized
<1> HIDE DEF h1, ok
<1>4. /\ h1 \in Health /\ h1.age = health.age
      /\ h1.circuit["x_post"] = health.circuit["x_post"]
      /\ n1 \in [Stages -> 0 .. StreakLimit] /\ Tracks(h1, n1)
  <2> HIDE DEF n1
  <2>1. n1 = Tally(streak, "history", ~ok)
    BY DEF n1
  <2>2. QED
    BY <1>1, <1>2, <2>1, TracksRecord, StagesFacts
<1> HIDE DEF n1
<1>5. /\ health' \in Health /\ health'.age = health.age
      /\ health'.circuit["x_post"] = health.circuit["x_post"] /\ Tracks(health', n1)
  BY <1>3, <1>4, SignalFacts
<1>6. QED
  BY <1>3, <1>4, <1>5, IInvFromTracks

\* observe-x preserves the invariant, and starts a new cooldown for a failure.
LEMMA XPreserves ==
    ASSUME HealthIInv, NEW x \in XStatuses, XObserved(x)
    PROVE  HealthIInv'
<1>1. /\ health \in Health /\ streak \in [Stages -> 0 .. StreakLimit] /\ Tracks(health, streak)
      /\ quiet \in 0 .. Cooldown /\ health.age <= quiet /\ probes \in Nat
  BY DEF HealthIInv, HealthTypeOK, AgeBehindClock
<1>2. CASE x = "absent"
  <2>1. UNCHANGED healthVars
    BY <1>2 DEF XObserved, ObserveX, XSuccesses, XFailures, healthVars
  <2>2. QED
    BY <2>1 DEF healthVars, HealthIInv, HealthTypeOK, Tracks, OneProbe, AgeBehindClock
<1>3. CASE x # "absent"
  <2> DEFINE ok == x \notin XFailures
  <2>1. ok \in BOOLEAN /\ health' = IF ok THEN RecordSuccess(health, "x_post")
                                     ELSE RecordFailure(health, "x_post")
    BY <1>3 DEF XObserved, ObserveX, XSuccesses, XFailures, XStatuses
  <2>2. streak' = Tally(streak, "x_post", ~ok)
    BY <1>3 DEF XObserved
  <2>3. probes' = 0 /\ quiet' \in 0 .. Cooldown
    BY <1>1, <1>3, CooldownAssumption DEF XObserved
  <2> HIDE DEF ok
  <2>4. /\ health' \in Health /\ health'.age = 0
        /\ streak' \in [Stages -> 0 .. StreakLimit] /\ Tracks(health', streak')
    BY <1>1, <2>1, <2>2, TracksRecord, StagesFacts
  <2>5. \A s \in Stages : health'.failures[s] <= Threshold[s]
    BY <2>4, StagesFacts DEF Tracks, StreakLimit
  <2>6. QED
    BY <2>3, <2>4, <2>5, CooldownAssumption DEF HealthIInv, HealthTypeOK, OneProbe, AgeBehindClock
<1>4. QED
  BY <1>2, <1>3

\* What the gate does to the state: nothing, or the half-open excursion.
LEMMA GateFacts ==
    ASSUME NEW h \in Health, NEW n, Tracks(h, n), NEW ignored, NEW g, g = AfterGate(h, ignored)
    PROVE  /\ g \in Health /\ g.age <= h.age /\ g.failures = h.failures
           /\ ~ProbeDue(h, ignored) => g = h
           /\ ProbeDue(h, ignored) => g.circuit["x_post"] = "half_open"
           /\ Tracks(g, n)
<1>1. CASE ~ProbeDue(h, ignored)
  BY <1>1 DEF AfterGate, Health
<1>2. CASE ProbeDue(h, ignored)
  <2> DEFINE C == [h.circuit EXCEPT !["x_post"] = "half_open"]
  <2>1. g = [h EXCEPT !.circuit = C, !.age = 0]
    BY <1>2 DEF AfterGate
  <2>2. /\ h.circuit \in [Stages -> CircuitStates] /\ h.age \in 0 .. Cooldown
        /\ h.circuit["x_post"] = "open"
    BY <1>2 DEF Health, ProbeDue
  <2>3. /\ C \in [Stages -> CircuitStates] /\ C["x_post"] = "half_open"
        /\ \A s \in Stages : C[s] # "closed" <=> h.circuit[s] # "closed"
    BY <2>2, StagesFacts DEF CircuitStates
  <2>4. 0 \in 0 .. Cooldown
    BY CooldownAssumption
  <2> HIDE DEF C
  <2>5. g.circuit = C /\ g.age = 0 /\ g.failures = h.failures
    BY <2>1 DEF Health
  <2>6. g \in Health
    BY <2>1, <2>3, <2>4 DEF Health
  <2>7. QED
    BY <1>2, <2>2, <2>3, <2>5, <2>6 DEF Tracks
<1>3. QED
  BY <1>1, <1>2

\* A gate preserves the invariant, and probes only after a whole cooldown.
LEMMA GatePreserves ==
    ASSUME HealthIInv, NEW ignored \in {{}, {"history"}}, GateEvaluated(ignored)
    PROVE  HealthIInv' /\ (probes' > probes => quiet = Cooldown)
<1>1. /\ health \in Health /\ streak \in [Stages -> 0 .. StreakLimit] /\ Tracks(health, streak)
      /\ quiet \in 0 .. Cooldown /\ health.age <= quiet /\ probes \in Nat /\ health.age \in 0 .. Cooldown
      /\ probes <= 1 /\ (probes = 1 => health.circuit["x_post"] = "half_open")
      /\ \A s \in Stages : health.failures[s] <= Threshold[s]
  BY DEF HealthIInv, HealthTypeOK, AgeBehindClock, OneProbe, Health
<1>2. health' = AfterGate(health, ignored) /\ UNCHANGED <<streak, quiet>>
  BY DEF GateEvaluated
<1>3. /\ health' \in Health /\ health'.age <= health.age /\ health'.failures = health.failures
      /\ ~ProbeDue(health, ignored) => health' = health
      /\ ProbeDue(health, ignored) => health'.circuit["x_post"] = "half_open"
      /\ Tracks(health', streak)
  BY <1>1, <1>2, GateFacts
<1>4. CASE GateAllows(health, ignored) /\ health.circuit["x_post"] # "closed"
  <2>1. ProbeDue(health, ignored)
    BY <1>4 DEF GateAllows, XBlocked
  <2>2. health.circuit["x_post"] = "open" /\ health.age = Cooldown
    BY <2>1 DEF ProbeDue
  <2>3. probes = 0 /\ quiet = Cooldown
    BY <1>1, <2>2, CooldownAssumption
  <2>4. probes' = 1
    BY <1>4, <2>3 DEF GateEvaluated
  <2>5. health'.age \in 0 .. Cooldown
    BY <1>3 DEF Health
  <2>6. HealthTypeOK' /\ OneProbe' /\ AgeBehindClock'
    BY <1>1, <1>2, <1>3, <2>1, <2>3, <2>4, <2>5 DEF HealthTypeOK, OneProbe, AgeBehindClock
  <2>7. QED
    BY <1>2, <1>3, <2>3, <2>6 DEF HealthIInv
<1>5. CASE ~(GateAllows(health, ignored) /\ health.circuit["x_post"] # "closed")
  <2>1. probes' = probes
    BY <1>5 DEF GateEvaluated
  <2>2. health'.age \in 0 .. Cooldown
    BY <1>3 DEF Health
  <2>3. probes = 1 => health'.circuit["x_post"] = "half_open"
    BY <1>1, <1>3
  <2>4. HealthTypeOK' /\ OneProbe' /\ AgeBehindClock'
    BY <1>1, <1>2, <1>3, <2>1, <2>2, <2>3 DEF HealthTypeOK, OneProbe, AgeBehindClock
  <2>5. QED
    BY <1>1, <1>2, <1>3, <2>1, <2>4 DEF HealthIInv
<1>6. QED
  BY <1>4, <1>5

\* The clock preserves the invariant.
LEMMA TickPreserves ==
    ASSUME HealthIInv, HealthTick
    PROVE  HealthIInv'
<1>1. /\ health \in Health /\ quiet \in 0 .. Cooldown /\ health.age <= quiet
      /\ health.age \in 0 .. Cooldown
  BY DEF HealthIInv, HealthTypeOK, AgeBehindClock, Health
<1>2. /\ health' = health \/ (health.age < Cooldown /\ health' = [health EXCEPT !.age = health.age + 1])
      /\ quiet' = IF quiet < Cooldown THEN quiet + 1 ELSE quiet
      /\ UNCHANGED <<streak, probes>>
  BY DEF HealthTick, Aged
<1>3. quiet' \in 0 .. Cooldown /\ quiet <= quiet'
  BY <1>1, <1>2, CooldownAssumption
<1>4. health' \in Health /\ health'.circuit = health.circuit /\ health'.failures = health.failures
      /\ health'.age <= quiet'
  <2>1. CASE health' = health
    BY <1>1, <1>3, <2>1, CooldownAssumption
  <2>2. CASE health.age < Cooldown /\ health' = [health EXCEPT !.age = health.age + 1]
    <3>1. health.age + 1 \in 0 .. Cooldown
      BY <1>1, <2>2, CooldownAssumption
    <3>2. /\ health' \in Health /\ health'.circuit = health.circuit
          /\ health'.failures = health.failures /\ health'.age = health.age + 1
      BY <2>2, <3>1, <1>1 DEF Health
    <3>3. QED
      BY <1>1, <1>2, <3>2, CooldownAssumption
  <2>3. QED
    BY <1>2, <2>1, <2>2
<1>5. QED
  BY <1>2, <1>3, <1>4 DEF HealthIInv, HealthTypeOK, Tracks, OneProbe, AgeBehindClock

-----------------------------------------------------------------------------
\* Every step preserves the invariant and respects the cooldown.
LEMMA StepIInv ==
    HealthIInv /\ [HealthNext]_healthVars => HealthIInv' /\ (probes' > probes => quiet = Cooldown)
<1> SUFFICES ASSUME HealthIInv, [HealthNext]_healthVars
             PROVE  HealthIInv' /\ (probes' > probes => quiet = Cooldown)
  OBVIOUS
<1>1. probes \in Nat
  BY DEF HealthIInv, HealthTypeOK
<1>2. CASE \E o \in StepOutcomes, v \in {"ok", "failed", "absent"},
              d \in {"normal", "severe", "absent"} : ForecastObserved(o, v, d)
  BY <1>1, <1>2, ForecastPreserves DEF ForecastObserved
<1>3. CASE \E o \in StepOutcomes : HistoryObserved(o)
  BY <1>1, <1>3, HistoryPreserves DEF HistoryObserved
<1>4. CASE \E x \in XStatuses : XObserved(x)
  <2>1. PICK x \in XStatuses : XObserved(x)
    BY <1>4
  <2>2. ~(probes' > probes)
    BY <1>1, <2>1 DEF XObserved
  <2>3. QED
    BY <2>1, <2>2, XPreserves
<1>5. CASE \E ignored \in {{}, {"history"}} : GateEvaluated(ignored)
  BY <1>5, GatePreserves
<1>6. CASE HealthTick
  BY <1>1, <1>6, TickPreserves DEF HealthTick
<1>7. CASE UNCHANGED healthVars
  BY <1>1, <1>7 DEF healthVars, HealthIInv, HealthTypeOK, Tracks, OneProbe, AgeBehindClock
<1>8. QED
  BY <1>2, <1>3, <1>4, <1>5, <1>6, <1>7 DEF HealthNext

\* The inductive invariant of the circuit rules holds in every reachable state.
THEOREM HealthInvariance == HealthSpec => []HealthIInv
<1>1. HealthInit => HealthIInv
  BY InitIInv
<1>2. HealthIInv /\ [HealthNext]_healthVars => HealthIInv'
  BY StepIInv
<1>3. QED
  BY <1>1, <1>2, PTL DEF HealthSpec

\* pipeline_health.json keeps its type whatever commands are run.
THEOREM HealthTypeCorrect == HealthSpec => []HealthTypeOK
<1>1. HealthIInv => HealthTypeOK
  BY DEF HealthIInv
<1>2. QED
  BY <1>1, HealthInvariance, PTL

\* For every cooldown and every order of commands, a circuit is tripped exactly
\* when its threshold of failures has been observed since its last success.
THEOREM CircuitsTripAtThreshold == HealthSpec => []TrippedIffPersistent
<1>1. HealthIInv => TrippedIffPersistent
  BY StagesFacts DEF HealthIInv, HealthTypeOK, Tracks, TrippedIffPersistent, StreakLimit
<1>2. QED
  BY <1>1, HealthInvariance, PTL

\* A tripped X circuit never lets two publications through between observations.
THEOREM AtMostOneProbe == HealthSpec => []OneProbe
<1>1. HealthIInv => OneProbe
  BY DEF HealthIInv
<1>2. QED
  BY <1>1, HealthInvariance, PTL

\* A probe comes a whole cooldown after the last observed X failure.
THEOREM ProbeAfterCooldown == HealthSpec => ProbeNeedsCooldown
<1>1. HealthIInv /\ [HealthNext]_healthVars => [probes' > probes => quiet = Cooldown]_healthVars
  BY StepIInv
<1>2. QED
  BY <1>1, HealthInvariance, PTL DEF HealthSpec, ProbeNeedsCooldown

-----------------------------------------------------------------------------
(* The log of the gap alerts is never behind the state. *)

\* What the state says was emitted is in the log, no earlier, and the log is not of the
\* future; the alerts that are due in the report were written lately enough.
GapAlertsInv ==
    /\ now \in Int
    /\ \A a \in DOMAIN alerted :
          /\ a \in DOMAIN logged
          /\ alerted[a] \in Int /\ alerted[a] <= logged[a]
    /\ \A a \in DOMAIN logged : logged[a] \in Int /\ logged[a] <= now
    /\ DueAlertsAreHeard

\* The alerts are written to the log before the state, of which a killed monitor saves
\* nothing, whichever of the alerts it got to.
LEMMA ReconcileKeepsLog ==
    ASSUME GapAlertsInv, NEW delivery, NEW existing,
           Reconcile(delivery, existing) \/ ReconcileKilled(delivery, existing)
    PROVE  GapAlertsInv'
<1> DEFINE due == DueAlerts(Reconciliation(delivery.primary, delivery.secondary, existing, now).summary)
           emitted == Emitted(due, alerted, now)
<1>1. /\ report'.due = due /\ report'.at = now /\ now' = now
      /\ \/ /\ logged' = Stamped(logged, emitted, now)
            /\ alerted' = Stamped(alerted, emitted, now)
         \/ /\ \E n : logged' = Stamped(logged, UpToMetric(emitted, n), now)
            /\ alerted' = alerted /\ report'.alerting = "killed"
    BY DEF Reconcile, ReconcileKilled, ReportOf, AfterAlerts
<1>2. \A a \in due :
          IF a \in emitted THEN a \in DOMAIN alerted => now - alerted[a] >= DedupMinutes
                          ELSE a \in DOMAIN alerted /\ ~(now - alerted[a] >= DedupMinutes)
    BY DEF Emitted
<1>3. now \in Int
    BY DEF GapAlertsInv
<1> HIDE DEF due, emitted
<1>4. PICK written \in SUBSET emitted :
         /\ logged' = Stamped(logged, written, now)
         /\ \/ written = emitted /\ alerted' = Stamped(alerted, emitted, now)
            \/ alerted' = alerted /\ report'.alerting = "killed"
    <2>1. \A n : UpToMetric(emitted, n) \in SUBSET emitted
        BY DEF UpToMetric
    <2>2. emitted \in SUBSET emitted
        OBVIOUS
    <2> QED BY <1>1, <2>1, <2>2
<1>5. /\ DOMAIN logged' = (DOMAIN logged) \cup written
      /\ \A a \in written : logged'[a] = now
      /\ \A a \in (DOMAIN logged) \ written : logged'[a] = logged[a]
    BY <1>4 DEF Stamped
<1>6. \A a \in DOMAIN logged' : logged'[a] \in Int /\ logged'[a] <= now
    BY <1>3, <1>5 DEF GapAlertsInv
<1>7. ASSUME NEW a \in DOMAIN alerted'
      PROVE  a \in DOMAIN logged' /\ alerted'[a] \in Int /\ alerted'[a] <= logged'[a]
    <2>1. \/ a \in written /\ alerted'[a] = now
          \/ a \in DOMAIN alerted /\ alerted'[a] = alerted[a]
        BY <1>4 DEF Stamped
    <2>2. CASE a \in written /\ alerted'[a] = now
        BY <1>3, <1>5, <2>2
    <2>3. CASE a \in DOMAIN alerted /\ alerted'[a] = alerted[a]
        <3>1. a \in DOMAIN logged /\ alerted[a] \in Int /\ alerted[a] <= logged[a]
              /\ logged[a] <= now /\ logged[a] \in Int
            BY <2>3 DEF GapAlertsInv
        <3>2. logged'[a] \in {now, logged[a]}
            BY <1>5, <3>1
        <3>3. alerted[a] <= logged'[a]
            BY <1>3, <3>1, <3>2
        <3> QED BY <1>5, <2>3, <3>1, <3>3
    <2> QED BY <2>1, <2>2, <2>3
<1>8. ASSUME NEW a \in report'.due
      PROVE  \/ a \in DOMAIN logged' /\ report'.at - logged'[a] < DedupMinutes
             \/ /\ report'.alerting = "killed"
                /\ a \in DOMAIN alerted' => report'.at - alerted'[a] >= DedupMinutes
    <2>1. CASE a \in written
        BY <1>1, <1>3, <1>5, <2>1 DEF DedupMinutes
    <2>2. CASE a \in emitted /\ a \notin written
        <3>1. alerted' = alerted /\ report'.alerting = "killed"
            BY <1>4, <2>2
        <3>2. a \in DOMAIN alerted => now - alerted[a] >= DedupMinutes
            BY <1>1, <1>2, <2>2
        <3> QED BY <1>1, <3>1, <3>2
    <2>3. CASE a \notin emitted
        <3>1. a \in DOMAIN alerted /\ ~(now - alerted[a] >= DedupMinutes)
            BY <1>1, <1>2, <2>3
        <3>2. a \in DOMAIN logged /\ alerted[a] \in Int /\ alerted[a] <= logged[a] /\ logged[a] \in Int
            BY <3>1 DEF GapAlertsInv
        <3>3. now - logged[a] < DedupMinutes
            BY <1>3, <3>1, <3>2 DEF DedupMinutes
        <3> QED BY <1>1, <1>5, <2>3, <3>2, <3>3
    <2> QED BY <2>1, <2>2, <2>3
<1>9. now' \in Int
    BY <1>1, <1>3
<1> QED BY <1>1, <1>6, <1>7, <1>8, <1>9 DEF GapAlertsInv, DueAlertsAreHeard

LEMMA GapAlertsInvariance == QualitySpec => []GapAlertsInv
<1>1. QualityInit => GapAlertsInv
    BY DEF QualityInit, GapAlertsInv, DueAlertsAreHeard, NoReport, NoAlerts
<1>2. ASSUME GapAlertsInv, [QualityNext]_qualityVars PROVE GapAlertsInv'
    <2>1. CASE QualityNext
        <3>1. CASE \E d \in Deliveries, existing \in {NoProvenance, report.provenance} :
                       Reconcile(d, existing) \/ ReconcileKilled(d, existing)
            BY <1>2, <3>1, ReconcileKeepsLog
        <3>2. CASE \E o \in Origins : \E rows \in Observations[o] : ObserveSources(o, rows)
            BY <1>2, <3>2 DEF ObserveSources, gaps, GapAlertsInv, DueAlertsAreHeard
        <3>3. CASE LoseAlertState
            BY <1>2, <3>3 DEF LoseAlertState, NoAlerts, GapAlertsInv, DueAlertsAreHeard
        <3>4. CASE LoseHealthState
            BY <1>2, <3>4 DEF LoseHealthState, gaps, GapAlertsInv, DueAlertsAreHeard
        <3>5. ASSUME NEW step \in Steps, QualityTick(step) PROVE GapAlertsInv'
            <4>1. step \in Nat
                BY QualityAssumption
            <4>2. now' = now + step /\ report' = report /\ alerted' = alerted /\ logged' = logged
                BY <3>5 DEF QualityTick, gaps
            <4> QED BY <1>2, <4>1, <4>2 DEF GapAlertsInv, DueAlertsAreHeard
        <3> QED BY <2>1, <3>1, <3>2, <3>3, <3>4, <3>5 DEF QualityNext, Work
    <2>2. CASE UNCHANGED qualityVars
        BY <1>2, <2>2 DEF qualityVars, gaps, GapAlertsInv, DueAlertsAreHeard
    <2> QED BY <1>2, <2>1, <2>2
<1> QED BY <1>1, <1>2, PTL DEF QualitySpec

(* GapAlertMonitor.record, _should_alert: whichever alert a monitor is killed at,
   whenever the state is lost and whatever time passes, every alert that the last report
   calls for was written to the log less than a dedup window before it, or it was that
   monitor that left it out, and the next one gives it. *)
THEOREM NothingIsHidden == QualitySpec => []DueAlertsAreHeard
<1>1. GapAlertsInv => DueAlertsAreHeard
    BY DEF GapAlertsInv
<1> QED BY <1>1, GapAlertsInvariance, PTL

-----------------------------------------------------------------------------
(* The least and the greatest of a finite set of numbers. *)

\* A finite set of numbers that is not empty has a greatest element.
LEMMA GreatestExists ==
    ASSUME NEW S \in SUBSET Int, IsFiniteSet(S), S # {}
    PROVE  \E m \in S : \A n \in S : n <= m
<1> DEFINE HasGreatest(T) == \E m \in T : \A n \in T : n <= m
           Bad == {T \in FiniteSubsetsOf(S) : T # {} /\ ~HasGreatest(T)}
<1>1. SUFFICES ASSUME Bad # {} PROVE FALSE
    <2>1. S \in FiniteSubsetsOf(S)
        BY DEF FiniteSubsetsOf
    <2> QED BY <2>1
<1>2. PICK T \in Bad : \A U \in Bad : <<U, T>> \notin StrictSubsetOrdering(S)
    <2>1. Bad \subseteq FiniteSubsetsOf(S)
        OBVIOUS
    <2> HIDE DEF Bad
    <2> QED BY <1>1, <2>1, FS_StrictSubsetOrderingWellFounded, WFMin
<1>3. PICK x \in T : TRUE
    OBVIOUS
<1> DEFINE U == T \ {x}
<1>4. U \in FiniteSubsetsOf(S) /\ T \in FiniteSubsetsOf(S)
    BY FS_RemoveElement DEF FiniteSubsetsOf
<1>5. <<U, T>> \in StrictSubsetOrdering(S)
    BY <1>3, <1>4 DEF StrictSubsetOrdering, FiniteSubsetsOf
<1>6. U = {} \/ HasGreatest(U)
    BY <1>2, <1>4, <1>5
<1>7. HasGreatest(T)
    <2>1. T \subseteq Int
        BY <1>4 DEF FiniteSubsetsOf
    <2> QED BY <1>3, <1>6, <2>1
<1> QED BY <1>2, <1>7

\* Counting from 0 by ones reaches every number.
LEMMA UpTo ==
    ASSUME NEW n \in Nat, NEW S \in SUBSET (0 .. n), 0 \in S,
           \A m \in S : m < n => m + 1 \in S
    PROVE  n \in S
<1>1. IsFiniteSet(S) /\ S \in SUBSET Int
    <2>1. IsFiniteSet(0 .. n)
        BY FS_Interval
    <2>2. IsFiniteSet(S)
        BY <2>1, FS_Subset
    <2> QED BY <2>2
<1>2. PICK m \in S : \A k \in S : k <= m
    BY <1>1, GreatestExists
<1>3. ~(m + 1 \in S)
    BY <1>2
<1> QED BY <1>2, <1>3

\* ... and a least element.
LEMMA LeastExists ==
    ASSUME NEW S \in SUBSET Int, IsFiniteSet(S), S # {}
    PROVE  \E m \in S : \A n \in S : m <= n
<1> DEFINE T == {-n : n \in S}
           g == [n \in S |-> -n]
<1>1. g \in Surjection(S, T)
    BY DEF Surjection
<1>2. IsFiniteSet(T)
    BY <1>1, FS_Surjection
<1>3. T \in SUBSET Int /\ T # {}
    <2>1. PICK n \in S : TRUE
        OBVIOUS
    <2>2. -n \in T
        OBVIOUS
    <2>3. \A k \in T : k \in Int
        OBVIOUS
    <2> QED BY <2>2, <2>3
<1> HIDE DEF T
<1>4. PICK m \in T : \A n \in T : n <= m
    BY <1>2, <1>3, GreatestExists
<1>5. PICK k \in S : m = -k
    BY DEF T
<1>6. \A n \in S : -n <= m
    BY <1>4 DEF T
<1> QED BY <1>5, <1>6

\* What Min and Max of such a set are.
LEMMA MinFacts ==
    ASSUME NEW S \in SUBSET Int, IsFiniteSet(S), S # {}
    PROVE  Min(S) \in S /\ \A n \in S : Min(S) <= n
BY LeastExists DEF Min

LEMMA MaxFacts ==
    ASSUME NEW S \in SUBSET Int, IsFiniteSet(S), S # {}
    PROVE  Max(S) \in S /\ \A n \in S : n <= Max(S)
<1>1. \E m \in S : \A n \in S : m >= n
    BY GreatestExists
<1> QED BY <1>1 DEF Max

-----------------------------------------------------------------------------
(* The gaps of a set of stamps. *)

\* t and u are stamps with none between them, and the hours they leave out
Adjacent(have, t, u) ==
    t \in have /\ u \in have /\ t < u /\ \A h \in have : ~(t < h /\ h < u)

Interior(t, u) == {t + Hour * k : k \in 1 .. ((u - t) \div Hour) - 1}

\* A finite set of times.
Times(have) == have \subseteq Int /\ IsFiniteSet(have)

\* An hour that is left out lies between the two, a whole number of hours from the first.
LEMMA InteriorFacts ==
    ASSUME NEW t \in Int, NEW u \in Int, NEW x \in Interior(t, u)
    PROVE  /\ x \in Int /\ t < x /\ x < u /\ x + Hour <= u
           /\ \E k \in Nat \ {0} : x = t + Hour * k
<1>1. PICK k \in 1 .. ((u - t) \div Hour) - 1 : x = t + Hour * k
    BY DEF Interior
<1>2. k \in Int /\ k >= 1 /\ k + 1 <= (u - t) \div Hour
    BY <1>1 DEF Hour
<1>3. Hour * ((u - t) \div Hour) <= u - t
    BY DEF Hour
<1> QED BY <1>1, <1>2, <1>3 DEF Hour

\* ... and every such hour is left out.
LEMMA InsideInterior ==
    ASSUME NEW t \in Int, NEW u \in Int, NEW k \in Nat \ {0}, t + Hour * k + Hour <= u
    PROVE  t + Hour * k \in Interior(t, u)
<1>1. k <= ((u - t) \div Hour) - 1
    BY DEF Hour
<1> QED BY <1>1 DEF Interior, Hour

\* Two stamps around a time are the only ones with none between.
LEMMA AdjacentIsUnique ==
    ASSUME NEW have \in SUBSET Int, NEW t, NEW u, NEW v, NEW w, NEW x \in Int,
           Adjacent(have, t, u), Adjacent(have, v, w), t < x, x < u, v < x, x < w
    PROVE  t = v /\ u = w
BY DEF Adjacent

\* Between two stamps there is an adjacent one to each side of a time.
LEMMA AdjacentExists ==
    ASSUME NEW have, Times(have), NEW x \in Int \ have,
           NEW a \in have, NEW b \in have, a < x, x < b
    PROVE  \E t, u \in have : Adjacent(have, t, u) /\ t < x /\ x < u
<1> DEFINE below == {h \in have : h < x}
           above == {h \in have : x < h}
<1>1. below \in SUBSET Int /\ above \in SUBSET Int /\ a \in below /\ b \in above
    BY DEF Times
<1>2. IsFiniteSet(below) /\ IsFiniteSet(above)
    BY FS_Subset DEF Times
<1>3. PICK t \in below : \A h \in below : h <= t
    BY <1>1, <1>2, GreatestExists
<1>4. PICK u \in above : \A h \in above : u <= h
    BY <1>1, <1>2, LeastExists
<1>5. t \in have /\ u \in have /\ t \in Int /\ u \in Int /\ t < x /\ x < u
    BY <1>1, <1>3, <1>4
<1>6. ASSUME NEW h \in have, t < h, h < u PROVE FALSE
    <2>1. h \in Int /\ h # x
        BY DEF Times
    <2>2. h \in below \/ h \in above
        BY <2>1
    <2> QED BY <1>3, <1>4, <1>5, <1>6, <2>1, <2>2
<1> QED BY <1>5, <1>6 DEF Adjacent

\* What is missing is what adjacent stamps leave out.
LEMMA MissingFacts ==
    ASSUME NEW have, Times(have), NEW x
    PROVE  x \in MissingStamps(have) <=>
               \E t, u \in have : Adjacent(have, t, u) /\ x \in Interior(t, u)
<1> DEFINE after(t) == {u \in have : u > t}
           early == {s \in have : \E u \in have : u > s}
<1>1. ASSUME NEW t \in early
      PROVE  Min(after(t)) \in have /\ Adjacent(have, t, Min(after(t)))
    <2>1. after(t) \in SUBSET Int /\ after(t) # {} /\ IsFiniteSet(after(t))
        BY FS_Subset DEF Times
    <2>2. Min(after(t)) \in after(t) /\ \A u \in after(t) : Min(after(t)) <= u
        BY <2>1, MinFacts
    <2>3. \A h \in have : t < h => Min(after(t)) <= h
        BY <2>2
    <2> HIDE DEF after
    <2>4. Min(after(t)) \in have /\ t < Min(after(t))
        BY <2>2 DEF after, Times
    <2>5. \A h \in have : h \in Int
        BY DEF Times
    <2> QED BY <2>3, <2>4, <2>5 DEF Adjacent
<1>2. ASSUME NEW t \in have, NEW u \in have, Adjacent(have, t, u)
      PROVE  t \in early /\ Min(after(t)) = u
    <2>1. t \in early
        BY <1>2 DEF Adjacent, Times
    <2>2. Adjacent(have, t, Min(after(t)))
        BY <1>1, <2>1
    <2> DEFINE w == Min(after(t))
    <2>3. Adjacent(have, t, w)
        BY <2>2
    <2> HIDE DEF w, early
    <2>4. t \in Int /\ u \in Int /\ w \in Int /\ u \in have /\ w \in have
        BY <2>3 DEF Adjacent, Times
    <2>5. w = u
        BY <1>2, <2>3, <2>4 DEF Adjacent
    <2> QED BY <2>1, <2>5 DEF w
<1>3. MissingStamps(have) = UNION {Interior(t, Min(after(t))) : t \in early}
    BY DEF MissingStamps, Interior
<1> HIDE DEF after, early
<1>4. ASSUME x \in MissingStamps(have)
      PROVE  \E t, u \in have : Adjacent(have, t, u) /\ x \in Interior(t, u)
    <2>1. PICK t \in early : x \in Interior(t, Min(after(t)))
        BY <1>3, <1>4
    <2>2. t \in have
        BY DEF early
    <2> QED BY <1>1, <2>1, <2>2
<1>5. ASSUME NEW t \in have, NEW u \in have, Adjacent(have, t, u), x \in Interior(t, u)
      PROVE  x \in MissingStamps(have)
    BY <1>2, <1>3, <1>5
<1> QED BY <1>4, <1>5

\* The hours that adjacent stamps leave out are one run of missing stamps.
LEMMA RunFacts ==
    ASSUME NEW have, Times(have), NEW t \in have, NEW u \in have, Adjacent(have, t, u),
           Interior(t, u) # {}
    PROVE  LET missing == MissingStamps(have)
               first == t + Hour
           IN  /\ first \in missing /\ t \notin missing
               /\ {x \in missing : /\ x >= first /\ (x - first) % Hour = 0
                                   /\ \A k \in 0 .. ((x - first) \div Hour) : first + Hour * k \in missing}
                  = Interior(t, u)
<1> DEFINE missing == MissingStamps(have)
           first == t + Hour
           Run(x) == /\ x >= first /\ (x - first) % Hour = 0
                     /\ \A k \in 0 .. ((x - first) \div Hour) : first + Hour * k \in missing
<1>1. t \in Int /\ u \in Int
    BY DEF Times
<1>2. \A x : x \in missing <=> \E v, w \in have : Adjacent(have, v, w) /\ x \in Interior(v, w)
    BY MissingFacts
<1> HIDE DEF missing
<1>3. \A x \in Interior(t, u) : x \in missing
    BY <1>2
<1>4. first \in Interior(t, u)
    <2>1. PICK x \in Interior(t, u) : TRUE
        OBVIOUS
    <2>2. PICK k \in Nat \ {0} : x = t + Hour * k /\ x + Hour <= u
        BY <1>1, InteriorFacts
    <2>3. t + Hour * 1 + Hour <= u
        BY <1>1, <2>2 DEF Hour
    <2>4. t + Hour * 1 \in Interior(t, u)
        BY <1>1, <2>3, InsideInterior
    <2> QED BY <1>1, <2>4 DEF Hour
<1>5. \A h \in have : h \notin missing
    <2> SUFFICES ASSUME NEW h \in have, h \in missing PROVE FALSE
        OBVIOUS
    <2>1. PICK v, w \in have : Adjacent(have, v, w) /\ h \in Interior(v, w)
        BY <1>2
    <2>2. v < h /\ h < w
        BY <2>1, InteriorFacts DEF Times
    <2> QED BY <2>1, <2>2 DEF Adjacent
<1>6. \A x \in missing : t < x /\ x < u => x \in Interior(t, u)
    <2> SUFFICES ASSUME NEW x \in missing, t < x, x < u PROVE x \in Interior(t, u)
        OBVIOUS
    <2>1. PICK v, w \in have : Adjacent(have, v, w) /\ x \in Interior(v, w)
        BY <1>2
    <2>2. x \in Int /\ v < x /\ x < w
        BY <2>1, InteriorFacts DEF Times
    <2>3. t = v /\ u = w
        BY <2>1, <2>2, AdjacentIsUnique DEF Times
    <2> QED BY <2>1, <2>3
<1>7. ASSUME NEW x \in missing, Run(x) PROVE x \in Interior(t, u)
    <2> DEFINE m == (x - first) \div Hour
               n == ((u - t) \div Hour) - 1
    <2>0. x \in Int
        BY <1>2, InteriorFacts DEF Times
    <2>1. m \in Nat /\ x = first + Hour * m /\ first + Hour * m \in missing
        BY <1>1, <1>7, <2>0 DEF Hour
    <2>2. CASE x < u
        BY <1>1, <1>6, <1>7, <2>0, <2>2 DEF Hour
    <2>3. CASE ~(x < u)
        <3>1. n \in Nat /\ t + Hour * (n + 1) <= u /\ u < t + Hour * (n + 2)
            <4>1. t + Hour + Hour <= u
                BY <1>1, <1>4, InteriorFacts
            <4> QED BY <1>1, <4>1 DEF Hour
        <3>2. n <= m
            BY <1>1, <2>0, <2>1, <2>3, <3>1 DEF Hour
        <3>3. first + Hour * n \in missing
            BY <1>7, <2>1, <3>1, <3>2
        <3> DEFINE y == first + Hour * n
        <3>4. y \in Int /\ t < y /\ y <= u /\ y = t + Hour * (n + 1)
            BY <1>1, <3>1 DEF Hour
        <3>5. y # u
            BY <1>5, <3>3
        <3>6. y \in Interior(t, u)
            BY <1>1, <1>6, <3>3, <3>4, <3>5
        <3> HIDE DEF n
        <3>7. y + Hour <= u
            BY <1>1, <3>6, InteriorFacts
        <3> QED BY <1>1, <3>1, <3>4, <3>7 DEF Hour
    <2> QED BY <2>2, <2>3
<1>8. ASSUME NEW x \in Interior(t, u) PROVE x \in missing /\ Run(x)
    <2>1. PICK k \in Nat \ {0} : x = t + Hour * k /\ x + Hour <= u
        BY <1>1, InteriorFacts
    <2>2. x >= first /\ (x - first) % Hour = 0 /\ (x - first) \div Hour = k - 1
        BY <1>1, <2>1 DEF Hour
    <2>3. ASSUME NEW j \in 0 .. k - 1 PROVE first + Hour * j \in missing
        <3>1. j + 1 \in Nat \ {0} /\ t + Hour * (j + 1) + Hour <= u /\ first + Hour * j = t + Hour * (j + 1)
            BY <1>1, <2>1 DEF Hour
        <3>2. t + Hour * (j + 1) \in Interior(t, u)
            BY <1>1, <3>1, InsideInterior
        <3> QED BY <1>3, <3>1, <3>2
    <2> QED BY <1>3, <2>2, <2>3
<1> HIDE DEF first, Run
<1>9. {x \in missing : Run(x)} = Interior(t, u)
    BY <1>7, <1>8
<1>10. first \in missing /\ t \notin missing
    BY <1>3, <1>4, <1>5
<1> QED BY <1>9, <1>10 DEF missing, first, Run

\* The gaps are what adjacent stamps leave out.
LEMMA GapsFacts ==
    ASSUME NEW have, Times(have), NEW g
    PROVE  g \in Gaps(have) <=>
               \E t, u \in have : Adjacent(have, t, u) /\ g = Interior(t, u) /\ g # {}
<1> DEFINE missing == MissingStamps(have)
           Run(first) == {x \in missing : /\ x >= first /\ (x - first) % Hour = 0
                              /\ \A k \in 0 .. ((x - first) \div Hour) : first + Hour * k \in missing}
<1>1. Gaps(have) = {Run(first) : first \in {t \in missing : t - Hour \notin missing}}
    BY DEF Gaps
<1>2. ASSUME NEW t \in have, NEW u \in have, Adjacent(have, t, u), Interior(t, u) # {}
      PROVE  /\ t + Hour \in missing /\ t \notin missing /\ Run(t + Hour) = Interior(t, u)
             /\ t \in Int
    BY <1>2, RunFacts DEF Times
<1>3. \A x : x \in missing <=> \E v, w \in have : Adjacent(have, v, w) /\ x \in Interior(v, w)
    BY MissingFacts
<1> HIDE DEF missing, Run
<1>4. ASSUME g \in Gaps(have)
      PROVE  \E t, u \in have : Adjacent(have, t, u) /\ g = Interior(t, u) /\ g # {}
    <2>1. PICK first \in missing : first - Hour \notin missing /\ g = Run(first)
        BY <1>1, <1>4
    <2>2. PICK t, u \in have : Adjacent(have, t, u) /\ first \in Interior(t, u)
        BY <1>3
    <2>3. t \in Int /\ u \in Int
        BY DEF Times
    <2>4. PICK k \in Nat \ {0} : first = t + Hour * k /\ first + Hour <= u
        BY <2>2, <2>3, InteriorFacts
    <2>5. k = 1
        <3> SUFFICES ASSUME k # 1 PROVE FALSE
            OBVIOUS
        <3>1. k - 1 \in Nat \ {0} /\ t + Hour * (k - 1) + Hour <= u /\ first - Hour = t + Hour * (k - 1)
            BY <2>3, <2>4 DEF Hour
        <3>2. t + Hour * (k - 1) \in Interior(t, u)
            BY <2>3, <3>1, InsideInterior
        <3> QED BY <1>3, <2>1, <2>2, <3>1, <3>2
    <2>6. first = t + Hour
        BY <2>3, <2>4, <2>5 DEF Hour
    <2> QED BY <1>2, <2>1, <2>2, <2>6
<1>5. ASSUME NEW t \in have, NEW u \in have, Adjacent(have, t, u), g = Interior(t, u), g # {}
      PROVE  g \in Gaps(have)
    <2>1. t + Hour \in missing /\ t \notin missing /\ Run(t + Hour) = g /\ t \in Int
        BY <1>2, <1>5
    <2>2. (t + Hour) - Hour = t
        BY <2>1 DEF Hour
    <2> QED BY <1>1, <2>1, <2>2
<1> QED BY <1>4, <1>5

-----------------------------------------------------------------------------
(* Series and the candles they are made of. *)

\* A series as a provider delivers it, and candles of which no two have the same stamp.
IsSeries(s) ==
    /\ Len(s) \in Nat /\ DOMAIN s = 1 .. Len(s)
    /\ \A i \in DOMAIN s : s[i].at \in Int

IsStamped(candles) ==
    /\ \A c \in candles : c.at \in Int
    /\ \A c, d \in candles : c.at = d.at => c = d

\* The stamps of a series, and the candle at one of them.
LEMMA SeriesFacts ==
    ASSUME NEW s, IsSeries(s)
    PROVE  Times(Stamps(s)) /\ \A t \in Stamps(s) : CandleAt(s, t).at = t
<1> DEFINE f == [i \in DOMAIN s |-> s[i].at]
<1>1. IsFiniteSet(DOMAIN s) /\ DOMAIN s \subseteq Int
    <2>1. Len(s) \in Int /\ DOMAIN s = 1 .. Len(s)
        BY DEF IsSeries
    <2>2. IsFiniteSet(1 .. Len(s)) /\ 1 .. Len(s) \subseteq Int
        BY <2>1, FS_Interval
    <2> QED BY <2>1, <2>2
<1>2. f \in Surjection(DOMAIN s, Stamps(s))
    BY DEF Stamps, Surjection
<1>3. IsFiniteSet(Stamps(s))
    BY <1>1, <1>2, FS_Surjection
<1>4. Stamps(s) \subseteq Int
    BY DEF Stamps, IsSeries
<1>5. ASSUME NEW t \in Stamps(s) PROVE CandleAt(s, t).at = t
    <2> DEFINE at == {i \in DOMAIN s : s[i].at = t}
    <2>1. at \in SUBSET Int /\ at # {} /\ IsFiniteSet(at)
        <3>1. at \in SUBSET DOMAIN s /\ at # {}
            BY DEF Stamps
        <3> HIDE DEF at
        <3> QED BY <1>1, <3>1, FS_Subset
    <2>2. Max(at) \in at
        BY <2>1, MaxFacts
    <2> QED BY <2>2 DEF CandleAt
<1> QED BY <1>3, <1>4, <1>5 DEF Times

\* the candles of a set before one of them
Older(candles, c) == {d \in candles : d.at < c.at}

\* The number of older candles grows with the stamp.
LEMMA OlderFacts ==
    ASSUME NEW candles, IsStamped(candles), IsFiniteSet(candles), NEW c \in candles
    PROVE  /\ Cardinality(Older(candles, c)) \in Nat
           /\ Cardinality(Older(candles, c)) < Cardinality(candles)
           /\ \A d \in candles :
                  d.at < c.at => Cardinality(Older(candles, d)) < Cardinality(Older(candles, c))
<1>1. \A d \in candles : /\ Older(candles, d) \in SUBSET candles /\ IsFiniteSet(Older(candles, d))
                         /\ Cardinality(Older(candles, d)) \in Nat /\ d \notin Older(candles, d)
    <2> TAKE d \in candles
    <2>1. Older(candles, d) \in SUBSET candles /\ d \notin Older(candles, d)
        BY DEF Older, IsStamped
    <2>2. IsFiniteSet(Older(candles, d))
        BY <2>1, FS_Subset
    <2> QED BY <2>1, <2>2, FS_CardinalityType
<1>2. Cardinality(candles) \in Nat
    BY FS_CardinalityType
<1>3. Cardinality(Older(candles, c)) < Cardinality(candles)
    <2>1. /\ Cardinality(Older(candles, c)) <= Cardinality(candles)
          /\ Cardinality(candles) = Cardinality(Older(candles, c)) => candles = Older(candles, c)
        BY <1>1, FS_Subset
    <2> QED BY <1>1, <1>2, <2>1
<1>4. ASSUME NEW d \in candles, d.at < c.at
      PROVE  Cardinality(Older(candles, d)) < Cardinality(Older(candles, c))
    <2>1. Older(candles, d) \in SUBSET Older(candles, c) /\ d \in Older(candles, c)
        BY <1>4 DEF Older, IsStamped
    <2>2. /\ Cardinality(Older(candles, d)) <= Cardinality(Older(candles, c))
          /\ Cardinality(Older(candles, c)) = Cardinality(Older(candles, d))
                 => Older(candles, c) = Older(candles, d)
        BY <1>1, <2>1, FS_Subset
    <2> QED BY <1>1, <2>1, <2>2
<1> QED BY <1>1, <1>3, <1>4

\* A series that candles are put into has these candles, each at its stamp.
LEMMA SetToSeriesFacts ==
    ASSUME NEW candles, IsStamped(candles), IsFiniteSet(candles)
    PROVE  LET s == SetToSeries(candles)
           IN  /\ IsSeries(s) /\ Stamps(s) = {c.at : c \in candles}
               /\ \A c \in candles : CandleAt(s, c.at) = c
<1> DEFINE n == Cardinality(candles)
           s == SetToSeries(candles)
           place == [c \in candles |-> Cardinality(Older(candles, c)) + 1]
<1>1. n \in Nat
    BY FS_CardinalityType
<1>2. place \in [candles -> 1 .. n]
    BY <1>1, OlderFacts
<1>3. ASSUME NEW c \in candles, NEW d \in candles, place[c] = place[d] PROVE c = d
    <2>1. /\ Cardinality(Older(candles, c)) \in Nat /\ Cardinality(Older(candles, d)) \in Nat
          /\ c.at < d.at => Cardinality(Older(candles, c)) < Cardinality(Older(candles, d))
          /\ d.at < c.at => Cardinality(Older(candles, d)) < Cardinality(Older(candles, c))
        BY OlderFacts
    <2>2. c.at \in Int /\ d.at \in Int
        BY DEF IsStamped
    <2>3. c.at = d.at
        BY <1>3, <2>1, <2>2
    <2> QED BY <2>3 DEF IsStamped
<1> HIDE DEF n
<1>4. place \in Surjection(candles, 1 .. n)
    <2>1. place \in Injection(candles, 1 .. n)
        BY <1>2, <1>3 DEF Injection, IsInjective
    <2>2. IsFiniteSet(1 .. n) /\ Cardinality(1 .. n) = n
        BY <1>1, FS_Interval
    <2> QED BY <2>1, <2>2, FS_Injection DEF n
<1>5. s = [k \in 1 .. n |-> CHOOSE c \in candles : Cardinality(Older(candles, c)) = k - 1]
    BY DEF SetToSeries, Older, n
<1>6. ASSUME NEW k \in 1 .. n PROVE s[k] \in candles /\ place[s[k]] = k
    <2>1. PICK c \in candles : place[c] = k
        BY <1>4 DEF Surjection
    <2>2. Cardinality(Older(candles, c)) = k - 1
        BY <1>1, <2>1, OlderFacts
    <2>3. s[k] \in candles /\ Cardinality(Older(candles, s[k])) = k - 1
        BY <1>5, <2>2
    <2> QED BY <1>1, <2>3
<1>7. ASSUME NEW c \in candles PROVE place[c] \in 1 .. n /\ s[place[c]] = c
    BY <1>2, <1>3, <1>6
<1>8. DOMAIN s = 1 .. n /\ Len(s) = n
    BY <1>1, <1>5
<1> HIDE DEF s, place
<1>9. IsSeries(s)
    BY <1>1, <1>6, <1>8 DEF IsSeries, IsStamped
<1>10. Stamps(s) = {c.at : c \in candles}
    BY <1>6, <1>7, <1>8 DEF Stamps
<1>11. ASSUME NEW c \in candles PROVE CandleAt(s, c.at) = c
    <2>1. {i \in DOMAIN s : s[i].at = c.at} = {place[c]}
        BY <1>6, <1>7, <1>8 DEF IsStamped
    <2>2. place[c] \in Int
        BY <1>1, <1>7
    <2>3. Max({place[c]}) = place[c]
        BY <2>2 DEF Max
    <2> QED BY <1>7, <2>1, <2>3 DEF CandleAt
<1> QED BY <1>9, <1>10, <1>11 DEF s

-----------------------------------------------------------------------------
(* The backfill. *)

\* What is filled: the hours of small gaps that the secondary provider has.
LEMMA FillsFacts ==
    ASSUME NEW p, NEW s, IsSeries(p), NEW x
    PROVE  x \in Fills(p, s) <=>
               /\ x \in Stamps(s)
               /\ \E t, u \in Stamps(p) : /\ Adjacent(Stamps(p), t, u) /\ x \in Interior(t, u)
                                          /\ Cardinality(Interior(t, u)) <= FillMax
<1>1. Times(Stamps(p))
    BY SeriesFacts
<1>2. \A g : g \in Gaps(Stamps(p)) <=>
           \E t, u \in Stamps(p) : Adjacent(Stamps(p), t, u) /\ g = Interior(t, u) /\ g # {}
    BY <1>1, GapsFacts
<1>3. x \in Fills(p, s) <=>
          x \in Stamps(s) /\ \E g \in Gaps(Stamps(p)) : Cardinality(g) <= FillMax /\ x \in g
    BY DEF Fills
<1>4. ASSUME x \in Fills(p, s)
      PROVE  \E t, u \in Stamps(p) : /\ Adjacent(Stamps(p), t, u) /\ x \in Interior(t, u)
                                     /\ Cardinality(Interior(t, u)) <= FillMax
    <2>1. PICK g \in Gaps(Stamps(p)) : Cardinality(g) <= FillMax /\ x \in g
        BY <1>3, <1>4
    <2> QED BY <1>2, <2>1
<1>5. ASSUME NEW t \in Stamps(p), NEW u \in Stamps(p), Adjacent(Stamps(p), t, u),
             x \in Interior(t, u), Cardinality(Interior(t, u)) <= FillMax
      PROVE  \E g \in Gaps(Stamps(p)) : Cardinality(g) <= FillMax /\ x \in g
    <2>1. Interior(t, u) \in Gaps(Stamps(p))
        BY <1>2, <1>5
    <2> QED BY <1>5, <2>1
<1> QED BY <1>3, <1>4, <1>5

\* What is filled is new, and leaves nothing to fill.
LEMMA NothingLeftToFill ==
    ASSUME NEW p, NEW s, NEW q, IsSeries(p), IsSeries(q), Stamps(q) = Stamps(p) \cup Fills(p, s)
    PROVE  Fills(p, s) \cap Stamps(p) = {} /\ Fills(q, s) = {}
<1> DEFINE have == Stamps(p)
           fills == Fills(p, s)
           now2 == Stamps(q)
           Filled(x, t, u) == /\ Adjacent(have, t, u) /\ x \in Interior(t, u)
                              /\ Cardinality(Interior(t, u)) <= FillMax
<1>1. Times(have) /\ Times(now2)
    BY SeriesFacts
<1>2. \A x : x \in fills <=> x \in Stamps(s) /\ \E t, u \in have : Filled(x, t, u)
    BY FillsFacts
<1>3. \A x : x \in Fills(q, s) => \E t, u \in now2 :
          x \in Stamps(s) /\ Adjacent(now2, t, u) /\ x \in Interior(t, u) /\ Cardinality(Interior(t, u)) <= FillMax
    BY FillsFacts
<1>4. have \subseteq Int /\ now2 \subseteq Int /\ now2 = have \cup fills
    BY <1>1 DEF Times
<1> HIDE DEF have, fills, now2
<1>5. ASSUME NEW x \in fills
      PROVE  \E t, u \in have : /\ Filled(x, t, u) /\ x \in Int /\ t < x /\ x < u
                                /\ \E k \in Nat \ {0} : x = t + Hour * k
    <2>1. PICK t, u \in have : Filled(x, t, u)
        BY <1>2
    <2>2. t \in Int /\ u \in Int /\ x \in Interior(t, u)
        BY <1>4, <2>1
    <2> HIDE DEF Filled
    <2> QED BY <2>1, <2>2, InteriorFacts
<1>6. fills \cap have = {}
    <2> SUFFICES ASSUME NEW x \in fills, x \in have PROVE FALSE
        OBVIOUS
    <2>1. PICK t, u \in have : Filled(x, t, u) /\ t < x /\ x < u
        BY <1>5
    <2> QED BY <2>1 DEF Adjacent
<1>7. ASSUME NEW x, x \in Fills(q, s) PROVE FALSE
    <2>1. PICK t2, u2 \in now2 : /\ x \in Stamps(s) /\ Adjacent(now2, t2, u2) /\ x \in Interior(t2, u2)
                                 /\ Cardinality(Interior(t2, u2)) <= FillMax
        BY <1>3, <1>7
    <2>2. t2 \in Int /\ u2 \in Int
        BY <1>4
    <2>3. x \in Int /\ t2 < x /\ x < u2 /\ x + Hour <= u2
        BY <2>1, <2>2, InteriorFacts
    <2>4. PICK k2 \in Nat \ {0} : x = t2 + Hour * k2
        BY <2>1, <2>2, InteriorFacts
    <2>5. x \notin now2
        BY <2>1, <2>3 DEF Adjacent
    <2>6. (\E a \in have : a < x) /\ (\E b \in have : x < b)
        <3>1. \E a \in have : a < x
            <4>1. CASE t2 \in have
                BY <2>3, <4>1
            <4>2. CASE t2 \in fills
                <5>1. PICK a \in have : a < t2
                    BY <1>5, <4>2
                <5> QED BY <1>4, <2>2, <2>3, <5>1
            <4> QED BY <1>4, <4>1, <4>2
        <3>2. \E b \in have : x < b
            <4>1. CASE u2 \in have
                BY <2>3, <4>1
            <4>2. CASE u2 \in fills
                <5>1. PICK b \in have : u2 < b
                    BY <1>5, <4>2
                <5> QED BY <1>4, <2>2, <2>3, <5>1
            <4> QED BY <1>4, <4>1, <4>2
        <3> QED BY <3>1, <3>2
    <2>7. PICK t, u \in have : Adjacent(have, t, u) /\ t < x /\ x < u
        <3>1. x \in Int \ have
            BY <1>4, <2>3, <2>5
        <3> QED BY <1>1, <2>6, <3>1, AdjacentExists
    <2>8. t \in Int /\ u \in Int /\ t \in now2 /\ u \in now2
        BY <1>4
    <2>9. t <= t2 /\ u2 <= u
        BY <2>1, <2>2, <2>3, <2>7, <2>8 DEF Adjacent
    \* a fill between t and u is of this gap
    <2>10. ASSUME NEW y \in fills, t < y, y < u
           PROVE  /\ Cardinality(Interior(t, u)) <= FillMax
                  /\ \E k \in Nat \ {0} : y = t + Hour * k
        <3>1. PICK v, w \in have : /\ Filled(y, v, w) /\ y \in Int /\ v < y /\ y < w
                                   /\ \E k \in Nat \ {0} : y = v + Hour * k
            BY <1>5
        <3>2. t = v /\ u = w
            BY <1>4, <2>7, <2>10, <3>1, AdjacentIsUnique
        <3> QED BY <3>1, <3>2
    <2>11. t2 = t \/ (t2 \in fills /\ t < t2)
        BY <1>4, <2>2, <2>3, <2>7, <2>8, <2>9 DEF Adjacent
    <2>12. u2 = u \/ (u2 \in fills /\ u2 < u)
        BY <1>4, <2>2, <2>3, <2>7, <2>8, <2>9 DEF Adjacent
    <2>13. x \in Interior(t, u)
        <3>1. PICK k \in Nat \ {0} : x = t + Hour * k
            <4>1. CASE t2 = t
                BY <2>4, <4>1
            <4>2. CASE t2 \in fills /\ t < t2
                <5>1. t2 < u
                    BY <2>2, <2>3, <2>7, <2>8
                <5>2. PICK j \in Nat \ {0} : t2 = t + Hour * j
                    BY <2>10, <4>2, <5>1
                <5>3. x = t + Hour * (j + k2) /\ j + k2 \in Nat \ {0}
                    BY <2>4, <2>8, <5>2 DEF Hour
                <5> QED BY <5>3
            <4> QED BY <2>11, <4>1, <4>2
        <3>2. t + Hour * k + Hour <= u
            BY <2>2, <2>3, <2>8, <2>9, <3>1 DEF Hour
        <3> QED BY <2>8, <3>1, <3>2, InsideInterior
    <2>14. Cardinality(Interior(t, u)) <= FillMax
        <3>1. CASE t2 = t /\ u2 = u
            BY <2>1, <3>1
        <3>2. CASE t2 # t
            <4>1. t2 \in fills /\ t < t2 /\ t2 < u
                BY <2>2, <2>3, <2>7, <2>8, <2>11, <3>2
            <4> QED BY <2>10, <4>1
        <3>3. CASE u2 # u
            <4>1. u2 \in fills /\ t < u2 /\ u2 < u
                BY <2>2, <2>3, <2>7, <2>8, <2>12, <3>3
            <4> QED BY <2>10, <4>1
        <3> QED BY <3>1, <3>2, <3>3
    <2>15. x \in fills
        BY <1>2, <2>1, <2>7, <2>13, <2>14
    <2> QED BY <1>4, <2>5, <2>15
<1> QED BY <1>6, <1>7 DEF have, fills

\* The candles a backfill puts together, and the times it says it took them.
Merged(p, s) ==
    {CandleAt(p, t) : t \in Stamps(p)} \cup {CandleAt(s, t) : t \in Fills(p, s)}

Provenance(p, s, existing, at) ==
    [t \in ((DOMAIN existing) \cup Fills(p, s)) \cap (Stamps(p) \cup Fills(p, s)) |->
        IF t \in DOMAIN existing THEN existing[t] ELSE at]

\* What a backfill returns: the merged candles as a series, with their provenance.
LEMMA BackfillFacts ==
    ASSUME NEW p, NEW s, IsSeries(p), IsSeries(s), NEW existing, NEW at
    PROVE  LET b == Backfill(p, s, existing, at)
               both == Stamps(p) \cup Fills(p, s)
           IN  /\ b = [series |-> SetToSeries(Merged(p, s)), provenance |-> Provenance(p, s, existing, at)]
               /\ IsSeries(b.series) /\ Stamps(b.series) = both
               /\ {CandleAt(b.series, t) : t \in both} = Merged(p, s)
<1> DEFINE have == Stamps(p)
           fills == Fills(p, s)
           merged == Merged(p, s)
           b == Backfill(p, s, existing, at)
           series == SetToSeries(merged)
<1>1. b = [series |-> series, provenance |-> Provenance(p, s, existing, at)]
    BY DEF Backfill, Merged, Provenance
<1>2. Times(have) /\ Times(Stamps(s))
    BY SeriesFacts
<1>3. fills \subseteq Stamps(s)
    BY DEF Fills
<1>4. fills \cap have = {}
    <2>1. \A x : x \in fills => \E t, u \in have : Adjacent(have, t, u) /\ x \in Interior(t, u)
        BY FillsFacts
    <2>2. ASSUME NEW x \in fills, x \in have PROVE FALSE
        <3>1. PICK t, u \in have : Adjacent(have, t, u) /\ x \in Interior(t, u)
            BY <2>1
        <3>2. t < x /\ x < u
            BY <1>2, <3>1, InteriorFacts DEF Times
        <3> QED BY <2>2, <3>1, <3>2 DEF Adjacent
    <2> QED BY <2>2
<1>5. /\ \A t \in have : CandleAt(p, t).at = t
      /\ \A t \in fills : CandleAt(s, t).at = t
    BY <1>3, SeriesFacts
<1>6. have \cup fills \subseteq Int /\ IsFiniteSet(have \cup fills)
    <2>1. IsFiniteSet(fills)
        BY <1>2, <1>3, FS_Subset DEF Times
    <2>2. IsFiniteSet(have \cup fills)
        BY <1>2, <2>1, FS_Union DEF Times
    <2> QED BY <1>2, <1>3, <2>2 DEF Times
<1> DEFINE candle == [t \in have \cup fills |-> IF t \in have THEN CandleAt(p, t) ELSE CandleAt(s, t)]
<1>7. merged = {candle[t] : t \in have \cup fills}
    BY <1>4 DEF Merged
<1>8. \A t \in have \cup fills : candle[t].at = t
    BY <1>5
<1> HIDE DEF have, fills, merged, candle, b, series
<1>9. DOMAIN candle = have \cup fills
    BY DEF candle
<1>10. IsStamped(merged)
    BY <1>6, <1>7, <1>8 DEF IsStamped
<1>11. IsFiniteSet(merged)
    <2>1. candle \in Surjection(have \cup fills, merged)
        BY <1>7, <1>9 DEF Surjection, candle
    <2> QED BY <1>6, <2>1, FS_Surjection
<1>12. /\ IsSeries(series) /\ Stamps(series) = {c.at : c \in merged}
       /\ \A c \in merged : CandleAt(series, c.at) = c
    BY <1>10, <1>11, SetToSeriesFacts DEF series
<1>13. {c.at : c \in merged} = have \cup fills
    BY <1>7, <1>8
<1>14. \A t \in have \cup fills : CandleAt(series, t) = candle[t]
    BY <1>7, <1>8, <1>12
<1>15. {CandleAt(series, t) : t \in have \cup fills} = merged
    BY <1>7, <1>14
<1>16. b.series = series
    BY <1>1
<1> QED BY <1>1, <1>12, <1>13, <1>15, <1>16 DEF have, fills, merged, b, series

\* Backfilling what was backfilled changes nothing, whatever the providers deliver: the
\* one thing verify_backfill_idempotency tries on one delivery at a time.
THEOREM BackfillIsIdempotent ==
    ASSUME NEW p, NEW s, IsSeries(p), IsSeries(s), NEW at
    PROVE  Idempotent(p, s, at)
<1> DEFINE first == Backfill(p, s, NoProvenance, at)
           q == first.series
           filled == first.provenance
           fills == Fills(p, s)
           both == Stamps(p) \cup fills
           second == Backfill(q, s, filled, at)
<1>1. DOMAIN NoProvenance = {}
    BY DEF NoProvenance
<1>2. /\ first = [series |-> SetToSeries(Merged(p, s)), provenance |-> Provenance(p, s, NoProvenance, at)]
      /\ IsSeries(q) /\ Stamps(q) = both
      /\ {CandleAt(q, t) : t \in both} = Merged(p, s)
    BY BackfillFacts
<1>3. q = SetToSeries(Merged(p, s)) /\ filled = [t \in fills |-> at]
    BY <1>1, <1>2 DEF Provenance
<1>4. Fills(q, s) = {}
    BY <1>2, NothingLeftToFill
<1> HIDE DEF first, q, filled, both, fills
<1>5. second = [series |-> SetToSeries(Merged(q, s)), provenance |-> Provenance(q, s, filled, at)]
    BY <1>2, BackfillFacts
<1>6. Merged(q, s) = Merged(p, s)
    BY <1>2, <1>4 DEF Merged
<1> HIDE DEF second
<1>7. Provenance(q, s, filled, at) = filled
    <2>1. DOMAIN filled = fills /\ fills \subseteq Stamps(q)
        BY <1>2, <1>3 DEF both
    <2>2. ((DOMAIN filled) \cup {}) \cap (Stamps(q) \cup {}) = DOMAIN filled
        BY <2>1
    <2>3. filled = [t \in DOMAIN filled |-> filled[t]]
        BY <1>3
    <2> QED BY <1>4, <2>2, <2>3 DEF Provenance
<1>8. second = [series |-> q, provenance |-> filled]
    BY <1>3, <1>4, <1>5, <1>6, <1>7
<1>9. first = [series |-> q, provenance |-> filled]
    BY <1>2 DEF q, filled
<1>10. second = first
    BY <1>8, <1>9
<1> QED BY <1>10 DEF Idempotent, first, second, q, filled

-----------------------------------------------------------------------------
(* The report. *)

\* A report of any delivery is right.
LEMMA ReportIsRight ==
    ASSUME NEW delivery \in Deliveries, NEW existing, NEW alerting, report' = ReportOf(delivery, existing, alerting)
    PROVE  FillsAreRecorded'
<1> DEFINE p == delivery.primary
           s == delivery.secondary
           b == Backfill(p, s, existing, now)
           fills == Fills(p, s)
           both == Stamps(p) \cup fills
<1>1. IsSeries(p) /\ IsSeries(s)
    BY QualityAssumption DEF IsSeries
<1>2. /\ report'.delivery = delivery /\ report'.existing = existing
      /\ report'.series = b.series /\ report'.provenance = b.provenance
      /\ report'.idempotent = Idempotent(p, s, now)
    BY DEF ReportOf, Reconciliation
<1>3. /\ b.provenance = [t \in ((DOMAIN existing) \cup fills) \cap both |->
                            IF t \in DOMAIN existing THEN existing[t] ELSE now]
      /\ Stamps(b.series) = both
    <2>1. /\ b = [series |-> SetToSeries(Merged(p, s)), provenance |-> Provenance(p, s, existing, now)]
          /\ Stamps(b.series) = both
        BY <1>1, BackfillFacts
    <2>2. Provenance(p, s, existing, now) = [t \in ((DOMAIN existing) \cup fills) \cap both |->
                                                IF t \in DOMAIN existing THEN existing[t] ELSE now]
        BY DEF Provenance
    <2> HIDE DEF b, both, fills
    <2> QED BY <2>1, <2>2
<1>4. Idempotent(p, s, now)
    BY <1>1, BackfillIsIdempotent
<1> HIDE DEF b, fills, both, p, s
<1>5. /\ DOMAIN b.provenance = ((DOMAIN existing) \cup fills) \cap both
      /\ \A t \in (DOMAIN existing) \cap both : b.provenance[t] = existing[t]
    BY <1>3
<1>6. both \ Stamps(p) \subseteq fills /\ fills \subseteq both
    BY DEF both
<1> QED BY <1>2, <1>3, <1>4, <1>5, <1>6 DEF FillsAreRecorded, p

\* Every report says what it filled, keeps what an earlier one said of it, and would fill
\* nothing again, whatever is delivered and whether or not the earlier report is at hand.
THEOREM FillsAreTold == QualitySpec => []FillsAreRecorded
<1>1. QualityInit => FillsAreRecorded
    BY DEF QualityInit, NoReport, FillsAreRecorded
<1>2. ASSUME FillsAreRecorded, [QualityNext]_qualityVars PROVE FillsAreRecorded'
    <2>1. CASE \E d \in Deliveries, existing \in {NoProvenance, report.provenance} :
                   Reconcile(d, existing) \/ ReconcileKilled(d, existing)
        <3>1. PICK d \in Deliveries, existing \in {NoProvenance, report.provenance} :
                       \/ report' = ReportOf(d, existing, "over")
                       \/ report' = ReportOf(d, existing, "killed")
            BY <2>1 DEF Reconcile, ReconcileKilled
        <3>2. CASE report' = ReportOf(d, existing, "over")
            BY <3>2, ReportIsRight
        <3>3. CASE report' = ReportOf(d, existing, "killed")
            BY <3>3, ReportIsRight
        <3> QED BY <3>1, <3>2, <3>3
    <2>2. CASE report' = report
        BY <1>2, <2>2 DEF FillsAreRecorded
    <2> QED BY <1>2, <2>1, <2>2
            DEF QualityNext, Work, ObserveSources, LoseAlertState, LoseHealthState, QualityTick, qualityVars, gaps
<1> QED BY <1>1, <1>2, PTL DEF QualitySpec

-----------------------------------------------------------------------------
(* What is retained of the optional sources. *)

\* A sequence, whatever its elements are.
IsSequence(s) == Len(s) \in Nat /\ s = [i \in 1 .. Len(s) |-> s[i]]

\* What Append returns.
LEMMA AppendFacts ==
    ASSUME NEW s, IsSequence(s), NEW x
    PROVE  /\ IsSequence(Append(s, x)) /\ Len(Append(s, x)) = Len(s) + 1
           /\ DOMAIN s = 1 .. Len(s) /\ DOMAIN Append(s, x) = 1 .. Len(s) + 1
           /\ \A i \in 1 .. Len(s) + 1 : Append(s, x)[i] = IF i = Len(s) + 1 THEN x ELSE s[i]
<1> DEFINE T == {s[i] : i \in 1 .. Len(s)} \cup {x}
<1>1. s \in [1 .. Len(s) -> T] /\ Len(s) \in Nat /\ x \in T
    BY DEF IsSequence
<1> HIDE DEF T
<1>2. s \in Seq(T) /\ x \in T
    BY <1>1
<1>3. /\ Append(s, x) \in Seq(T) /\ Len(Append(s, x)) = Len(s) + 1
      /\ DOMAIN s = 1 .. Len(s) /\ DOMAIN Append(s, x) = 1 .. Len(s) + 1
    BY <1>2
<1>4. \A i \in 1 .. Len(s) + 1 : Append(s, x)[i] = IF i = Len(s) + 1 THEN x ELSE s[i]
    BY <1>1, <1>2
<1>5. Append(s, x) = [i \in 1 .. Len(s) + 1 |-> Append(s, x)[i]]
    <2> DEFINE a == Append(s, x)
               n == Len(s) + 1
    <2>1. a \in Seq(T) /\ DOMAIN a = 1 .. n
        BY <1>3
    <2> HIDE DEF a, n
    <2>2. a = [i \in 1 .. n |-> a[i]]
        BY <2>1
    <2> QED BY <2>2 DEF a, n
<1>6. IsSequence(Append(s, x))
    BY <1>1, <1>3, <1>5 DEF IsSequence
<1> QED BY <1>3, <1>4, <1>6

\* Records in the order of observation, none of them of the future.
InOrder(rs, at) ==
    /\ IsSequence(rs)
    /\ \A i \in 1 .. Len(rs) : rs[i].observed \in Int /\ rs[i].observed <= at
    /\ \A i, j \in 1 .. Len(rs) : i <= j => rs[i].observed <= rs[j].observed

\* The records from some place on.
From(rs, m) == [j \in 1 .. Len(rs) - m |-> rs[m + j]]

\* How many records there are from there on.
LEMMA FromFacts ==
    ASSUME NEW rs, Len(rs) \in Nat, NEW m \in 0 .. Len(rs)
    PROVE  IsSequence(From(rs, m)) /\ Len(From(rs, m)) = Len(rs) - m
<1>1. Len(rs) - m \in Nat
    OBVIOUS
<1>2. Len(From(rs, m)) = Len(rs) - m
    BY <1>1 DEF From
<1> QED BY <1>1, <1>2 DEF From, IsSequence

\* Records go by age, so that the oldest go and the others stay as they are.
LEMMA KeptFacts ==
    ASSUME NEW at \in Int, NEW rs, InOrder(rs, at)
    PROVE  \E m \in 0 .. Len(rs) :
               /\ \A i \in 1 .. m : at - rs[i].observed > RetentionMinutes
               /\ Kept(rs, at) = From(rs, m)
<1> DEFINE L == Len(rs)
           Held(r) == at - r.observed <= RetentionMinutes /\ r.observed <= at
           old == {n \in 0 .. L : \A i \in 1 .. n : ~Held(rs[i])}
<1>1. L \in Nat /\ \A i \in 1 .. L : rs[i].observed \in Int /\ rs[i].observed <= at
    BY DEF InOrder, IsSequence
<1>2. RetentionMinutes \in Int
    BY RetentionAssumption
<1>3. PICK m \in old : \A n \in old : n <= m
    <2>1. old \in SUBSET (0 .. L) /\ 0 \in old
        BY <1>1
    <2>2. IsFiniteSet(0 .. L)
        <3>1. 0 \in Int /\ L \in Int
            BY <1>1
        <3> HIDE DEF L
        <3> QED BY <3>1, FS_Interval
    <2> HIDE DEF old
    <2>3. IsFiniteSet(old)
        BY <2>1, <2>2, FS_Subset
    <2>4. old \in SUBSET Int /\ old # {}
        BY <1>1, <2>1
    <2> QED BY <2>3, <2>4, GreatestExists
<1>4. m \in 0 .. L /\ \A i \in 1 .. m : ~Held(rs[i])
    OBVIOUS
<1>5. ASSUME NEW i \in m + 1 .. L PROVE Held(rs[i])
    <2>1. m + 1 \in 1 .. L /\ i \in 1 .. L /\ m + 1 <= i /\ m + 1 \in 0 .. L
        BY <1>1, <1>4
    <2>2. m + 1 \notin old
        BY <1>3, <1>4
    <2>3. Held(rs[m + 1])
        BY <1>1, <1>4, <2>1, <2>2
    <2>4. rs[m + 1].observed <= rs[i].observed
        BY <2>1 DEF InOrder
    <2> QED BY <1>1, <1>2, <2>1, <2>3, <2>4
<1> DEFINE g == [n \in 0 .. L |-> IF n <= m THEN <<>> ELSE [j \in 1 .. n - m |-> rs[m + j]]]
           Step(f) == [n \in 0 .. L |-> IF n = 0 THEN <<>>
                                        ELSE IF Held(rs[n]) THEN Append(f[n - 1], rs[n]) ELSE f[n - 1]]
<1>6. ASSUME NEW n \in 1 .. L
      PROVE  g[n] = IF Held(rs[n]) THEN Append(g[n - 1], rs[n]) ELSE g[n - 1]
    <2>0. n - 1 \in 0 .. L /\ n \in 0 .. L
        BY <1>1
    <2>1. CASE n <= m
        <3>1. ~Held(rs[n]) /\ g[n] = <<>> /\ g[n - 1] = <<>>
            BY <1>1, <1>4, <2>0, <2>1
        <3> QED BY <3>1
    <2>2. CASE n > m
        <3> DEFINE before == [j \in 1 .. (n - 1) - m |-> rs[m + j]]
        <3>1. Held(rs[n])
            BY <1>1, <1>4, <1>5, <2>2
        <3>2. g[n - 1] = before
            <4>1. CASE n - 1 = m
                <5>1. (n - 1) - m = 0
                    BY <1>1, <1>4, <4>1
                <5>2. before = <<>>
                    BY <5>1
                <5> QED BY <2>0, <4>1, <5>2
            <4>2. CASE n - 1 # m
                BY <1>1, <1>4, <2>0, <2>2, <4>2
            <4> QED BY <4>1, <4>2
        <3>3. g[n] = [j \in 1 .. n - m |-> rs[m + j]]
            BY <1>1, <1>4, <2>0, <2>2
        <3>4. (n - 1) - m \in Nat /\ n - m = ((n - 1) - m) + 1 /\ m + (n - m) = n
            BY <1>1, <1>4, <2>2
        <3>5. IsSequence(before) /\ Len(before) = (n - 1) - m
            BY <3>4 DEF IsSequence
        <3>6. Append(before, rs[n]) = [j \in 1 .. n - m |-> rs[m + j]]
            <4>1. /\ IsSequence(Append(before, rs[n])) /\ Len(Append(before, rs[n])) = n - m
                  /\ \A j \in 1 .. n - m : Append(before, rs[n])[j] = IF j = n - m THEN rs[n] ELSE before[j]
                BY <3>4, <3>5, AppendFacts
            <4>2. \A j \in 1 .. n - m : Append(before, rs[n])[j] = rs[m + j]
                <5> TAKE j \in 1 .. n - m
                <5>1. CASE j = n - m
                    BY <3>4, <4>1, <5>1
                <5>2. CASE j # n - m
                    <6>1. j \in 1 .. (n - 1) - m
                        BY <3>4, <5>2
                    <6> QED BY <4>1, <5>2, <6>1
                <5> QED BY <5>1, <5>2
            <4> HIDE DEF before
            <4> QED BY <4>1, <4>2 DEF IsSequence
        <3> HIDE DEF before, g
        <3> QED BY <3>1, <3>2, <3>3, <3>6
    <2> QED BY <1>1, <1>4, <2>1, <2>2
<1>7. g[0] = <<>>
    BY <1>1, <1>4
<1>8. g = Step(g)
    <2>1. \A n \in 0 .. L : g[n] = IF n = 0 THEN <<>>
                                   ELSE IF Held(rs[n]) THEN Append(g[n - 1], rs[n]) ELSE g[n - 1]
        <3> TAKE n \in 0 .. L
        <3> HIDE DEF g, Held
        <3>1. CASE n = 0
            BY <1>7, <3>1
        <3>2. CASE n # 0
            <4>1. n \in 1 .. L
                BY <1>1, <3>2
            <4> QED BY <1>6, <3>2, <4>1
        <3> QED BY <3>1, <3>2
    <2>2. g = [n \in 0 .. L |-> g[n]]
        OBVIOUS
    <2> HIDE DEF g, Held
    <2> QED BY <2>1, <2>2
<1> DEFINE f == CHOOSE h : h = Step(h)
<1>9. Kept(rs, at) = f[L]
    BY DEF Kept
<1>10. f = Step(f)
    BY <1>8
<1> HIDE DEF g, f, L, Held
<1>11. /\ f[0] = <<>>
       /\ \A n \in 1 .. L : f[n] = IF Held(rs[n]) THEN Append(f[n - 1], rs[n]) ELSE f[n - 1]
    <2>1. \A n \in 0 .. L : f[n] = Step(f)[n]
        BY <1>10
    <2> QED BY <1>1, <2>1
<1>12. f[L] = g[L]
    <2> DEFINE S == {n \in 0 .. L : f[n] = g[n]}
    <2>1. 0 \in S
        BY <1>1, <1>7, <1>11
    <2>2. ASSUME NEW n \in S, n < L PROVE n + 1 \in S
        <3>1. n + 1 \in 1 .. L /\ (n + 1) - 1 = n /\ n + 1 \in 0 .. L /\ f[n] = g[n]
            BY <1>1, <2>2
        <3>2. f[n + 1] = g[n + 1]
            BY <1>6, <1>11, <3>1
        <3> QED BY <3>1, <3>2
    <2>3. S \in SUBSET (0 .. L)
        OBVIOUS
    <2> HIDE DEF S
    <2>4. L \in S
        BY <1>1, <2>1, <2>2, <2>3, UpTo
    <2> QED BY <2>4 DEF S
<1>13. g[L] = From(rs, m)
    <2>1. CASE L <= m
        <3>1. L - m = 0
            BY <1>1, <1>4, <2>1
        <3>2. From(rs, m) = <<>>
            BY <3>1 DEF From, L
        <3> QED BY <1>1, <2>1, <3>2 DEF g
    <2>2. CASE ~(L <= m)
        BY <1>1, <2>2 DEF g, From, L
    <2> QED BY <2>1, <2>2
<1>14. \A i \in 1 .. m : at - rs[i].observed > RetentionMinutes
    <2> TAKE i \in 1 .. m
    <2>1. i \in 1 .. L /\ ~Held(rs[i])
        BY <1>1, <1>4
    <2> QED BY <1>1, <1>2, <2>1 DEF Held
<1> QED BY <1>4, <1>9, <1>12, <1>13, <1>14 DEF L

\* Records go by number, and then as many as may be are left.
LEMMA LastRecordsFacts ==
    ASSUME NEW rs, IsSequence(rs)
    PROVE  \E m \in 0 .. Len(rs) :
               /\ LastRecords(rs) = From(rs, m)
               /\ m > 0 => Len(rs) - m = MaxRecords
<1>1. MaxRecords \in Nat \ {0} /\ Len(rs) \in Nat
    BY RetentionAssumption DEF IsSequence
<1>2. CASE Len(rs) <= MaxRecords
    <2>1. From(rs, 0) = rs
        BY <1>1 DEF From, IsSequence
    <2> QED BY <1>1, <1>2, <2>1 DEF LastRecords
<1>3. CASE ~(Len(rs) <= MaxRecords)
    <2> DEFINE m == Len(rs) - MaxRecords
               T == {rs[i] : i \in 1 .. Len(rs)}
    <2>1. m \in 0 .. Len(rs) /\ Len(rs) - m = MaxRecords
        BY <1>1, <1>3
    <2>2. rs \in Seq(T)
        BY <1>1 DEF IsSequence
    <2>3. LastRecords(rs) = SubSeq(rs, m + 1, Len(rs))
        BY <1>3 DEF LastRecords
    <2> HIDE DEF T
    <2>4. SubSeq(rs, m + 1, Len(rs)) = From(rs, m)
        BY <1>1, <2>1, <2>2 DEF From
    <2> QED BY <2>1, <2>3, <2>4
<1> QED BY <1>2, <1>3

\* A record put behind the first n of them.
Inserted(rs, n, record) ==
    [i \in 1 .. Len(rs) + 1 |-> IF i <= n THEN rs[i] ELSE IF i = n + 1 THEN record ELSE rs[i - 1]]

\* What is where, then.
LEMMA InsertedFacts ==
    ASSUME NEW rs, IsSequence(rs), NEW n \in 0 .. Len(rs), NEW record
    PROVE  /\ IsSequence(Inserted(rs, n, record)) /\ Len(Inserted(rs, n, record)) = Len(rs) + 1
           /\ \A i \in 1 .. n : Inserted(rs, n, record)[i] = rs[i]
           /\ Inserted(rs, n, record)[n + 1] = record
           /\ \A i \in n + 1 .. Len(rs) : Inserted(rs, n, record)[i + 1] = rs[i]
<1>1. Len(rs) \in Nat /\ Len(rs) + 1 \in Nat
    BY DEF IsSequence
<1>2. DOMAIN Inserted(rs, n, record) = 1 .. Len(rs) + 1
    BY DEF Inserted
<1>3. Len(Inserted(rs, n, record)) = Len(rs) + 1
    BY <1>1 DEF Inserted
<1>4. IsSequence(Inserted(rs, n, record))
    BY <1>1, <1>3 DEF IsSequence, Inserted
<1>5. /\ \A i \in 1 .. n : Inserted(rs, n, record)[i] = rs[i]
      /\ Inserted(rs, n, record)[n + 1] = record
    BY <1>1 DEF Inserted
<1>6. \A i \in n + 1 .. Len(rs) : Inserted(rs, n, record)[i + 1] = rs[i]
    <2> TAKE i \in n + 1 .. Len(rs)
    <2>1. i + 1 \in 1 .. Len(rs) + 1 /\ ~(i + 1 <= n) /\ i + 1 # n + 1 /\ (i + 1) - 1 = i
        BY <1>1
    <2> QED BY <2>1 DEF Inserted
<1> QED BY <1>3, <1>4, <1>5, <1>6

\* What a concatenation holds.
LEMMA ConcatFacts ==
    ASSUME NEW T, NEW a \in Seq(T), NEW b \in Seq(T)
    PROVE  /\ a \o b \in Seq(T) /\ Len(a \o b) = Len(a) + Len(b)
           /\ \A i \in 1 .. Len(a) + Len(b) :
                  (a \o b)[i] = IF i <= Len(a) THEN a[i] ELSE b[i - Len(a)]
OBVIOUS

\* What InsertAt returns.
LEMMA InsertAtFacts ==
    ASSUME NEW rs, IsSequence(rs), NEW n \in 0 .. Len(rs), NEW record
    PROVE  InsertAt(rs, n + 1, record) = Inserted(rs, n, record)
<1> DEFINE T == {rs[i] : i \in 1 .. Len(rs)} \cup {record}
           L == Len(rs)
           one == <<record>>
           front == SubSeq(rs, 1, n)
           back == SubSeq(rs, n + 1, L)
           both == front \o one
           all == both \o back
<1>1. rs \in [1 .. L -> T] /\ L \in Nat /\ record \in T /\ n \in Nat /\ n <= L
    BY DEF IsSequence
<1>2. InsertAt(rs, n + 1, record) = all
    <2>1. (n + 1) - 1 = n
        BY <1>1
    <2> QED BY <2>1 DEF InsertAt
<1> HIDE DEF T, L
<1>3. rs \in Seq(T) /\ Len(rs) = L
    BY <1>1 DEF L
<1>4. /\ front \in Seq(T) /\ Len(front) = n
      /\ \A i \in 1 .. n : front[i] = rs[i]
    BY <1>1, <1>3
<1>5. /\ back \in Seq(T) /\ Len(back) = L - n
      /\ \A i \in 1 .. L - n : back[i] = rs[n + i]
    BY <1>1, <1>3
<1>6. one \in Seq(T) /\ Len(one) = 1 /\ one[1] = record
    BY <1>1
<1> HIDE DEF front, back, one
<1>7. /\ both \in Seq(T) /\ Len(both) = n + 1
      /\ \A i \in 1 .. n + 1 : both[i] = IF i <= n THEN front[i] ELSE one[i - n]
    BY <1>1, <1>4, <1>6, ConcatFacts
<1> HIDE DEF both
<1>8. /\ all \in Seq(T) /\ Len(all) = L + 1
      /\ \A i \in 1 .. L + 1 : all[i] = IF i <= n + 1 THEN both[i] ELSE back[i - (n + 1)]
    <2>1. (n + 1) + (L - n) = L + 1
        BY <1>1
    <2>2. /\ all \in Seq(T) /\ Len(all) = Len(both) + Len(back)
          /\ \A i \in 1 .. Len(both) + Len(back) :
                 all[i] = IF i <= Len(both) THEN both[i] ELSE back[i - Len(both)]
        BY <1>5, <1>7, ConcatFacts
    <2> HIDE DEF all
    <2> QED BY <1>5, <1>7, <2>1, <2>2
<1> HIDE DEF all
<1>9. ASSUME NEW i \in 1 .. L + 1
      PROVE  all[i] = IF i <= n THEN rs[i] ELSE IF i = n + 1 THEN record ELSE rs[i - 1]
    <2>1. CASE i <= n
        <3>1. i \in 1 .. n /\ i \in 1 .. n + 1 /\ i <= n + 1
            BY <1>1, <2>1
        <3> QED BY <1>4, <1>7, <1>8, <2>1, <3>1
    <2>2. CASE i = n + 1
        <3>1. i \in 1 .. n + 1 /\ i <= n + 1 /\ ~(i <= n) /\ i - n = 1
            BY <1>1, <2>2
        <3> QED BY <1>6, <1>7, <1>8, <2>2, <3>1
    <2>3. CASE ~(i <= n) /\ i # n + 1
        <3>1. /\ ~(i <= n + 1) /\ i - (n + 1) \in 1 .. L - n
              /\ n + (i - (n + 1)) = i - 1
            BY <1>1, <2>3
        <3> QED BY <1>5, <1>8, <2>3, <3>1
    <2> QED BY <2>1, <2>2, <2>3
<1>10. all = [i \in 1 .. L + 1 |-> all[i]]
    BY <1>1, <1>8
<1>11. all = [i \in 1 .. L + 1 |-> IF i <= n THEN rs[i] ELSE IF i = n + 1 THEN record ELSE rs[i - 1]]
    BY <1>9, <1>10
<1> QED BY <1>2, <1>11 DEF Inserted, L

\* A record is placed before those that it precedes, and behind the others.
LEMMA PlacedFacts ==
    ASSUME NEW rs, IsSequence(rs), NEW record
    PROVE  \E n \in 0 .. Len(rs) :
               /\ Placed(rs, record) = Inserted(rs, n, record)
               /\ \A i \in 1 .. Len(rs) : i > n => Precedes(record, rs[i])
<1> DEFINE before == {i \in DOMAIN rs : ~Precedes(record, rs[i])}
           places == {0} \cup before
           n == Max(places)
<1>1. Len(rs) \in Nat /\ DOMAIN rs = 1 .. Len(rs)
    BY DEF IsSequence
<1>2. IsFiniteSet(0 .. Len(rs))
    <2>1. 0 \in Int /\ Len(rs) \in Int
        BY <1>1
    <2> QED BY <2>1, FS_Interval
<1>3. places \in SUBSET (0 .. Len(rs)) /\ places \in SUBSET Int /\ places # {}
    BY <1>1
<1>4. Placed(rs, record) = InsertAt(rs, n + 1, record)
    BY DEF Placed
<1> HIDE DEF places
<1>5. IsFiniteSet(places)
    BY <1>2, <1>3, FS_Subset
<1>6. n \in places /\ \A i \in places : i <= n
    BY <1>3, <1>5, MaxFacts
<1> HIDE DEF n
<1>7. n \in 0 .. Len(rs)
    BY <1>3, <1>6
<1>8. ASSUME NEW i \in 1 .. Len(rs), i > n PROVE Precedes(record, rs[i])
    <2>1. ~(i <= n)
        BY <1>7, <1>8
    <2>2. i \notin before
        BY <1>6, <2>1 DEF places
    <2> QED BY <1>1, <2>2
<1>9. InsertAt(rs, n + 1, record) = Inserted(rs, n, record)
    BY <1>7, InsertAtFacts
<1> QED BY <1>4, <1>7, <1>8, <1>9

\* What is retained is the end of what there was with the new observation, unless it
\* repeats one of the same minute: k records come before it, and the first of its
\* origin among them.  The oldest records went by age or because there were too many.
Extends(ext, rs, k, snapshots, origin, at) ==
    /\ InOrder(ext, at)
    /\ \A i \in 1 .. k : ext[i] = rs[i]
    /\ ext[Len(ext)].observed = at
    /\ \/ /\ Len(ext) = Len(rs) /\ k = Len(rs)
          /\ \E i \in 1 .. Len(rs) : rs[i].origin = origin
       \/ /\ Len(ext) = Len(rs) + 1
          /\ \A i \in k + 1 .. Len(rs) : ext[i + 1] = rs[i]
          /\ \A i \in 1 .. Len(rs) : rs[i].origin = origin /\ rs[i].revision = 1 => i <= k
          /\ (\A i \in 1 .. Len(rs) : rs[i].origin # origin) => ext[k + 1].revision = 1
          /\ ext[k + 1].origin = origin /\ ext[k + 1].snapshots = snapshots
          /\ ext[k + 1].observed = at

\* An observation that repeats one of the same minute adds nothing.
LEMMA RepeatExtends ==
    ASSUME NEW at \in Int, NEW rs, InOrder(rs, at), NEW origin, NEW snapshots,
           NEW i \in 1 .. Len(rs), rs[i].origin = origin, rs[i].observed = at
    PROVE  Extends(rs, rs, Len(rs), snapshots, origin, at)
<1>1. Len(rs) \in Nat /\ Len(rs) \in 1 .. Len(rs) /\ i <= Len(rs)
    BY DEF InOrder, IsSequence
<1>2. rs[Len(rs)].observed \in Int /\ rs[Len(rs)].observed <= at /\ at <= rs[Len(rs)].observed
    BY <1>1 DEF InOrder
<1>3. rs[Len(rs)].observed = at
    BY <1>2
<1> QED BY <1>3 DEF Extends

\* A record of now, before others of now only, leaves the records in order.
LEMMA InsertedInOrder ==
    ASSUME NEW at \in Int, NEW rs, InOrder(rs, at), NEW k \in 0 .. Len(rs),
           NEW record, record.observed = at,
           \A i \in 1 .. Len(rs) : i > k => rs[i].observed = at
    PROVE  /\ InOrder(Inserted(rs, k, record), at)
           /\ Inserted(rs, k, record)[Len(rs) + 1].observed = at
<1> DEFINE ext == Inserted(rs, k, record)
           Old(i) == IF i <= k THEN i ELSE i - 1
<1>1. IsSequence(rs) /\ Len(rs) \in Nat /\ k \in Nat /\ k <= Len(rs)
    BY DEF InOrder, IsSequence
<1>2. /\ IsSequence(ext) /\ Len(ext) = Len(rs) + 1
      /\ \A i \in 1 .. Len(ext) : ext[i] = IF i = k + 1 THEN record ELSE rs[Old(i)]
    <2>1. IsSequence(ext) /\ Len(ext) = Len(rs) + 1
        BY <1>1, InsertedFacts
    <2>2. ASSUME NEW i \in 1 .. Len(rs) + 1
          PROVE  ext[i] = IF i = k + 1 THEN record ELSE rs[Old(i)]
        BY <1>1 DEF Inserted
    <2> QED BY <2>1, <2>2
<1> HIDE DEF ext
<1>3. ASSUME NEW i \in 1 .. Len(ext), i # k + 1
      PROVE  Old(i) \in 1 .. Len(rs) /\ ext[i] = rs[Old(i)] /\ (i > k => Old(i) > k \/ i = k + 1)
    BY <1>1, <1>2, <1>3
<1>4. ASSUME NEW i \in 1 .. Len(ext)
      PROVE  /\ ext[i].observed \in Int /\ ext[i].observed <= at
             /\ i > k => ext[i].observed = at
    <2>1. CASE i = k + 1
        BY <1>2, <2>1
    <2>2. CASE i # k + 1
        <3>1. rs[Old(i)].observed \in Int /\ rs[Old(i)].observed <= at
            BY <1>3, <2>2 DEF InOrder
        <3> QED BY <1>3, <2>2, <3>1
    <2> QED BY <2>1, <2>2
<1>5. ASSUME NEW i \in 1 .. Len(ext), NEW j \in 1 .. Len(ext), i <= j
      PROVE  ext[i].observed <= ext[j].observed
    <2>1. CASE j > k
        BY <1>4, <2>1
    <2>2. CASE ~(j > k)
        <3>1. i <= k /\ j <= k /\ i \in 1 .. Len(rs) /\ j \in 1 .. Len(rs) /\ i # k + 1 /\ j # k + 1
            BY <1>1, <1>2, <1>5, <2>2
        <3>2. ext[i] = rs[i] /\ ext[j] = rs[j]
            BY <1>3, <3>1
        <3> QED BY <1>5, <3>1, <3>2 DEF InOrder
    <2> QED BY <2>1, <2>2
<1>6. InOrder(ext, at)
    BY <1>2, <1>4, <1>5 DEF InOrder
<1>7. ext[Len(rs) + 1].observed = at
    <2>1. Len(rs) + 1 \in 1 .. Len(ext) /\ Len(rs) + 1 > k
        BY <1>1, <1>2
    <2> QED BY <1>4, <2>1
<1> QED BY <1>6, <1>7 DEF ext

\* Dropping records twice.
LEMMA FromFrom ==
    ASSUME NEW rs, Len(rs) \in Nat, NEW m \in 0 .. Len(rs), NEW k \in 0 .. Len(From(rs, m))
    PROVE  m + k \in 0 .. Len(rs) /\ From(From(rs, m), k) = From(rs, m + k)
<1>1. Len(From(rs, m)) = Len(rs) - m
    BY FromFacts
<1>2. m + k \in 0 .. Len(rs) /\ (Len(rs) - m) - k = Len(rs) - (m + k)
    BY <1>1
<1>3. \A j \in 1 .. Len(rs) - (m + k) : From(rs, m)[k + j] = rs[(m + k) + j]
    <2> TAKE j \in 1 .. Len(rs) - (m + k)
    <2>1. k + j \in 1 .. Len(rs) - m /\ m + (k + j) = (m + k) + j
        BY <1>1
    <2> QED BY <2>1 DEF From
<1>4. From(From(rs, m), k) = [j \in 1 .. (Len(rs) - m) - k |-> From(rs, m)[k + j]]
    BY <1>1 DEF From
<1> QED BY <1>2, <1>3, <1>4 DEF From

\* Dropping m records and inserting one behind the n next.
LEMMA InsertedFrom ==
    ASSUME NEW rs, IsSequence(rs), NEW m \in 0 .. Len(rs), NEW n \in 0 .. Len(rs) - m, NEW x
    PROVE  Inserted(From(rs, m), n, x) = From(Inserted(rs, m + n, x), m)
<1> DEFINE L == Len(rs)
           kept == From(rs, m)
           ext == Inserted(rs, m + n, x)
<1>1. L \in Nat /\ m \in Nat /\ n \in Nat /\ m + n \in 0 .. L /\ L - m \in Nat /\ (L + 1) - m = (L - m) + 1
    BY DEF IsSequence
<1>2. Len(kept) = L - m
    BY <1>1, FromFacts
<1>3. Len(ext) = L + 1
    BY <1>1, InsertedFacts
<1>4. Inserted(kept, n, x) =
          [i \in 1 .. (L - m) + 1 |-> IF i <= n THEN kept[i] ELSE IF i = n + 1 THEN x ELSE kept[i - 1]]
    BY <1>2 DEF Inserted
<1>5. From(ext, m) = [i \in 1 .. (L - m) + 1 |-> ext[m + i]]
    BY <1>1, <1>3 DEF From
<1>6. ASSUME NEW i \in 1 .. (L - m) + 1
      PROVE  ext[m + i] = IF i <= n THEN kept[i] ELSE IF i = n + 1 THEN x ELSE kept[i - 1]
    <2>1. m + i \in 1 .. L + 1
        BY <1>1
    <2>2. ext[m + i] = IF m + i <= m + n THEN rs[m + i] ELSE IF m + i = (m + n) + 1 THEN x ELSE rs[(m + i) - 1]
        BY <2>1 DEF Inserted
    <2>3. CASE i <= n
        <3>1. i \in 1 .. L - m /\ m + i <= m + n
            BY <1>1, <2>3
        <3> QED BY <2>2, <2>3, <3>1 DEF From
    <2>4. CASE i = n + 1
        BY <1>1, <2>2, <2>4
    <2>5. CASE ~(i <= n) /\ i # n + 1
        <3>1. /\ i - 1 \in 1 .. L - m /\ m + (i - 1) = (m + i) - 1
              /\ ~(m + i <= m + n) /\ m + i # (m + n) + 1
            BY <1>1, <2>5
        <3>2. kept[i - 1] = rs[m + (i - 1)]
            BY <3>1 DEF From
        <3> QED BY <2>2, <2>5, <3>1, <3>2
    <2> QED BY <2>3, <2>4, <2>5
<1> HIDE DEF kept, ext
<1> QED BY <1>4, <1>5, <1>6 DEF kept, ext

\* What retain_optional_sources keeps: all but the e oldest.
IsRetained(new, ext, e, rs, k, snapshots, origin, at) ==
    /\ k \in 0 .. Len(rs) /\ Extends(ext, rs, k, snapshots, origin, at)
    /\ e \in 0 .. Len(ext) /\ e < Len(ext) /\ new = From(ext, e)
    /\ \A i \in 1 .. e : at - ext[i].observed > RetentionMinutes \/ Len(ext) - e = MaxRecords

LEMMA RetainFacts ==
    ASSUME NEW at \in Int, NEW rs, InOrder(rs, at), NEW origin \in Int, NEW snapshots
    PROVE  \E ext, k, e : IsRetained(Retain(rs, snapshots, origin, at), ext, e, rs, k, snapshots, origin, at)
<1>1. Len(rs) \in Nat /\ IsSequence(rs) /\ MaxRecords \in Nat \ {0}
    BY RetentionAssumption DEF InOrder, IsSequence
<1>2. PICK m \in 0 .. Len(rs) : /\ \A i \in 1 .. m : at - rs[i].observed > RetentionMinutes
                                /\ Kept(rs, at) = From(rs, m)
    BY KeptFacts
<1> DEFINE kept == From(rs, m)
           revisions == {i \in DOMAIN kept : kept[i].origin = origin}
           record == [origin |-> origin, observed |-> at, revision |-> Cardinality(revisions) + 1,
                      snapshots |-> snapshots]
           duplicate == \E i \in revisions : kept[i].snapshots = snapshots /\ kept[i].observed = at
           held == IF duplicate THEN kept ELSE Placed(kept, record)
<1>3. Retain(rs, snapshots, origin, at) = LastRecords(held)
    BY <1>2 DEF Retain
<1>4. PICK ext : \E k \in 0 .. Len(rs) : /\ Extends(ext, rs, k, snapshots, origin, at) /\ m <= k
                                         /\ held = From(ext, m) /\ m < Len(ext)
    <2>1. CASE duplicate
        <3>1. PICK i \in DOMAIN kept : kept[i].origin = origin /\ kept[i].observed = at
            BY <2>1
        <3>2. i \in 1 .. Len(rs) - m /\ kept[i] = rs[m + i] /\ m + i \in 1 .. Len(rs)
            BY <1>1, <3>1 DEF From
        <3>3. Extends(rs, rs, Len(rs), snapshots, origin, at)
            BY <3>1, <3>2, RepeatExtends
        <3>4. m < Len(rs) /\ Len(rs) \in 0 .. Len(rs) /\ m <= Len(rs)
            BY <1>1, <3>2
        <3> QED BY <2>1, <3>3, <3>4
    <2>2. CASE ~duplicate
        <3>1. IsSequence(kept) /\ Len(kept) = Len(rs) - m
            BY <1>1, FromFacts
        <3>2. \A j \in 1 .. Len(rs) - m : kept[j] = rs[m + j]
            BY DEF From
        <3>3. DOMAIN kept = 1 .. Len(rs) - m
            BY DEF From
        <3>4. PICK n \in 0 .. Len(kept) :
                  /\ Placed(kept, record) = Inserted(kept, n, record)
                  /\ \A i \in 1 .. Len(kept) : i > n => Precedes(record, kept[i])
            BY <3>1, PlacedFacts
        <3> DEFINE k == m + n
                   ext == Inserted(rs, k, record)
        <3>5. k \in 0 .. Len(rs) /\ k \in Nat /\ n \in 0 .. Len(rs) - m /\ m <= k
            BY <1>1, <3>1
        <3>6. held = From(ext, m)
            BY <1>1, <2>2, <3>1, <3>4, <3>5, InsertedFrom
        <3>7. record.observed = at /\ record.origin = origin /\ record.snapshots = snapshots
            OBVIOUS
        <3>8. IsFiniteSet(revisions) /\ record.revision = Cardinality(revisions) + 1
            <4>1. 1 \in Int /\ Len(rs) - m \in Int
                BY <1>1
            <4>2. IsFiniteSet(1 .. Len(rs) - m)
                BY <4>1, FS_Interval
            <4>3. revisions \subseteq 1 .. Len(rs) - m
                BY <3>3
            <4> QED BY <4>2, <4>3, FS_Subset
        <3>9. \A i \in 1 .. Len(rs) : i > k => Precedes(record, rs[i])
            <4> TAKE i \in 1 .. Len(rs)
            <4> HAVE i > k
            <4>1. i - m \in 1 .. Len(rs) - m /\ m + (i - m) = i /\ i - m > n
                BY <1>1, <3>5
            <4> QED BY <3>1, <3>2, <3>4, <4>1
        <3> HIDE DEF record, duplicate, held, kept, revisions
        <3>10. \A i \in 1 .. Len(rs) : i > k => rs[i].observed = at
            <4> TAKE i \in 1 .. Len(rs)
            <4> HAVE i > k
            <4>1. Precedes(record, rs[i]) /\ rs[i].observed \in Int /\ rs[i].observed <= at
                BY <3>9 DEF InOrder
            <4> QED BY <3>7, <4>1 DEF Precedes
        <3>11. /\ IsSequence(ext) /\ Len(ext) = Len(rs) + 1
               /\ \A i \in 1 .. k : ext[i] = rs[i]
               /\ ext[k + 1] = record
               /\ \A i \in k + 1 .. Len(rs) : ext[i + 1] = rs[i]
            BY <1>1, <3>5, InsertedFacts
        <3>12. InOrder(ext, at) /\ ext[Len(rs) + 1].observed = at
            BY <1>1, <3>5, <3>7, <3>10, InsertedInOrder
        <3> HIDE DEF ext
        <3>13. ASSUME NEW i \in 1 .. Len(rs), rs[i].origin = origin, rs[i].revision = 1
               PROVE  i <= k
            <4>1. SUFFICES ASSUME i > k PROVE FALSE
                BY <3>5
            <4>2. Precedes(record, rs[i]) /\ rs[i].observed = at
                BY <3>9, <3>10, <4>1
            <4>3. record.revision < 1
                BY <3>7, <3>13, <4>2 DEF Precedes
            <4>4. Cardinality(revisions) \in Nat
                BY <3>8, FS_CardinalityType
            <4> QED BY <3>8, <4>3, <4>4
        <3>14. ASSUME \A i \in 1 .. Len(rs) : rs[i].origin # origin PROVE record.revision = 1
            <4>1. revisions = {}
                <5>1. \A j \in 1 .. Len(rs) - m : m + j \in 1 .. Len(rs)
                    BY <1>1
                <5> QED BY <3>2, <3>3, <3>14, <5>1 DEF revisions
            <4> QED BY <3>8, <4>1, FS_EmptySet
        <3>15. Extends(ext, rs, k, snapshots, origin, at)
            BY <3>7, <3>11, <3>12, <3>13, <3>14 DEF Extends
        <3>16. m < Len(ext)
            BY <1>1, <3>11
        <3> QED BY <3>5, <3>6, <3>15, <3>16
    <2> QED BY <2>1, <2>2
<1> HIDE DEF held, kept, duplicate
<1>5. PICK k \in 0 .. Len(rs) : /\ Extends(ext, rs, k, snapshots, origin, at) /\ m <= k
                               /\ held = From(ext, m) /\ m < Len(ext)
    BY <1>4
<1>6. /\ Len(ext) \in Nat /\ m \in 0 .. Len(ext)
      /\ \A i \in 1 .. m : ext[i] = rs[i]
    <2>1. \A i \in 1 .. k : ext[i] = rs[i]
        BY <1>5 DEF Extends
    <2>2. Len(ext) = Len(rs) \/ Len(ext) = Len(rs) + 1
        BY <1>5 DEF Extends
    <2> QED BY <1>1, <1>5, <2>1, <2>2
<1>7. IsSequence(held) /\ Len(held) = Len(ext) - m
    BY <1>5, <1>6, FromFacts
<1>8. PICK j \in 0 .. Len(held) : /\ LastRecords(held) = From(held, j)
                                  /\ j > 0 => Len(held) - j = MaxRecords
    BY <1>7, LastRecordsFacts
<1>9. m + j \in 0 .. Len(ext) /\ From(held, j) = From(ext, m + j)
    BY <1>5, <1>6, <1>8, FromFrom
<1>10. m + j < Len(ext)
    BY <1>1, <1>5, <1>6, <1>7, <1>8
<1>11. ASSUME NEW i \in 1 .. m + j
       PROVE  at - ext[i].observed > RetentionMinutes \/ Len(ext) - (m + j) = MaxRecords
    <2>1. CASE j > 0
        BY <1>1, <1>6, <1>7, <1>8, <2>1
    <2>2. CASE ~(j > 0)
        <3>1. i \in 1 .. m
            BY <1>1, <1>6, <1>7, <1>8, <2>2
        <3> QED BY <1>2, <1>6, <3>1
    <2> QED BY <2>1, <2>2
<1>12. Retain(rs, snapshots, origin, at) = From(ext, m + j)
    BY <1>3, <1>8, <1>9
<1> QED BY <1>5, <1>9, <1>10, <1>11, <1>12 DEF IsRetained

\* What the first run of an origin observed is held still, or the window let go of
\* it, or as many records as may be are as late as it.
IsHeld(rs, o, first) ==
    \E i \in 1 .. Len(rs) :
        /\ rs[i].origin = o /\ rs[i].revision = 1 /\ rs[i].snapshots = first.snapshots
        /\ \A j \in 1 .. Len(rs) : rs[j].origin = o => i <= j

IsOutdated(rs, first) == Len(rs) > 0 /\ rs[Len(rs)].observed - first.at > RetentionMinutes

IsCrowdedOut(rs, first) ==
    MaxRecords <= Len(rs) /\ rs[Len(rs) - MaxRecords + 1].observed >= first.at

Accounted(rs, o, first) == IsHeld(rs, o, first) \/ IsOutdated(rs, first) \/ IsCrowdedOut(rs, first)

\* The inductive invariant of the retention: every record is of an origin that was
\* observed first no later, and the first observations are accounted for.
RetentionOf(rs, first, at) ==
    /\ InOrder(rs, at)
    /\ \A i \in 1 .. Len(rs) :
          rs[i].origin \in DOMAIN first /\ first[rs[i].origin].at <= rs[i].observed
    /\ \A o \in DOMAIN first :
          first[o].at \in Int /\ first[o].at <= at /\ Accounted(rs, o, first[o])

RetentionInv == now \in Int /\ RetentionOf(records, firstSeen, now)

\* Where the old records are among the new ones.
Place(i, k, ext, rs) == IF i <= k THEN i ELSE i + (Len(ext) - Len(rs))

\* They keep their order, and nothing else but the new record is there.
LEMMA PlaceFacts ==
    ASSUME NEW at \in Int, NEW rs, IsSequence(rs), NEW origin, NEW snapshots,
           NEW ext, NEW k \in 0 .. Len(rs), Extends(ext, rs, k, snapshots, origin, at)
    PROVE  /\ \A i \in 1 .. Len(rs) :
                 /\ Place(i, k, ext, rs) \in 1 .. Len(ext) /\ ext[Place(i, k, ext, rs)] = rs[i]
                 /\ Place(i, k, ext, rs) <= i + (Len(ext) - Len(rs))
           /\ \A i, j \in 1 .. Len(rs) : i <= j => Place(i, k, ext, rs) <= Place(j, k, ext, rs)
           /\ \A j \in 1 .. Len(ext) : \/ \E i \in 1 .. Len(rs) : j = Place(i, k, ext, rs)
                                       \/ j = k + 1 /\ Len(ext) = Len(rs) + 1
<1>1. Len(rs) \in Nat /\ k \in Nat /\ k <= Len(rs)
    BY DEF IsSequence
<1>2. \A i \in 1 .. k : ext[i] = rs[i]
    BY DEF Extends
<1>3. CASE Len(ext) = Len(rs) /\ k = Len(rs)
    <2>1. \A i \in 1 .. Len(rs) : Place(i, k, ext, rs) = i
        BY <1>1, <1>3 DEF Place
    <2> QED BY <1>1, <1>2, <1>3, <2>1
<1>4. CASE Len(ext) = Len(rs) + 1 /\ \A i \in k + 1 .. Len(rs) : ext[i + 1] = rs[i]
    <2>1. \A i \in 1 .. Len(rs) : Place(i, k, ext, rs) = IF i <= k THEN i ELSE i + 1
        BY <1>1, <1>4 DEF Place
    <2>2. ASSUME NEW i \in 1 .. Len(rs)
          PROVE  /\ Place(i, k, ext, rs) \in 1 .. Len(ext) /\ ext[Place(i, k, ext, rs)] = rs[i]
                 /\ Place(i, k, ext, rs) <= i + (Len(ext) - Len(rs))
        <3>1. CASE i <= k
            BY <1>1, <1>2, <1>4, <2>1, <3>1
        <3>2. CASE ~(i <= k)
            <4>1. i \in k + 1 .. Len(rs)
                BY <1>1, <3>2
            <4> QED BY <1>1, <1>4, <2>1, <3>2, <4>1
        <3> QED BY <3>1, <3>2
    <2>3. \A i, j \in 1 .. Len(rs) : i <= j => Place(i, k, ext, rs) <= Place(j, k, ext, rs)
        BY <1>1, <2>1
    <2>4. ASSUME NEW j \in 1 .. Len(ext), j # k + 1
          PROVE  \E i \in 1 .. Len(rs) : j = Place(i, k, ext, rs)
        <3>1. CASE j <= k
            <4>1. j \in 1 .. Len(rs) /\ j = Place(j, k, ext, rs)
                BY <1>1, <1>4, <2>1, <3>1
            <4> QED BY <4>1
        <3>2. CASE ~(j <= k)
            <4>1. j - 1 \in 1 .. Len(rs) /\ ~(j - 1 <= k) /\ (j - 1) + 1 = j
                BY <1>1, <1>4, <2>4, <3>2
            <4>2. j = Place(j - 1, k, ext, rs)
                BY <2>1, <4>1
            <4> QED BY <4>1, <4>2
        <3> QED BY <3>1, <3>2
    <2> QED BY <1>4, <2>2, <2>3, <2>4
<1> QED BY <1>3, <1>4 DEF Extends

\* An observation that was accounted for still is when another one is retained.
LEMMA StillAccounted ==
    ASSUME NEW at \in Int, NEW rs, InOrder(rs, at), NEW origin, NEW snapshots,
           NEW ext, NEW k \in 0 .. Len(rs), NEW e \in 0 .. Len(ext),
           Extends(ext, rs, k, snapshots, origin, at), e < Len(ext),
           \A i \in 1 .. e : at - ext[i].observed > RetentionMinutes \/ Len(ext) - e = MaxRecords,
           NEW o, NEW first, first.at \in Int, Accounted(rs, o, first),
           \A i \in 1 .. Len(rs) : rs[i].origin = o => first.at <= rs[i].observed
    PROVE  Accounted(From(ext, e), o, first)
<1> DEFINE L == Len(rs)
           M == Len(ext)
           new == From(ext, e)
           place == [i \in 1 .. L |-> Place(i, k, ext, rs)]
<1>1. /\ L \in Nat /\ M \in Nat /\ L <= M /\ e \in Nat /\ e < M /\ k \in Nat /\ k <= L
      /\ MaxRecords \in Nat \ {0} /\ RetentionMinutes \in Int
    <2>1. Len(ext) = Len(rs) \/ Len(ext) = Len(rs) + 1
        BY DEF Extends
    <2>2. L \in Nat
        BY DEF InOrder, IsSequence
    <2> QED BY <2>1, <2>2, RetentionAssumption
<1>2. /\ \A i \in 1 .. M : ext[i].observed \in Int /\ ext[i].observed <= at
      /\ \A i, j \in 1 .. M : i <= j => ext[i].observed <= ext[j].observed
      /\ ext[M].observed = at
    <2>1. InOrder(ext, at) /\ ext[M].observed = at
        BY DEF Extends
    <2> QED BY <2>1 DEF InOrder
<1>3. /\ \A i \in 1 .. L : /\ place[i] \in 1 .. M /\ ext[place[i]] = rs[i]
                           /\ place[i] <= i + (M - L)
      /\ \A i, j \in 1 .. L : i <= j => place[i] <= place[j]
      /\ \A j \in 1 .. M : (\E i \in 1 .. L : j = place[i]) \/ (j = k + 1 /\ M = L + 1)
    <2>1. IsSequence(rs)
        BY DEF InOrder
    <2> QED BY <2>1, PlaceFacts
<1>4. \A i \in 1 .. k : place[i] = i
    BY <1>1 DEF Place
<1>5. /\ Len(new) = M - e /\ M - e \in Nat \ {0}
      /\ \A j \in 1 .. M - e : new[j] = ext[e + j] /\ e + j \in 1 .. M
    BY <1>1, FromFacts DEF From
<1> HIDE DEF place
<1>6. new[Len(new)] = ext[M]
    BY <1>1, <1>5
<1>7. ASSUME NEW i \in 1 .. e, first.at <= ext[i].observed
      PROVE  Accounted(new, o, first)
    <2>0. i \in 1 .. M
        BY <1>1
    <2>1. CASE at - ext[i].observed > RetentionMinutes
        <3>1. at - first.at > RetentionMinutes
            BY <1>1, <1>2, <1>7, <2>0, <2>1
        <3> QED BY <1>2, <1>5, <1>6, <3>1 DEF IsOutdated, Accounted
    <2>2. CASE M - e = MaxRecords
        <3>1. new[Len(new) - MaxRecords + 1] = ext[e + 1] /\ e + 1 \in 1 .. M
            BY <1>1, <1>5, <2>2
        <3>2. ext[i].observed <= ext[e + 1].observed
            BY <1>1, <1>2, <2>0, <3>1
        <3>3. ext[e + 1].observed >= first.at
            BY <1>2, <1>7, <2>0, <3>1, <3>2
        <3> QED BY <1>1, <1>5, <2>2, <3>1, <3>3 DEF IsCrowdedOut, Accounted
    <2> QED BY <2>1, <2>2
<1>8. CASE IsHeld(rs, o, first)
    <2>1. PICK i \in 1 .. L : /\ rs[i].origin = o /\ rs[i].revision = 1
                              /\ rs[i].snapshots = first.snapshots
                              /\ \A j \in 1 .. L : rs[j].origin = o => i <= j
        BY <1>8 DEF IsHeld
    <2>2. place[i] \in 1 .. M /\ ext[place[i]] = rs[i] /\ first.at <= ext[place[i]].observed
        BY <1>3, <2>1
    <2>3. CASE place[i] <= e
        <3>1. place[i] \in 1 .. e
            BY <1>1, <2>2, <2>3
        <3> QED BY <1>7, <2>2, <3>1
    <2>4. CASE ~(place[i] <= e)
        <3>1. place[i] - e \in 1 .. M - e /\ e + (place[i] - e) = place[i]
            BY <1>1, <2>2, <2>4
        <3>2. new[place[i] - e] = rs[i]
            BY <1>5, <2>2, <3>1
        <3>3. ASSUME NEW j \in 1 .. M - e, new[j].origin = o PROVE place[i] - e <= j
            <4>1. e + j \in 1 .. M /\ ext[e + j].origin = o
                BY <1>5, <3>3
            <4>2. place[i] <= e + j
                <5>1. CASE \E h \in 1 .. L : e + j = place[h]
                    <6>1. PICK h \in 1 .. L : e + j = place[h]
                        BY <5>1
                    <6>2. i <= h
                        BY <1>3, <2>1, <4>1, <6>1
                    <6> QED BY <1>3, <6>1, <6>2
                <5>2. CASE e + j = k + 1 /\ M = L + 1
                    <6>1. /\ ext[k + 1].origin = origin
                          /\ \A h \in 1 .. L : rs[h].origin = origin /\ rs[h].revision = 1 => h <= k
                        BY <1>1, <5>2 DEF Extends
                    <6>2. i <= k
                        BY <2>1, <4>1, <5>2, <6>1
                    <6>3. place[i] = i
                        BY <1>1, <1>4, <6>2
                    <6> QED BY <1>1, <5>2, <6>2, <6>3
                <5> QED BY <1>3, <4>1, <5>1, <5>2
            <4> QED BY <1>1, <2>2, <4>2
        <3>4. IsHeld(new, o, first)
            BY <1>5, <2>1, <3>1, <3>2, <3>3 DEF IsHeld
        <3> QED BY <3>4 DEF Accounted
    <2> QED BY <2>3, <2>4
<1>9. CASE IsOutdated(rs, first)
    <2>1. L \in 1 .. L
        BY <1>1, <1>9 DEF IsOutdated
    <2>2. rs[L].observed <= at /\ rs[L].observed \in Int
        BY <2>1 DEF InOrder
    <2>3. at - first.at > RetentionMinutes
        BY <1>1, <1>9, <2>2 DEF IsOutdated
    <2> QED BY <1>2, <1>5, <1>6, <2>3 DEF IsOutdated, Accounted
<1>10. CASE IsCrowdedOut(rs, first)
    <2> DEFINE n == L - MaxRecords + 1
               late == M - MaxRecords + 1
    <2>1. MaxRecords <= L /\ rs[n].observed >= first.at
        BY <1>10 DEF IsCrowdedOut
    <2>2. n \in 1 .. L /\ late \in 1 .. M /\ late = n + (M - L)
        BY <1>1, <2>1
    <2>3. place[n] \in 1 .. M /\ ext[place[n]] = rs[n] /\ place[n] <= late
        BY <1>3, <2>2
    <2>4. first.at <= ext[place[n]].observed
        BY <1>2, <2>1, <2>3
    <2> HIDE DEF n
    <2>5. CASE place[n] <= e
        <3>1. place[n] \in 1 .. e
            BY <1>1, <2>3, <2>5
        <3> QED BY <1>7, <2>4, <3>1
    <2>6. CASE ~(place[n] <= e)
        <3>1. late - e \in 1 .. M - e /\ e + (late - e) = late /\ MaxRecords <= M - e
              /\ late - e = (M - e) - MaxRecords + 1
            BY <1>1, <2>2, <2>3, <2>6
        <3>2. new[late - e] = ext[late]
            BY <1>5, <3>1
        <3>3. ext[place[n]].observed <= ext[late].observed
            BY <1>2, <2>2, <2>3
        <3>4. new[late - e].observed >= first.at
            BY <1>2, <2>2, <2>3, <2>4, <3>2, <3>3
        <3> QED BY <1>5, <3>1, <3>4 DEF IsCrowdedOut, Accounted
    <2> QED BY <2>5, <2>6
<1> QED BY <1>8, <1>9, <1>10 DEF Accounted

\* Nothing is retained at first.
LEMMA EmptyIsRetained == ASSUME NEW at PROVE RetentionOf(<<>>, NothingSeen, at)
BY DEF RetentionOf, NothingSeen, InOrder, IsSequence

LEMMA RetentionStarts ==
    ASSUME QualityInit
    PROVE  RetentionInv
BY EmptyIsRetained DEF QualityInit, RetentionInv

\* Time alone lets go of nothing.
LEMMA RetentionWaits ==
    ASSUME RetentionInv, NEW step \in Nat, now' = now + step, UNCHANGED <<records, firstSeen>>
    PROVE  RetentionInv'
<1>1. now' \in Int /\ now <= now' /\ now \in Int
    BY DEF RetentionInv, RetentionOf
<1>2. InOrder(records, now')
    BY <1>1 DEF RetentionInv, RetentionOf, InOrder
<1>3. \A o \in DOMAIN firstSeen : firstSeen[o].at \in Int /\ firstSeen[o].at <= now'
    BY <1>1 DEF RetentionInv, RetentionOf
<1> QED BY <1>1, <1>2, <1>3 DEF RetentionInv, RetentionOf

\* A run retains its observation of an origin, the first one or another.
LEMMA RetainingKeeps ==
    ASSUME now \in Int, NEW rs, NEW first, RetentionOf(rs, first, now), NEW origin \in Int, NEW snapshots
    PROVE  RetentionOf(Retain(rs, snapshots, origin, now), WithOrigin(first, origin, snapshots), now)
<1> DEFINE new == Retain(rs, snapshots, origin, now)
           later == WithOrigin(first, origin, snapshots)
<1>1. /\ new = Retain(rs, snapshots, origin, now)
      /\ later = [o \in (DOMAIN first) \cup {origin} |->
                     IF o \in DOMAIN first THEN first[o] ELSE [at |-> now, snapshots |-> snapshots]]
    BY DEF WithOrigin
<1> HIDE DEF new, later
<1>2. now \in Int /\ InOrder(rs, now) /\ IsSequence(rs) /\ Len(rs) \in Nat
    BY DEF RetentionOf, InOrder, IsSequence
<1>3. PICK ext, k, e : IsRetained(Retain(rs, snapshots, origin, now), ext, e, rs, k, snapshots, origin, now)
    BY <1>2, RetainFacts
<1>4. /\ k \in 0 .. Len(rs) /\ e \in 0 .. Len(ext)
      /\ Extends(ext, rs, k, snapshots, origin, now)
      /\ e < Len(ext)
      /\ new = From(ext, e)
      /\ \A i \in 1 .. e : \/ now - ext[i].observed > RetentionMinutes
                           \/ Len(ext) - e = MaxRecords
    BY <1>1, <1>3 DEF IsRetained
<1> DEFINE place == [i \in 1 .. Len(rs) |-> Place(i, k, ext, rs)]
<1>5. InOrder(ext, now)
    BY <1>4 DEF Extends
<1>6. \/ Len(ext) = Len(rs) /\ \E i \in 1 .. Len(rs) : rs[i].origin = origin
      \/ /\ Len(ext) = Len(rs) + 1
         /\ (\A i \in 1 .. Len(rs) : rs[i].origin # origin) => ext[k + 1].revision = 1
         /\ ext[k + 1].origin = origin /\ ext[k + 1].snapshots = snapshots
         /\ ext[k + 1].observed = now
    BY <1>4 DEF Extends
<1>7. Len(ext) \in Nat /\ e \in Nat /\ e < Len(ext)
    BY <1>2, <1>4, <1>6
<1>8. /\ \A i \in 1 .. Len(rs) : place[i] \in 1 .. Len(ext) /\ ext[place[i]] = rs[i]
      /\ \A j \in 1 .. Len(ext) : \/ \E i \in 1 .. Len(rs) : j = place[i]
                                  \/ j = k + 1 /\ Len(ext) = Len(rs) + 1
    BY <1>2, <1>4, PlaceFacts
<1> HIDE DEF place
<1>9. /\ IsSequence(From(ext, e)) /\ Len(From(ext, e)) = Len(ext) - e
      /\ \A j \in 1 .. Len(ext) - e : From(ext, e)[j] = ext[e + j] /\ e + j \in 1 .. Len(ext)
    BY <1>7, FromFacts DEF From
<1>10. InOrder(new, now)
    <2>1. \A j \in 1 .. Len(ext) - e :
              From(ext, e)[j].observed \in Int /\ From(ext, e)[j].observed <= now
        BY <1>5, <1>9 DEF InOrder
    <2>2. ASSUME NEW i \in 1 .. Len(ext) - e, NEW j \in 1 .. Len(ext) - e, i <= j
          PROVE  From(ext, e)[i].observed <= From(ext, e)[j].observed
        <3>1. e + i <= e + j
            BY <1>7, <2>2
        <3> QED BY <1>5, <1>9, <3>1 DEF InOrder
    <2> QED BY <1>1, <1>4, <1>9, <2>1, <2>2 DEF InOrder
<1>11. /\ DOMAIN later = DOMAIN first \cup {origin}
       /\ \A o \in DOMAIN first : later[o] = first[o]
       /\ origin \notin DOMAIN first =>
             later[origin].at = now /\ later[origin].snapshots = snapshots
    BY <1>1
<1>12. \A o \in DOMAIN later : later[o].at \in Int /\ later[o].at <= now
    <2> TAKE o \in DOMAIN later
    <2>1. CASE o \in DOMAIN first
        BY <1>11, <2>1 DEF RetentionOf
    <2>2. CASE o \notin DOMAIN first
        BY <1>2, <1>11, <2>2
    <2> QED BY <2>1, <2>2
<1>13. ASSUME NEW j \in 1 .. Len(ext)
       PROVE  ext[j].origin \in DOMAIN later /\ later[ext[j].origin].at <= ext[j].observed
    <2>1. CASE \E i \in 1 .. Len(rs) : j = place[i]
        <3>1. PICK i \in 1 .. Len(rs) : j = place[i]
            BY <2>1
        <3>2. /\ ext[j] = rs[i] /\ rs[i].origin \in DOMAIN first
              /\ first[rs[i].origin].at <= rs[i].observed
            BY <1>8, <3>1 DEF RetentionOf
        <3> QED BY <1>11, <3>2
    <2>2. CASE j = k + 1 /\ Len(ext) = Len(rs) + 1
        <3>1. ext[j].origin = origin /\ ext[j].observed = now
            BY <1>2, <1>6, <2>2
        <3> QED BY <1>11, <1>12, <3>1
    <2> QED BY <1>8, <2>1, <2>2
<1>14. \A i \in 1 .. Len(new) :
          /\ new[i].origin \in DOMAIN later
          /\ later[new[i].origin].at <= new[i].observed
    BY <1>4, <1>9, <1>13
<1>15. ASSUME NEW o \in DOMAIN later PROVE Accounted(new, o, later[o])
    <2>1. CASE o \in DOMAIN first
        <3>1. first[o].at \in Int /\ Accounted(rs, o, first[o])
            BY <2>1 DEF RetentionOf
        <3>2. \A i \in 1 .. Len(rs) :
                  rs[i].origin = o => first[o].at <= rs[i].observed
            BY DEF RetentionOf
        <3>3. Accounted(From(ext, e), o, first[o])
            BY <1>2, <1>4, <3>1, <3>2, StillAccounted
        <3> QED BY <1>4, <1>11, <2>1, <3>3
    <2>2. CASE o \notin DOMAIN first
        <3>1. /\ o = origin /\ later[o].snapshots = snapshots
              /\ later[o].at = now
            BY <1>11, <2>2
        <3>2. \A i \in 1 .. Len(rs) : rs[i].origin # o
            BY <2>2 DEF RetentionOf
        <3>3. /\ Len(ext) = Len(rs) + 1 /\ k + 1 \in 1 .. Len(ext)
              /\ ext[k + 1].origin = o /\ ext[k + 1].snapshots = snapshots
              /\ ext[k + 1].revision = 1 /\ ext[k + 1].observed = now
            <4>1. ~\E i \in 1 .. Len(rs) : rs[i].origin = origin
                BY <3>1, <3>2
            <4>2. /\ Len(ext) = Len(rs) + 1
                  /\ ext[k + 1].origin = o /\ ext[k + 1].snapshots = snapshots
                  /\ ext[k + 1].revision = 1 /\ ext[k + 1].observed = now
                BY <1>6, <3>1, <4>1
            <4>3. k + 1 \in 1 .. Len(ext)
                BY <1>2, <1>4, <4>2
            <4> QED BY <4>2, <4>3
        <3>4. CASE e < k + 1
            <4> DEFINE n == (k + 1) - e
            <4>1. n \in 1 .. Len(ext) - e /\ e + n = k + 1
                BY <1>2, <1>7, <3>3, <3>4
            <4>2. From(ext, e)[n] = ext[k + 1]
                BY <1>9, <4>1
            <4>3. ASSUME NEW j \in 1 .. Len(ext) - e, From(ext, e)[j].origin = o PROVE n <= j
                <5>1. From(ext, e)[j] = ext[e + j] /\ e + j \in 1 .. Len(ext)
                    BY <1>9
                <5>2. ~\E i \in 1 .. Len(rs) : e + j = place[i]
                    BY <1>8, <3>2, <4>3, <5>1
                <5>3. e + j = k + 1
                    BY <1>8, <5>1, <5>2
                <5> QED BY <1>7, <5>3
            <4>4. IsHeld(From(ext, e), o, later[o])
                BY <1>9, <3>1, <3>3, <4>1, <4>2, <4>3 DEF IsHeld
            <4> QED BY <1>4, <4>4 DEF Accounted
        \* too many rs of this very minute are of later origins
        <3>5. CASE ~(e < k + 1)
            <4>1. k + 1 \in 1 .. e
                BY <1>2, <1>7, <3>3, <3>5
            <4>2. MaxRecords \in Nat \ {0} /\ RetentionMinutes \in Nat /\ now - now = 0
                BY <1>2, RetentionAssumption
            <4>3. Len(ext) - e = MaxRecords
                BY <1>4, <3>3, <4>1, <4>2
            <4>4. e + 1 \in 1 .. Len(ext) /\ k + 1 <= e + 1 /\ 1 \in 1 .. Len(ext) - e
                BY <1>7, <3>3, <4>1
            <4>5. ext[k + 1].observed <= ext[e + 1].observed
                BY <1>5, <3>3, <4>4 DEF InOrder
            <4>6. From(ext, e)[1] = ext[e + 1]
                BY <1>9, <4>4
            <4>7. Len(From(ext, e)) - MaxRecords + 1 = 1 /\ MaxRecords <= Len(From(ext, e))
                <5>1. Len(From(ext, e)) = MaxRecords
                    BY <1>9, <4>3
                <5> QED BY <4>2, <5>1
            <4>8. ext[e + 1].observed \in Int
                BY <1>5, <4>4 DEF InOrder
            <4>9. From(ext, e)[Len(From(ext, e)) - MaxRecords + 1].observed >= now
                BY <1>2, <3>3, <4>5, <4>6, <4>7, <4>8
            <4>10. IsCrowdedOut(From(ext, e), later[o])
                BY <3>1, <4>7, <4>9 DEF IsCrowdedOut
            <4> QED BY <1>4, <4>10 DEF Accounted
        <3> QED BY <3>4, <3>5
    <2> QED BY <2>1, <2>2
<1>16. RetentionOf(new, later, now)
    BY <1>10, <1>12, <1>14, <1>15 DEF RetentionOf
<1> QED BY <1>16 DEF new, later

\* A run that observes an origin, whose download and upload may fail.
LEMMA RetentionObserves ==
    ASSUME RetentionInv, NEW origin \in Int, NEW rows, ObserveSources(origin, rows)
    PROVE  RetentionInv'
<1> DEFINE snapshots == Snapshots(origin, now, rows)
<1>1. now' = now /\ now \in Int /\ RetentionOf(records, firstSeen, now)
    BY DEF ObserveSources, RetentionInv
<1>2. RetentionOf(<<>>, NothingSeen, now)
    BY EmptyIsRetained
<1>3. \/ /\ records' = Retain(records, snapshots, origin, now)
         /\ firstSeen' = WithOrigin(firstSeen, origin, snapshots)
      \/ /\ records' = Retain(<<>>, snapshots, origin, now)
         /\ firstSeen' = WithOrigin(NothingSeen, origin, snapshots)
      \/ UNCHANGED <<records, firstSeen>>
      \/ records' = <<>> /\ firstSeen' = NothingSeen
    BY DEF ObserveSources
<1> HIDE DEF snapshots
<1>4. /\ RetentionOf(Retain(records, snapshots, origin, now), WithOrigin(firstSeen, origin, snapshots), now)
      /\ RetentionOf(Retain(<<>>, snapshots, origin, now), WithOrigin(NothingSeen, origin, snapshots), now)
    BY <1>1, <1>2, RetainingKeeps
<1>5. RetentionOf(records', firstSeen', now') /\ now' \in Int
    BY <1>1, <1>2, <1>3, <1>4
<1> QED BY <1>5 DEF RetentionInv

\* The first observation of every origin is accounted for in every reachable state.
LEMMA RetentionIsAccountedFor == QualitySpec => []RetentionInv
<1>1. ASSUME RetentionInv, [QualityNext]_qualityVars PROVE RetentionInv'
    <2>1. CASE QualityNext
        <3>1. CASE Work
            <4>1. ASSUME NEW d \in Deliveries, NEW existing,
                         Reconcile(d, existing) \/ ReconcileKilled(d, existing)
                  PROVE  RetentionInv'
                <5>1. UNCHANGED <<now, records, firstSeen>>
                    BY <4>1 DEF Reconcile, ReconcileKilled, sources
                <5> QED BY <1>1, <5>1 DEF RetentionInv, RetentionOf
            <4>2. ASSUME NEW o \in Origins, NEW rows \in Observations[o], ObserveSources(o, rows)
                  PROVE  RetentionInv'
                <5>1. o \in Int
                    BY QualityAssumption
                <5> QED BY <1>1, <4>2, <5>1, RetentionObserves
            <4> QED BY <3>1, <4>1, <4>2 DEF Work
        <3>2. CASE LoseAlertState
            BY <1>1, <3>2 DEF LoseAlertState, sources, RetentionInv, RetentionOf
        <3>3. CASE LoseHealthState
            BY <1>1, <3>3 DEF LoseHealthState, RetentionInv, RetentionOf
        <3>4. ASSUME NEW step \in Steps, QualityTick(step) PROVE RetentionInv'
            <4>1. step \in Nat /\ now' = now + step /\ UNCHANGED <<records, firstSeen>>
                BY <3>4, QualityAssumption DEF QualityTick, sources
            <4> QED BY <1>1, <4>1, RetentionWaits
        <3> QED BY <2>1, <3>1, <3>2, <3>3, <3>4 DEF QualityNext
    <2>2. CASE UNCHANGED qualityVars
        BY <1>1, <2>2 DEF qualityVars, sources, RetentionInv, RetentionOf
    <2> QED BY <1>1, <2>1, <2>2
<1> QED BY <1>1, RetentionStarts, PTL DEF QualitySpec

\* The newest record is the last one.
LEMMA NewestIsLast ==
    ASSUME NEW at, NEW rs, InOrder(rs, at), Len(rs) > 0
    PROVE  Max({rs[i].observed : i \in DOMAIN rs}) = rs[Len(rs)].observed
<1> DEFINE T == {rs[i].observed : i \in DOMAIN rs}
           g == [i \in DOMAIN rs |-> rs[i].observed]
           last == rs[Len(rs)].observed
<1>1. Len(rs) \in Nat /\ DOMAIN rs = 1 .. Len(rs) /\ Len(rs) \in DOMAIN rs
    BY DEF InOrder, IsSequence
<1>2. IsFiniteSet(DOMAIN rs)
    <2>1. 1 \in Int /\ Len(rs) \in Int
        BY <1>1
    <2> QED BY <1>1, <2>1, FS_Interval
<1>3. g \in Surjection(DOMAIN rs, T)
    BY DEF Surjection
<1>4. IsFiniteSet(T)
    BY <1>2, <1>3, FS_Surjection
<1>5. T \in SUBSET Int /\ last \in T /\ \A n \in T : n <= last
    BY <1>1 DEF InOrder
<1> HIDE DEF T, last
<1>6. Max(T) \in T /\ \A n \in T : n <= Max(T)
    BY <1>4, <1>5, MaxFacts
<1>7. Max(T) = last
    <2>1. Max(T) \in Int /\ last \in Int /\ Max(T) <= last /\ last <= Max(T)
        BY <1>5, <1>6
    <2> QED BY <2>1
<1> QED BY <1>7 DEF T, last

\* However often a run of an origin is repeated and whatever its later runs observe, what
\* is replayed of the origin is what was observed first, until the retention window or
\* the number of records lets go of it (retain_optional_sources, replay_optional_sources).
THEOREM ReplayIsExact == QualitySpec => []ReplayIsFirstSeen
<1>1. ASSUME RetentionInv PROVE ReplayIsFirstSeen
    <2> DEFINE L == Len(records)
    <2>1. /\ InOrder(records, now) /\ L \in Nat /\ DOMAIN records = 1 .. L
          /\ MaxRecords \in Nat \ {0} /\ RetentionMinutes \in Int
        BY <1>1, RetentionAssumption DEF RetentionInv, RetentionOf, InOrder, IsSequence
    <2>2. ASSUME NEW o \in DOMAIN firstSeen,
                 Max({records[i].observed : i \in DOMAIN records}) - firstSeen[o].at <= RetentionMinutes,
                 Cardinality({i \in DOMAIN records : records[i].observed >= firstSeen[o].at}) < MaxRecords
          PROVE  Replay(records, o) = firstSeen[o].snapshots
        <3>1. firstSeen[o].at \in Int /\ Accounted(records, o, firstSeen[o])
            BY <1>1 DEF RetentionInv, RetentionOf
        <3>2. ~IsOutdated(records, firstSeen[o])
            <4>1. SUFFICES ASSUME IsOutdated(records, firstSeen[o]) PROVE FALSE
                OBVIOUS
            <4>2. L > 0 /\ records[L].observed - firstSeen[o].at > RetentionMinutes
                BY <4>1 DEF IsOutdated
            <4>3. records[L].observed \in Int
                BY <2>1, <4>2 DEF InOrder
            <4>4. records[L].observed - firstSeen[o].at <= RetentionMinutes
                BY <2>1, <2>2, <4>2, NewestIsLast
            <4> QED BY <2>1, <3>1, <4>2, <4>3, <4>4
        <3>3. ~IsCrowdedOut(records, firstSeen[o])
            <4>1. SUFFICES ASSUME IsCrowdedOut(records, firstSeen[o]) PROVE FALSE
                OBVIOUS
            <4> DEFINE k == L - MaxRecords + 1
                       late == {i \in DOMAIN records : records[i].observed >= firstSeen[o].at}
            <4>2. MaxRecords <= L /\ records[k].observed >= firstSeen[o].at
                BY <4>1 DEF IsCrowdedOut
            <4>3. k \in 1 .. L
                BY <2>1, <4>2
            <4>4. k .. L \subseteq late
                <5>1. ASSUME NEW i \in k .. L PROVE i \in late
                    <6>1. k \in 1 .. L /\ L \in Nat
                        BY <2>1, <4>3
                    <6> HIDE DEF k
                    <6>2. i \in 1 .. L /\ k <= i
                        BY <6>1
                    <6>3. /\ records[k].observed <= records[i].observed
                          /\ records[k].observed \in Int /\ records[i].observed \in Int
                        BY <2>1, <6>1, <6>2 DEF InOrder
                    <6> QED BY <2>1, <3>1, <4>2, <6>2, <6>3
                <5> QED BY <5>1
            <4>5. IsFiniteSet(1 .. L)
                <5>1. 1 \in Int /\ L \in Int
                    BY <2>1
                <5> QED BY <5>1, FS_Interval
            <4>6. IsFiniteSet(late)
                <5>1. late \subseteq 1 .. L
                    BY <2>1
                <5> QED BY <4>5, <5>1, FS_Subset
            <4>7. Cardinality(k .. L) = MaxRecords
                <5>1. k \in Int /\ L \in Int /\ ~(k > L) /\ L - k + 1 = MaxRecords
                    BY <2>1, <4>3
                <5> HIDE DEF k, L
                <5> QED BY <5>1, FS_Interval
            <4>8. Cardinality(k .. L) <= Cardinality(late)
                BY <4>4, <4>6, FS_Subset
            <4>9. Cardinality(late) \in Nat
                BY <4>6, FS_CardinalityType
            <4> HIDE DEF late, k
            <4> QED BY <2>1, <2>2, <4>7, <4>8, <4>9 DEF late
        <3>4. PICK i \in 1 .. L : /\ records[i].origin = o
                                  /\ records[i].snapshots = firstSeen[o].snapshots
                                  /\ \A j \in 1 .. L : records[j].origin = o => i <= j
            BY <3>1, <3>2, <3>3 DEF Accounted, IsHeld
        <3> DEFINE matches == {j \in DOMAIN records : records[j].origin = o}
        <3>5. matches \in SUBSET Int /\ i \in matches /\ \A j \in matches : i <= j
            BY <2>1, <3>4
        <3>6. IsFiniteSet(matches)
            <4>1. 1 \in Int /\ L \in Int
                BY <2>1
            <4>2. IsFiniteSet(1 .. L)
                BY <4>1, FS_Interval
            <4>3. matches \subseteq 1 .. L
                BY <2>1
            <4> QED BY <4>2, <4>3, FS_Subset
        <3> HIDE DEF matches
        <3>7. Min(matches) \in matches /\ \A j \in matches : Min(matches) <= j
            BY <3>5, <3>6, MinFacts
        <3>8. Min(matches) = i
            <4>1. Min(matches) \in Int /\ i \in Int /\ Min(matches) <= i /\ i <= Min(matches)
                BY <3>5, <3>7
            <4> QED BY <4>1
        <3>9. matches # {}
            BY <3>5
        <3>10. Replay(records, o) = records[Min(matches)].snapshots
            BY <3>9 DEF Replay, matches
        <3> QED BY <3>4, <3>8, <3>10
    <2> QED BY <2>2 DEF ReplayIsFirstSeen
<1> QED BY <1>1, RetentionIsAccountedFor, PTL

=============================================================================
