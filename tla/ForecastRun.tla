---------------------------- MODULE ForecastRun ----------------------------
(***************************************************************************)
(* The production workflow (.github/workflows/forecast.yml): runs, one at  *)
(* a time, of a runner that restores the durable state from the GitHub     *)
(* Release, forecasts, reserves the X post, publishes the history, posts   *)
(* and persists the registry and the pipeline health.  A step may fail or  *)
(* be cancelled, after which only the always() steps run; an upload may    *)
(* stop half way; the runner may be lost at any point, with everything on  *)
(* it; X may accept a post and lose the reply.                             *)
(*                                                                         *)
(* One run at a time is the workflow's concurrency group.  The Release, X  *)
(* and the runner are external.                                            *)
(***************************************************************************)
EXTENDS PipelineHealthState, XPostRegistry

CONSTANTS
    Missing,            \* an asset the Release does not hold, a file that is not there
    Events,             \* the triggers considered
    PostLimit           \* bound: posts of one key

ASSUME ForecastRunAssumption ==
    /\ Missing \notin Registry /\ Missing \notin Health /\ Missing \notin Keys
    /\ \A S \in SUBSET Keys : S # Missing
    /\ Events \subseteq {"schedule", "manual", "manual_post"}
    /\ PostLimit \in Nat

VARIABLES
    \* the GitHub Release
    released,           \* does it exist?
    relRegistry, relHealth, relHistory,     \* x_post_registry.json, pipeline_health.json,
                                            \* forecast_history.sqlite.gz
    \* the runner
    pc,                 \* the next step, "idle" between runs
    event,              \* github.event_name, with post_to_x
    failed,             \* a step of the run has failed or was cancelled
    forecastOk,         \* steps.forecast_run.outcome == 'success'
    key,                \* idempotency key of forecast.json and tweet.txt
    registry, health, history,              \* the files under .state
    preAllow, finalAllow,                   \* outputs of the two gates
    publish,            \* steps.x_prepare.outputs.publish, with x_post_prepared.json
    historyOk,          \* steps.history_publish.outcome == 'success'
    healthPersisted,    \* steps.health_persist.outcome == 'success'
    xstatus,            \* x_post_status.json
    reply,              \* what create_tweet came back with
    \* X
    accepted,           \* posts X has accepted, by key
    misread             \* ghost: those whose reply was an error that reads like one
                        \* raised before the post

release == <<released, relRegistry, relHealth, relHistory>>
files   == <<registry, health, history>>
outputs == <<preAllow, finalAllow, publish, historyOk, healthPersisted, xstatus, reply>>
runVars == <<event, failed, forecastOk, key>>
vars    == <<release, pc, runVars, files, outputs, accepted, misread>>

Posting == event \in {"schedule", "manual_post"}

-----------------------------------------------------------------------------
Init ==
    /\ released = FALSE
    /\ relRegistry = Missing /\ relHealth = Missing /\ relHistory = Missing
    /\ pc = "idle"
    /\ event = "none" /\ failed = FALSE /\ forecastOk = FALSE /\ key = Missing
    /\ registry = Missing /\ health = Missing /\ history = Missing
    /\ preAllow = FALSE /\ finalAllow = FALSE /\ publish = FALSE
    /\ historyOk = FALSE /\ healthPersisted = FALSE
    /\ xstatus = "absent" /\ reply = "none"
    /\ accepted = [k \in Keys |-> 0] /\ misread = [k \in Keys |-> 0]

StartRun ==
    /\ pc = "idle"
    /\ \E e \in Events : event' = e
    /\ pc' = IF event' = "schedule" THEN "restore_registry" ELSE "guard"
    /\ UNCHANGED <<release, failed, forecastOk, key, files, outputs, accepted, misread>>

\* A run starts on a fresh runner: with the run go its files and outputs.
RunGone ==
    /\ pc' = "idle"
    /\ event' = "none" /\ failed' = FALSE /\ forecastOk' = FALSE /\ key' = Missing
    /\ registry' = Missing /\ health' = Missing /\ history' = Missing
    /\ preAllow' = FALSE /\ finalAllow' = FALSE /\ publish' = FALSE
    /\ historyOk' = FALSE /\ healthPersisted' = FALSE
    /\ xstatus' = "absent" /\ reply' = "none"
    /\ UNCHANGED <<release, accepted, misread>>

EndRun == pc = "end" /\ RunGone

RunnerLost == pc # "idle" /\ RunGone

\* Restore durable X schedule state: an existing Release must yield the registry.
RestoreRegistry ==
    /\ pc = "restore_registry"
    /\ \/ /\ relRegistry # Missing \/ ~released
          /\ registry' = relRegistry
          /\ pc' = "guard" /\ UNCHANGED failed
       \/ failed' = TRUE /\ pc' = "end" /\ UNCHANGED registry
    /\ UNCHANGED <<release, event, forecastOk, key, health, history, outputs, accepted, misread>>

\* schedule_guard: a manual run is always due, a scheduled one may not be.
Guard ==
    /\ pc = "guard"
    /\ \/ pc' = "restore"
       \/ event = "schedule" /\ pc' = "end"
    /\ UNCHANGED <<release, runVars, files, outputs, accepted, misread>>

\* Restore durable production state, and migrate: all or failure.
Restore ==
    /\ pc = "restore"
    /\ pc' = "forecast"
    /\ \/ /\ released
          /\ relRegistry # Missing /\ relHealth # Missing /\ relHistory # Missing
          /\ registry' = relRegistry /\ health' = relHealth /\ history' = relHistory
          /\ UNCHANGED failed
       \/ /\ ~released
          /\ history' = {}
          /\ UNCHANGED <<registry, health, failed>>
       \/ failed' = TRUE /\ UNCHANGED files
    /\ UNCHANGED <<release, event, forecastOk, key, outputs, accepted, misread>>

LocalHealth   == IF health = Missing THEN InitialHealth ELSE health
LocalRegistry == IF registry = Missing THEN EmptyRegistry ELSE registry

(* Validate market data and forecast BTC, format the post, and observe both.
   A run that succeeds has validated its data and evaluated drift. *)
Forecast ==
    /\ pc = "forecast"
    /\ pc' = "pre_gate"
    /\ \/ /\ ~failed
          /\ forecastOk' = TRUE
          /\ \E k \in Keys : key' = k /\ history' = history \union {k}
          /\ \E d \in {"normal", "severe"} :
                health' = ObserveForecast(LocalHealth, "success", "ok", d)
          /\ failed' \in BOOLEAN                      \* format_tweet may fail
       \/ /\ failed' = TRUE
          /\ \E v \in {"ok", "failed", "absent"}, d \in {"normal", "severe", "absent"} :
                /\ failed => v = "absent" /\ d = "absent"
                /\ health' = ObserveForecast(LocalHealth, "failure", v, d)
          /\ UNCHANGED <<forecastOk, key, history>>
    /\ UNCHANGED <<release, event, registry, outputs, accepted, misread>>

(* Preliminary gate, before the post is prepared: the history of this run is
   not known yet and is ignored. *)
PreGate ==
    /\ pc = "pre_gate"
    /\ pc' = "prepare"
    /\ IF Posting
       THEN /\ preAllow' = GateAllows(health, {"history"})
            /\ health' = AfterGate(health, {"history"})
       ELSE UNCHANGED <<preAllow, health>>
    /\ UNCHANGED <<release, runVars, registry, history, finalAllow, publish, historyOk,
                   healthPersisted, xstatus, reply, accepted, misread>>

(* post_to_x prepare: the session preflight, then the reservation.  The step
   may be cancelled before the reservation is saved, or after. *)
PrepareStep == ~failed /\ forecastOk /\ Posting /\ preAllow

Reserved(action) ==
    /\ ReserveAction(LocalRegistry[key]) = action
    /\ registry' = IF action = "publish" THEN Reserve(LocalRegistry, key) ELSE registry

Prepare ==
    /\ pc = "prepare"
    /\ pc' = "observe_prepare"
    /\ \/ ~PrepareStep /\ UNCHANGED <<registry, publish, xstatus, failed>>
       \/ /\ PrepareStep
          /\ xstatus' = "preflight_failed"
          /\ UNCHANGED <<registry, publish, failed>>
       \/ /\ PrepareStep
          /\ Reserved("publish")
          /\ publish' = TRUE /\ xstatus' = "prepared"
          /\ UNCHANGED failed
       \/ /\ PrepareStep
          /\ Reserved("duplicate") /\ xstatus' = "duplicate_skipped"
          /\ UNCHANGED <<publish, failed>>
       \/ /\ PrepareStep
          /\ Reserved("locked") /\ xstatus' = "duplicate_locked"
          /\ UNCHANGED <<publish, failed>>
       \/ /\ PrepareStep
          /\ failed' = TRUE
          /\ UNCHANGED registry \/ Reserved("publish")
          /\ UNCHANGED <<publish, xstatus>>
    /\ UNCHANGED <<release, event, forecastOk, key, health, history, preAllow, finalAllow,
                   historyOk, healthPersisted, reply, accepted, misread>>

ObservePrepare ==
    /\ pc = "observe_prepare"
    /\ pc' = "publish_history"
    /\ health' = IF Posting THEN ObserveX(health, xstatus) ELSE health
    /\ UNCHANGED <<release, runVars, registry, history, outputs, accepted, misread>>

(* gh release upload --clobber deletes an asset and uploads it again.  An upload
   that fails leaves each asset as it was, gone, or replaced. *)
Interrupted(old, new) == {old, Missing, new}

(* Publish durable history, with its verification, backups and pruning: either
   nothing canonical was touched, or the assets were replaced (pruning may have
   failed since), or the upload was interrupted.  The first run creates the
   Release with the files that exist. *)
PublishStep == ~failed /\ forecastOk

\* mutant: the history is published without the registry
RegistryNotUploaded == relRegistry

\* .state/x_post_registry.json is uploaded if it exists; nothing is removed
UploadedRegistry == IF registry = Missing THEN relRegistry ELSE registry

PublishHistory ==
    /\ pc = "publish_history"
    /\ pc' = "observe_history"
    /\ \/ ~PublishStep /\ UNCHANGED <<release, historyOk, failed>>
       \/ /\ PublishStep
          /\ failed' = TRUE /\ UNCHANGED <<release, historyOk>>
       \/ /\ PublishStep
          /\ released' = TRUE
          /\ relRegistry' = UploadedRegistry /\ relHealth' = health /\ relHistory' = history
          /\ \/ historyOk' = TRUE /\ UNCHANGED failed
             \/ failed' = TRUE /\ released /\ UNCHANGED historyOk
       \/ /\ PublishStep /\ released
          /\ relRegistry' \in Interrupted(relRegistry, UploadedRegistry)
          /\ relHealth' \in Interrupted(relHealth, health)
          /\ relHistory' \in Interrupted(relHistory, history)
          /\ failed' = TRUE
          /\ UNCHANGED <<released, historyOk>>
    /\ UNCHANGED <<event, forecastOk, key, files, preAllow, finalAllow, publish,
                   healthPersisted, xstatus, reply, accepted, misread>>

ObserveHistoryStep ==
    /\ pc = "observe_history"
    /\ pc' = "persist_health"
    /\ health' = IF forecastOk
                 THEN ObserveHistory(health, IF historyOk THEN "success" ELSE "failure")
                 ELSE health
    /\ UNCHANGED <<release, runVars, registry, history, outputs, accepted, misread>>

\* Persist current pipeline health
PersistHealth ==
    /\ pc = "persist_health"
    /\ pc' = "final_gate"
    /\ \/ ~forecastOk /\ UNCHANGED <<relHealth, healthPersisted, failed>>
       \/ /\ forecastOk /\ released
          /\ relHealth' = health /\ healthPersisted' = TRUE /\ UNCHANGED failed
       \/ /\ forecastOk
          /\ relHealth' \in IF released THEN Interrupted(relHealth, health) ELSE {relHealth}
          /\ failed' = TRUE /\ UNCHANGED healthPersisted
    /\ UNCHANGED <<released, relRegistry, relHistory, event, forecastOk, key, files, preAllow,
                   finalAllow, publish, historyOk, xstatus, reply, accepted, misread>>

\* Final gate; the summary and cache steps that follow may fail.
FinalGate ==
    /\ pc = "final_gate"
    /\ pc' = "send"
    /\ IF Posting
       THEN /\ finalAllow' = GateAllows(health, {})
            /\ health' = AfterGate(health, {})
       ELSE UNCHANGED <<finalAllow, health>>
    /\ failed' \in {failed, TRUE}
    /\ UNCHANGED <<release, event, forecastOk, key, registry, history, preAllow, publish,
                   historyOk, healthPersisted, xstatus, reply, accepted, misread>>

(* post_to_x publish: the reservation is checked and create_tweet is called.
   X accepts the post or not, and the runner hears of it or not. *)
SendStep ==
    /\ ~failed /\ forecastOk /\ Posting /\ publish /\ healthPersisted /\ finalAllow

Publishable == registry # Missing /\ registry[key].status = "reserved"

\* Errors raised after X accepted the post: the answer has no id, or an exception is
\* classified by the tokens its text happens to contain, those of a failed login or of a
\* rate limit among them.
LateErrors == {"no_id", "other", "retryable"}

Send ==
    /\ pc = "send"
    /\ \/ ~SendStep /\ pc' = "persist" /\ UNCHANGED <<accepted, misread, reply, failed>>
       \/ /\ SendStep                       \* not publishable, no client, cancelled
          /\ pc' = "observe_send" /\ failed' = TRUE
          /\ UNCHANGED <<accepted, misread, reply>>
       \/ /\ SendStep /\ Publishable
          /\ pc' = "record"
          /\ \/ /\ accepted[key] < PostLimit
                /\ reply' \in {"id"} \union LateErrors
                /\ accepted' = [accepted EXCEPT ![key] = @ + 1]
                /\ misread' = IF reply' = "retryable" THEN [misread EXCEPT ![key] = @ + 1] ELSE misread
             \/ reply' \in {"retryable", "other"} /\ UNCHANGED <<accepted, misread>>
          /\ UNCHANGED failed
    /\ UNCHANGED <<release, event, forecastOk, key, files, preAllow, finalAllow, publish,
                   historyOk, healthPersisted, xstatus>>

(* ... and the outcome is recorded, unless the step is cancelled meanwhile;
   then x_post_status.json still says "prepared". *)
RecordReply ==
    /\ pc = "record"
    /\ pc' = "observe_send"
    /\ \/ /\ reply = "id"
          /\ registry' = MarkPosted(registry, key) /\ xstatus' = "posted" /\ UNCHANGED failed
       \/ /\ reply # "id"
          /\ registry' = MarkError(registry, key, IF reply = "retryable" THEN reply ELSE "other")
          /\ xstatus' = "failed" /\ failed' = TRUE
       \/ failed' = TRUE /\ UNCHANGED <<registry, xstatus>>
    /\ UNCHANGED <<release, event, forecastOk, key, health, history, preAllow, finalAllow,
                   publish, historyOk, healthPersisted, reply, accepted, misread>>

ObserveSend ==
    /\ pc = "observe_send"
    /\ pc' = "persist"
    /\ health' = ObserveX(health, xstatus)
    /\ UNCHANGED <<release, runVars, registry, history, outputs, accepted, misread>>

(* Persist X and health metadata (release_state.persist_assets): the registry,
   and only if it was verified the health. *)
PersistStep == forecastOk /\ released

Persist ==
    /\ pc = "persist"
    /\ pc' = "end"
    /\ \/ ~PersistStep /\ UNCHANGED <<relRegistry, relHealth>>
       \/ /\ PersistStep
          /\ relRegistry' = UploadedRegistry
          /\ relHealth' \in Interrupted(relHealth, health)
       \/ /\ PersistStep
          /\ relRegistry' \in Interrupted(relRegistry, UploadedRegistry)
          /\ UNCHANGED relHealth
    /\ UNCHANGED <<released, relHistory, runVars, files, outputs, accepted, misread>>

\* An hour goes by, for the cooldown of the X circuit.
AgedFile(h) == IF h = Missing THEN Missing ELSE Aged(h)

Tick ==
    /\ AgedFile(relHealth) # relHealth \/ AgedFile(health) # health
    /\ relHealth' = AgedFile(relHealth) /\ health' = AgedFile(health)
    /\ UNCHANGED <<released, relRegistry, relHistory, pc, runVars, registry, history, outputs,
                   accepted, misread>>

Step ==
    \/ RestoreRegistry \/ Guard \/ Restore \/ Forecast \/ PreGate \/ Prepare \/ ObservePrepare
    \/ PublishHistory \/ ObserveHistoryStep \/ PersistHealth \/ FinalGate \/ Send \/ RecordReply
    \/ ObserveSend \/ Persist \/ EndRun

Next == StartRun \/ Step \/ RunnerLost \/ Tick

Spec == Init /\ [][Next]_vars

\* The scheduler keeps waking the workflow, a started run goes on, time passes.
FairSpec == Spec /\ WF_vars(StartRun) /\ WF_vars(Step) /\ WF_vars(Tick)

-----------------------------------------------------------------------------
Locks(e) == e.status \in {"reserved", "posted", "ambiguous"}

\* A forecast is posted at most once, whatever fails and however often it is
\* tried again: X_POSTING.md prefers a missed post over a duplicate.  Only an accepted
\* post whose reply was misread may be followed by another one.
AtMostOnce == \A k \in Keys : accepted[k] <= 1 + misread[k]

\* A post that X accepted, and that was not misread, is locked in every copy of the
\* registry that a later run can start from; the forecast of any accepted post is in
\* every copy of the history.
AcceptedIsLocked ==
    \A k \in Keys :
        /\ accepted[k] > misread[k] /\ relRegistry # Missing => Locks(relRegistry[k])
        /\ accepted[k] > 0 /\ relHistory # Missing => k \in relHistory

\* When X accepts a post, the reservation, the forecast and the health that
\* allowed it are durable, so the loss of the runner forgets none of them.
DurableBeforePost ==
    [][accepted' # accepted =>
          /\ relRegistry # Missing /\ relRegistry[key].status = "reserved"
          /\ relHistory # Missing /\ key \in relHistory
          /\ relHealth # Missing]_vars

\* Nothing is posted on degraded evidence: severe drift, unhealthy data, a
\* history that was not published, or an X circuit that is not closed.
PostedOnlyWhenHealthy ==
    [][accepted' # accepted =>
          /\ health.market = "healthy" /\ health.drift # "severe" /\ health.history = "success"
          /\ \A s \in Stages : health.circuit[s] = "closed"]_vars

\* A publishing run in which nothing went wrong, not even drift, is stored.
CleanRun ==
    /\ Persist
    /\ Posting /\ forecastOk /\ ~failed /\ health.drift = "normal"
    /\ relHealth' = health

XCircuit(h) == IF h = Missing THEN "unknown" ELSE h.circuit["x_post"]

\* While clean runs keep coming, an open X circuit does not stay open for ever:
\* some run gets to its recovery probe, or stores the success of a post that
\* had been prepared before the circuit opened.
ProbeEventually ==
    []<><<CleanRun>>_vars =>
        (XCircuit(relHealth) = "open" ~>
            (XCircuit(health) = "half_open" \/ XCircuit(relHealth) # "open"))

\* While clean runs keep coming, a stored half-open circuit is resolved: the one
\* probe it stands for is made and closes or reopens it (PIPELINE_HEALTH.md).
HalfOpenResolves ==
    []<><<CleanRun>>_vars =>
        (XCircuit(relHealth) = "half_open" ~> XCircuit(relHealth) # "half_open")

=============================================================================
