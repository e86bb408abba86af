------------------------- MODULE ForecastRunProofs -------------------------
(***************************************************************************)
(* No forecast is posted twice, for any set of forecasts and any number of *)
(* runs, but where the reply to an accepted post is misread: whatever else *)
(* X accepted is locked in the runner's registry and in the Release, or    *)
(* the registry is gone and no run gets past its restore.  X is only asked *)
(* once the Release holds the very registry the runner goes by.            *)
(***************************************************************************)
EXTENDS ForecastRun, TLAPS

\* the steps before the forecast, from the reservation to the call of X, and
\* from the publication of the history to that call
Early     == {"idle", "restore_registry", "guard", "restore", "forecast"}
Preparing == Early \union {"pre_gate", "prepare"}
Sending   == {"observe_prepare", "publish_history", "observe_history", "persist_health",
              "final_gate", "send"}
Durable   == {"observe_history", "persist_health", "final_gate", "send"}

RunTypeOK ==
    /\ released \in BOOLEAN /\ failed \in BOOLEAN /\ forecastOk \in BOOLEAN /\ publish \in BOOLEAN
    /\ relRegistry \in Registry \union {Missing} /\ registry \in Registry \union {Missing}
    /\ relHistory = Missing \/ relHistory \in SUBSET Keys
    /\ history = Missing \/ history \in SUBSET Keys
    /\ key \in Keys \union {Missing}
    /\ accepted \in [Keys -> Nat] /\ misread \in [Keys -> Nat]
    /\ \A k \in Keys : misread[k] <= accepted[k] /\ accepted[k] <= 1 + misread[k]

Unposted == \A k \in Keys : accepted[k] = 0

\* The Release is created before the first post.
NoReleaseNoPost == ~released => relRegistry = Missing /\ relHistory = Missing /\ Unposted

\* What X accepted is locked in a registry, unless it was misread, and in a history.
LockedIn(reg, hist) ==
    \A k \in Keys :
        /\ accepted[k] > misread[k] /\ reg # Missing => Locks(reg[k])
        /\ accepted[k] > 0 /\ hist # Missing => k \in hist

\* A run that goes on without a registry is the first one.
FirstRun ==
    /\ (pc = "forecast" /\ ~failed) => history # Missing /\ (registry = Missing => Unposted)
    /\ forecastOk => /\ pc \notin Early
                     /\ key \in Keys /\ history # Missing /\ key \in history
                     /\ registry = Missing => Unposted

\* A run that is to publish holds a reservation that nobody has used.
HoldsReservation ==
    publish => /\ forecastOk /\ pc \notin Preparing
               /\ pc \in Sending => /\ registry # Missing /\ registry[key].status = "reserved"
                                    /\ accepted[key] <= misread[key]

\* The runner and the Release agree when X is called.
DurableRun ==
    (pc \in Durable /\ ~failed /\ forecastOk) =>
        released /\ relHistory = history /\ (registry # Missing => relRegistry = registry)

\* While the outcome is not recorded yet, the reservation locks the key.
Unrecorded ==
    pc = "record" => /\ key \in Keys /\ registry # Missing
                     /\ Locks(registry[key])
                     /\ reply = "retryable" => accepted[key] <= misread[key]

IInv ==
    /\ RunTypeOK
    /\ NoReleaseNoPost
    /\ LockedIn(relRegistry, relHistory)
    /\ LockedIn(registry, history)
    /\ FirstRun
    /\ HoldsReservation
    /\ DurableRun
    /\ Unrecorded

-----------------------------------------------------------------------------
\* Reserving a key that reserve lets through: it was not locked, and only its
\* own entry changes.
LEMMA ReserveFacts ==
    ASSUME NEW reg \in Registry, NEW k \in Keys, ReserveAction(reg[k]) = "publish",
           NEW new, new = Reserve(reg, k)
    PROVE  /\ ~Locks(reg[k])
           /\ new \in Registry /\ new[k].status = "reserved" /\ Locks(new[k])
           /\ \A j \in Keys : j # k => new[j] = reg[j]
<1> DEFINE e == [status |-> "reserved", class |-> "none"]
<1>1. e \in Entry /\ reg[k] \in Entry
  BY DEF Entry, Statuses, Classes, Registry
<1>2. ~Locks(reg[k])
  BY <1>1 DEF ReserveAction, Retryable, Locks, Entry
<1>3. new = [reg EXCEPT ![k] = e]
  BY DEF Reserve
<1>4. new \in Registry /\ new[k] = e /\ \A j \in Keys : j # k => new[j] = reg[j]
  BY <1>1, <1>3 DEF Registry
<1>5. QED
  BY <1>2, <1>4 DEF Locks

\* Recording an outcome: only its own entry changes, and it stays locked but for
\* a failure that may be retried.
LEMMA RecordFacts ==
    ASSUME NEW reg \in Registry, NEW k \in Keys, NEW class \in {"retryable", "other"},
           NEW new, new = MarkPosted(reg, k) \/ new = MarkError(reg, k, class)
    PROVE  /\ new \in Registry
           /\ new = MarkPosted(reg, k) \/ class = "other" => Locks(new[k])
           /\ \A j \in Keys : j # k => new[j] = reg[j]
<1>1. PICK e \in Entry : /\ new = [reg EXCEPT ![k] = e]
                         /\ new = MarkPosted(reg, k) \/ class = "other" => Locks(e)
  <2>1. CASE new = MarkPosted(reg, k)
    <3> DEFINE e == [status |-> "posted", class |-> "none"]
    <3>1. e \in Entry /\ new = [reg EXCEPT ![k] = e] /\ Locks(e)
      BY <2>1 DEF Entry, Statuses, Classes, MarkPosted, Locks
    <3>2. QED
      BY <3>1
  <2>2. CASE new # MarkPosted(reg, k)
    <3> DEFINE e == [status |-> IF class # "retryable" THEN "ambiguous" ELSE "failed",
                     class |-> class]
    <3>1. e \in Entry /\ new = [reg EXCEPT ![k] = e] /\ (class = "other" => Locks(e))
      BY <2>2 DEF Entry, Statuses, Classes, MarkError, MarkFailed, Locks
    <3>2. QED
      BY <2>2, <3>1
  <2>3. QED
    BY <2>1, <2>2
<1>2. new[k] = e /\ new \in Registry /\ \A j \in Keys : j # k => new[j] = reg[j]
  BY <1>1 DEF Registry
<1>3. QED
  BY <1>1, <1>2

\* The empty registry locks nothing.
LEMMA EmptyFacts == EmptyRegistry \in Registry /\ \A k \in Keys : ~Locks(EmptyRegistry[k])
BY DEF EmptyRegistry, Registry, Entry, Statuses, Classes, Locks

-----------------------------------------------------------------------------
\* Nothing is posted, nothing is running, and there is no Release.
LEMMA InitIInv == Init => IInv
<1> SUFFICES ASSUME Init PROVE IInv
  OBVIOUS
<1>1. /\ accepted \in [Keys -> Nat] /\ \A k \in Keys : accepted[k] = 0
      /\ misread \in [Keys -> Nat] /\ \A k \in Keys : misread[k] = 0
  BY DEF Init
<1>2. RunTypeOK
  <2>1. \A k \in Keys : misread[k] <= accepted[k] /\ accepted[k] <= 1 + misread[k]
    BY <1>1
  <2>2. accepted \in [Keys -> Nat] /\ misread \in [Keys -> Nat]
    BY <1>1
  <2>3. QED
    BY <2>1, <2>2 DEF Init, RunTypeOK
<1>3. NoReleaseNoPost /\ LockedIn(relRegistry, relHistory) /\ LockedIn(registry, history)
  BY <1>1 DEF Init, NoReleaseNoPost, Unposted, LockedIn
<1>4. FirstRun /\ HoldsReservation /\ DurableRun /\ Unrecorded
  BY DEF Init, FirstRun, HoldsReservation, DurableRun, Unrecorded
<1>5. QED
  BY <1>2, <1>3, <1>4 DEF IInv

\* A new run keeps the Release and what X has.
LEMMA RunGonePreserves == ASSUME IInv, RunGone PROVE IInv'
BY ForecastRunAssumption
   DEF RunGone, release, IInv, RunTypeOK, NoReleaseNoPost, Unposted, LockedIn, FirstRun,
       HoldsReservation, DurableRun, Unrecorded, Early, Preparing, Sending, Durable

\* The steps that touch neither the registry, the history nor X, and make
\* nothing that had failed succeed.
Quiet ==
    /\ UNCHANGED <<released, relRegistry, relHistory, registry, history, key, accepted, misread,
                   forecastOk, publish>>
    /\ failed' \in BOOLEAN /\ (failed => failed')
    /\ pc' = pc \/ <<pc, pc'>> \in
          {<<"idle", "restore_registry">>, <<"idle", "guard">>, <<"guard", "restore">>,
           <<"guard", "end">>, <<"pre_gate", "prepare">>,
           <<"observe_prepare", "publish_history">>, <<"observe_history", "persist_health">>,
           <<"persist_health", "final_gate">>, <<"final_gate", "send">>,
           <<"observe_send", "persist">>}
    /\ pc = "record" => UNCHANGED reply

\* A quiet step keeps the invariant.
LEMMA QuietPreserves == ASSUME IInv, Quiet PROVE IInv'
<1>1. RunTypeOK' /\ NoReleaseNoPost' /\ LockedIn(relRegistry, relHistory)'
      /\ LockedIn(registry, history)'
  BY DEF Quiet, IInv, RunTypeOK, NoReleaseNoPost, Unposted, LockedIn
<1>2. FirstRun'
  BY DEF Quiet, IInv, RunTypeOK, FirstRun, Unposted, Early
<1>3. HoldsReservation'
  BY DEF Quiet, IInv, HoldsReservation, Sending, Preparing, Early
<1>4. DurableRun'
  BY DEF Quiet, IInv, RunTypeOK, DurableRun, Durable
<1>5. Unrecorded'
  BY DEF Quiet, IInv, Unrecorded
<1>6. QED
  BY <1>1, <1>2, <1>3, <1>4, <1>5 DEF IInv

\* The steps of the workflow that are quiet.
LEMMA QuietSteps ==
    ASSUME IInv, StartRun \/ Guard \/ PreGate \/ ObservePrepare \/ ObserveHistoryStep
                   \/ PersistHealth \/ FinalGate \/ ObserveSend \/ Tick
    PROVE  Quiet
<1>1. failed \in BOOLEAN
  BY DEF IInv, RunTypeOK
<1>2. CASE StartRun
  BY <1>1, <1>2 DEF StartRun, Quiet, release, files, outputs
<1>3. CASE Guard
  BY <1>1, <1>3 DEF Guard, Quiet, release, runVars, files, outputs
<1>4. CASE PreGate
  BY <1>1, <1>4 DEF PreGate, Quiet, release, runVars
<1>5. CASE ObservePrepare
  BY <1>1, <1>5 DEF ObservePrepare, Quiet, release, runVars, outputs
<1>6. CASE ObserveHistoryStep
  BY <1>1, <1>6 DEF ObserveHistoryStep, Quiet, release, runVars, outputs
<1>7. CASE PersistHealth
  BY <1>1, <1>7 DEF PersistHealth, Quiet, files
<1>8. CASE FinalGate
  <2>1. failed' \in BOOLEAN /\ (failed => failed')
    <3>1. CASE failed' = failed
      BY <1>1, <3>1, Zenon
    <3>2. CASE failed' = TRUE
      BY <3>2
    <3>3. QED
      BY <1>8, <3>1, <3>2 DEF FinalGate
  <2>2. QED
    BY <1>8, <2>1 DEF FinalGate, Quiet, release
<1>9. CASE ObserveSend
  BY <1>1, <1>9 DEF ObserveSend, Quiet, release, runVars, outputs
<1>10. CASE Tick
  BY <1>1, <1>10 DEF Tick, Quiet, runVars, outputs
<1>11. QED
  BY <1>2, <1>3, <1>4, <1>5, <1>6, <1>7, <1>8, <1>9, <1>10

-----------------------------------------------------------------------------
\* A restore that goes wrong ends in a failed run; one that does not brings the
\* registry of the Release, or finds that there is none to bring.
LEMMA RestoreRegistryPreserves == ASSUME IInv, RestoreRegistry PROVE IInv'
<1>1. pc = "restore_registry" /\ pc' \in {"guard", "end"} /\ ~forecastOk /\ ~publish
  BY DEF RestoreRegistry, IInv, FirstRun, HoldsReservation, Early
<1>2. /\ UNCHANGED <<released, relRegistry, relHistory, history, key, accepted, misread, forecastOk, publish>>
      /\ registry' = registry \/ registry' = relRegistry
      /\ failed' = failed \/ failed' = TRUE
  BY DEF RestoreRegistry, release, outputs
<1>3. failed' \in BOOLEAN
  BY <1>2 DEF IInv, RunTypeOK
<1>4. LockedIn(registry, history)'
  BY <1>2 DEF IInv, LockedIn
<1>5. RunTypeOK' /\ NoReleaseNoPost' /\ LockedIn(relRegistry, relHistory)'
  BY <1>2, <1>3 DEF IInv, RunTypeOK, NoReleaseNoPost, Unposted, LockedIn
<1>6. FirstRun' /\ HoldsReservation' /\ DurableRun' /\ Unrecorded'
  BY <1>1, <1>2 DEF FirstRun, HoldsReservation, DurableRun, Unrecorded, Durable
<1>7. QED
  BY <1>4, <1>5, <1>6 DEF IInv

\* The durable restore replaces all files by the Release's, or starts the first
\* history, or fails the run.
LEMMA RestorePreserves == ASSUME IInv, Restore PROVE IInv'
<1>1. pc = "restore" /\ pc' = "forecast" /\ ~forecastOk /\ ~publish
  BY DEF Restore, IInv, FirstRun, HoldsReservation, Early
<1>2. UNCHANGED <<released, relRegistry, relHistory, key, accepted, misread, forecastOk, publish>>
  BY DEF Restore, release, outputs
<1>3. \/ /\ relRegistry # Missing /\ relHistory # Missing
         /\ registry' = relRegistry /\ history' = relHistory /\ failed' = failed
      \/ ~released /\ history' = {} /\ registry' = registry /\ failed' = failed
      \/ failed' = TRUE /\ registry' = registry /\ history' = history
  BY DEF Restore, files
<1>4. failed' \in BOOLEAN
  BY <1>3 DEF IInv, RunTypeOK
<1>5. RunTypeOK'
  BY <1>2, <1>3, <1>4 DEF IInv, RunTypeOK
<1>6. NoReleaseNoPost' /\ LockedIn(relRegistry, relHistory)'
  BY <1>2 DEF IInv, NoReleaseNoPost, Unposted, LockedIn
<1>7. LockedIn(registry, history)'
  BY <1>2, <1>3 DEF IInv, RunTypeOK, LockedIn, NoReleaseNoPost, Unposted
<1>8. FirstRun'
  <2>1. ~failed' => history' # Missing /\ (registry' = Missing => Unposted')
    BY <1>2, <1>3, ForecastRunAssumption DEF IInv, NoReleaseNoPost, Unposted
  <2>2. QED
    BY <1>1, <1>2, <2>1 DEF FirstRun
<1>9. HoldsReservation' /\ DurableRun' /\ Unrecorded'
  BY <1>1, <1>2 DEF HoldsReservation, DurableRun, Unrecorded, Durable
<1>10. QED
  BY <1>5, <1>6, <1>7, <1>8, <1>9 DEF IInv

\* A forecast that succeeds enters the history; one that does not stops the run.
LEMMA ForecastPreserves == ASSUME IInv, Forecast PROVE IInv'
<1>1. pc = "forecast" /\ pc' = "pre_gate" /\ ~forecastOk /\ ~publish
  BY DEF Forecast, IInv, FirstRun, HoldsReservation, Early, Preparing
<1>2. UNCHANGED <<released, relRegistry, relHistory, registry, accepted, misread, publish>>
  BY DEF Forecast, release, outputs
<1>3. \/ /\ ~failed /\ forecastOk' = TRUE /\ failed' \in BOOLEAN
         /\ key' \in Keys /\ history' = history \union {key'}
      \/ failed' = TRUE /\ forecastOk' = forecastOk /\ key' = key /\ history' = history
  BY DEF Forecast
<1>4. ~failed => history # Missing /\ (registry = Missing => Unposted)
  BY <1>1 DEF IInv, FirstRun
<1>5. RunTypeOK'
  <2>1. history' = Missing \/ history' \in SUBSET Keys
    BY <1>3, <1>4 DEF IInv, RunTypeOK
  <2>2. failed' \in BOOLEAN /\ forecastOk' \in BOOLEAN
    BY <1>3 DEF IInv, RunTypeOK
  <2>3. key' \in Keys \union {Missing}
    BY <1>3 DEF IInv, RunTypeOK
  <2>4. QED
    BY <1>2, <2>1, <2>2, <2>3 DEF IInv, RunTypeOK
<1>6. NoReleaseNoPost' /\ LockedIn(relRegistry, relHistory)'
  BY <1>2 DEF IInv, NoReleaseNoPost, Unposted, LockedIn
<1>7. LockedIn(registry, history)'
  BY <1>2, <1>3, <1>4 DEF IInv, LockedIn
<1>8. FirstRun'
  <2>1. CASE ~failed /\ forecastOk' = TRUE
    <3>1. key' \in Keys /\ history' \in SUBSET Keys /\ key' \in history'
      BY <1>1, <1>3, <1>4, <2>1 DEF IInv, RunTypeOK
    <3>2. history' # Missing
      BY <3>1, ForecastRunAssumption
    <3>3. registry' = Missing => Unposted'
      BY <1>2, <1>4, <2>1 DEF Unposted
    <3>4. QED
      BY <1>1, <3>1, <3>2, <3>3 DEF FirstRun, Early
  <2>2. CASE forecastOk' = forecastOk
    BY <1>1, <2>2 DEF FirstRun
  <2>3. QED
    BY <1>3, <2>1, <2>2
<1>9. HoldsReservation' /\ DurableRun' /\ Unrecorded'
  BY <1>1, <1>2 DEF HoldsReservation, DurableRun, Unrecorded, Durable
<1>10. QED
  BY <1>5, <1>6, <1>7, <1>8, <1>9 DEF IInv

-----------------------------------------------------------------------------
\* The reservation is made for a key that nothing locked, so one that X does not
\* have yet.
LEMMA PreparePreserves == ASSUME IInv, Prepare PROVE IInv'
<1>1. pc = "prepare" /\ pc' = "observe_prepare" /\ ~publish
  BY DEF Prepare, IInv, HoldsReservation, Preparing
<1>2. UNCHANGED <<released, relRegistry, relHistory, history, key, accepted, misread, forecastOk>>
  BY DEF Prepare, release
<1>3. \/ /\ registry' = registry
         /\ publish' = publish
      \/ /\ forecastOk /\ registry' = Reserve(LocalRegistry, key)
         /\ ReserveAction(LocalRegistry[key]) = "publish"
         /\ publish' \in BOOLEAN
  BY DEF Prepare, Reserved, PrepareStep, IInv, RunTypeOK
<1>4. failed' \in BOOLEAN
  BY DEF Prepare, IInv, RunTypeOK
<1>5. CASE registry' = registry /\ publish' = publish
  <2>1. RunTypeOK' /\ NoReleaseNoPost' /\ LockedIn(relRegistry, relHistory)'
        /\ LockedIn(registry, history)'
    BY <1>2, <1>4, <1>5 DEF IInv, RunTypeOK, NoReleaseNoPost, Unposted, LockedIn
  <2>2. FirstRun' /\ HoldsReservation' /\ DurableRun' /\ Unrecorded'
    BY <1>1, <1>2, <1>5
       DEF IInv, FirstRun, Unposted, Early, HoldsReservation, DurableRun, Durable, Unrecorded
  <2>3. QED
    BY <2>1, <2>2 DEF IInv
<1>6. CASE /\ forecastOk /\ registry' = Reserve(LocalRegistry, key)
           /\ ReserveAction(LocalRegistry[key]) = "publish"
           /\ publish' \in BOOLEAN
  <2>1. key \in Keys /\ history # Missing /\ key \in history /\ (registry = Missing => Unposted)
    BY <1>6 DEF IInv, FirstRun
  <2>2. LocalRegistry \in Registry
    BY EmptyFacts DEF LocalRegistry, IInv, RunTypeOK
  <2>3. \A k \in Keys : accepted[k] > misread[k] => Locks(LocalRegistry[k])
    <3>1. CASE registry = Missing
      BY <2>1, <3>1 DEF Unposted, IInv, RunTypeOK
    <3>2. CASE registry # Missing
      BY <3>2 DEF IInv, LockedIn, LocalRegistry
    <3>3. QED
      BY <3>1, <3>2
  <2>4. /\ ~Locks(LocalRegistry[key])
        /\ registry' \in Registry /\ registry'[key].status = "reserved" /\ Locks(registry'[key])
        /\ \A j \in Keys : j # key => registry'[j] = LocalRegistry[j]
    BY <1>6, <2>1, <2>2, ReserveFacts
  <2>5. accepted[key] <= misread[key]
    BY <2>1, <2>3, <2>4 DEF IInv, RunTypeOK
  <2>6. registry' # Missing
    BY <2>4, ForecastRunAssumption
  <2>7. RunTypeOK' /\ NoReleaseNoPost' /\ LockedIn(relRegistry, relHistory)'
    BY <1>2, <1>4, <1>6, <2>4 DEF IInv, RunTypeOK, NoReleaseNoPost, Unposted, LockedIn
  <2>8. LockedIn(registry, history)'
    <3>1. ASSUME NEW k \in Keys, accepted[k] > misread[k] PROVE Locks(registry'[k])
      BY <2>3, <2>4, <3>1
    <3>2. \A k \in Keys : accepted[k] > 0 /\ history # Missing => k \in history
      BY DEF IInv, LockedIn
    <3>3. QED
      BY <1>2, <3>1, <3>2 DEF LockedIn
  <2>9. FirstRun'
    BY <1>1, <1>2, <2>1, <2>6 DEF IInv, FirstRun, Early
  <2>10. HoldsReservation' /\ DurableRun' /\ Unrecorded'
    BY <1>1, <1>2, <1>6, <2>4, <2>5, <2>6
       DEF HoldsReservation, DurableRun, Durable, Unrecorded, Preparing, Early
  <2>11. QED
    BY <2>7, <2>8, <2>9, <2>10 DEF IInv
<1>7. QED
  BY <1>3, <1>5, <1>6

\* What is uploaded as the registry locks what X has.
LEMMA UploadFacts ==
    ASSUME IInv
    PROVE  /\ UploadedRegistry \in Registry \union {Missing}
           /\ UploadedRegistry = registry \/ UploadedRegistry = relRegistry
           /\ registry # Missing => UploadedRegistry = registry
BY DEF IInv, RunTypeOK, UploadedRegistry

\* Each asset of the Release is as it was, gone, or the runner's.
LEMMA UploadPreserves ==
    ASSUME IInv,
           <<pc, pc'>> \in {<<"publish_history", "observe_history">>, <<"persist", "end">>},
           relRegistry' \in {relRegistry, Missing, UploadedRegistry},
           relHistory' \in {relHistory, Missing, history},
           ~released' => UNCHANGED <<relRegistry, relHistory>>,
           released' \in BOOLEAN, released => released',
           failed' \in BOOLEAN, UNCHANGED <<forecastOk, key, registry, history, publish, accepted, misread>>,
           pc' = "observe_history" /\ ~failed' /\ forecastOk =>
               /\ released' /\ relHistory' = history
               /\ registry # Missing => relRegistry' = registry
    PROVE  IInv'
<1>1. RunTypeOK'
  BY UploadFacts DEF IInv, RunTypeOK
<1>2. NoReleaseNoPost'
  BY DEF IInv, NoReleaseNoPost, Unposted
<1>3. LockedIn(relRegistry, relHistory)' /\ LockedIn(registry, history)'
  BY UploadFacts DEF IInv, LockedIn
<1>4. FirstRun'
  BY DEF IInv, FirstRun, Unposted, Early
<1>5. HoldsReservation'
  BY DEF IInv, HoldsReservation, Preparing, Early, Sending
<1>6. DurableRun' /\ Unrecorded'
  BY DEF DurableRun, Unrecorded, Durable
<1>7. QED
  BY <1>1, <1>2, <1>3, <1>4, <1>5, <1>6 DEF IInv

\* A history that is published leaves runner and Release in agreement; one that
\* is not leaves the run failed.
LEMMA PublishHistoryPreserves == ASSUME IInv, PublishHistory PROVE IInv'
<1>1. pc = "publish_history" /\ pc' = "observe_history"
      /\ UNCHANGED <<forecastOk, key, registry, history, publish, accepted, misread>>
  BY DEF PublishHistory, files
<1>2. failed' \in BOOLEAN /\ released' \in BOOLEAN /\ (released => released')
  BY DEF PublishHistory, release, IInv, RunTypeOK
<1>3. relRegistry' \in {relRegistry, Missing, UploadedRegistry}
      /\ relHistory' \in {relHistory, Missing, history}
  BY DEF PublishHistory, release, Interrupted
<1>4. ~released' => UNCHANGED <<relRegistry, relHistory>>
  BY DEF PublishHistory, release
<1>5. ~failed' /\ forecastOk => /\ released' /\ relHistory' = history
                                /\ registry # Missing => relRegistry' = registry
  BY DEF PublishHistory, PublishStep, UploadedRegistry
<1>6. QED
  BY <1>1, <1>2, <1>3, <1>4, <1>5, UploadPreserves

\* Persisting brings the registry of the runner to the Release, or loses it.
LEMMA PersistPreserves == ASSUME IInv, Persist PROVE IInv'
<1>1. pc = "persist" /\ pc' = "end"
      /\ UNCHANGED <<released, failed, forecastOk, key, registry, history, publish, accepted, misread,
                     relHistory>>
  BY DEF Persist, runVars, files, outputs
<1>2. failed' \in BOOLEAN /\ released' \in BOOLEAN
  BY <1>1 DEF IInv, RunTypeOK
<1>3. relRegistry' \in {relRegistry, Missing, UploadedRegistry}
      /\ (~released' => UNCHANGED relRegistry)
  BY DEF Persist, PersistStep, Interrupted
<1>4. QED
  BY <1>1, <1>2, <1>3, UploadPreserves

-----------------------------------------------------------------------------
\* X is called for a key it does not have, reserved on the runner and in the
\* Release, and recorded in the history of both.
LEMMA SendPreserves == ASSUME IInv, Send PROVE IInv'
<1>1. pc = "send" /\ pc' \in {"persist", "observe_send", "record"}
      /\ UNCHANGED <<released, relRegistry, relHistory, registry, history, key, forecastOk, publish>>
  BY DEF Send, release, files
<1>2. failed' \in BOOLEAN /\ (failed => failed')
  BY DEF Send, IInv, RunTypeOK
<1>3. CASE pc' # "record"
  <2>1. accepted' = accepted /\ misread' = misread
    BY <1>3 DEF Send
  <2>2. RunTypeOK' /\ NoReleaseNoPost' /\ LockedIn(relRegistry, relHistory)'
        /\ LockedIn(registry, history)'
    BY <1>1, <1>2, <2>1 DEF IInv, RunTypeOK, NoReleaseNoPost, Unposted, LockedIn
  <2>3. FirstRun'
    BY <1>1, <2>1 DEF IInv, FirstRun, Unposted, Early
  <2>4. HoldsReservation' /\ DurableRun' /\ Unrecorded'
    BY <1>1, <1>3 DEF IInv, HoldsReservation, Sending, Preparing, Early, DurableRun, Durable,
                      Unrecorded
  <2>5. QED
    BY <2>2, <2>3, <2>4 DEF IInv
<1>4. CASE pc' = "record"
  <2>1. SendStep /\ Publishable /\ failed' = failed
    BY <1>1, <1>4 DEF Send
  <2>2. \/ /\ accepted' = [accepted EXCEPT ![key] = @ + 1]
           /\ misread' = IF reply' = "retryable" THEN [misread EXCEPT ![key] = @ + 1] ELSE misread
        \/ accepted' = accepted /\ misread' = misread
    BY <1>4 DEF Send
  <2>3. /\ ~failed /\ forecastOk /\ publish /\ key \in Keys
        /\ history # Missing /\ key \in history
        /\ registry # Missing /\ registry[key].status = "reserved" /\ accepted[key] <= misread[key]
        /\ released /\ relHistory = history /\ relRegistry = registry
    BY <1>1, <2>1 DEF SendStep, Publishable, IInv, FirstRun, HoldsReservation, Sending,
                      DurableRun, Durable
  <2>4. Locks(registry[key])
    BY <2>3 DEF Locks
  <2>5. /\ accepted' \in [Keys -> Nat] /\ misread' \in [Keys -> Nat]
        /\ \A k \in Keys : /\ misread'[k] <= accepted'[k] /\ accepted'[k] <= 1 + misread'[k]
                           /\ accepted'[k] > 0 => k = key \/ accepted[k] > 0
                           /\ accepted'[k] > misread'[k] => k = key \/ accepted[k] > misread[k]
        /\ reply' = "retryable" => accepted'[key] <= misread'[key]
    <3>1. /\ accepted \in [Keys -> Nat] /\ misread \in [Keys -> Nat]
          /\ \A k \in Keys : misread[k] <= accepted[k] /\ accepted[k] <= 1 + misread[k]
      BY DEF IInv, RunTypeOK
    <3>2. CASE accepted' = accepted /\ misread' = misread
      BY <2>3, <3>1, <3>2
    <3>3. CASE /\ accepted' = [accepted EXCEPT ![key] = @ + 1] /\ reply' = "retryable"
               /\ misread' = [misread EXCEPT ![key] = @ + 1]
      BY <2>3, <3>1, <3>3
    <3>4. CASE /\ accepted' = [accepted EXCEPT ![key] = @ + 1] /\ reply' # "retryable"
               /\ misread' = misread
      BY <2>3, <3>1, <3>4
    <3>5. QED
      BY <2>2, <3>2, <3>3, <3>4
  <2>6. RunTypeOK' /\ NoReleaseNoPost'
    <3>1. \A k \in Keys : misread'[k] <= accepted'[k] /\ accepted'[k] <= 1 + misread'[k]
      BY <2>5
    <3>2. accepted' \in [Keys -> Nat] /\ misread' \in [Keys -> Nat]
      BY <2>5
    <3>3. RunTypeOK'
      BY <1>1, <1>2, <3>1, <3>2 DEF IInv, RunTypeOK
    <3>4. NoReleaseNoPost'
      BY <1>1, <2>3 DEF NoReleaseNoPost
    <3>5. QED
      BY <3>3, <3>4
  <2>7. LockedIn(relRegistry, relHistory)' /\ LockedIn(registry, history)'
    <3>1. ASSUME NEW k \in Keys
          PROVE  /\ accepted'[k] > misread'[k] => Locks(registry[k])
                 /\ accepted'[k] > 0 => k \in history
      <4>1. CASE k = key
        BY <2>3, <2>4, <4>1
      <4>2. CASE k # key
        <5>1. LockedIn(registry, history) /\ registry # Missing /\ history # Missing
          BY <2>3 DEF IInv
        <5>2. /\ accepted[k] > misread[k] => Locks(registry[k])
              /\ accepted[k] > 0 => k \in history
          BY <5>1 DEF LockedIn
        <5>3. /\ accepted'[k] > 0 => k = key \/ accepted[k] > 0
              /\ accepted'[k] > misread'[k] => k = key \/ accepted[k] > misread[k]
          BY <2>5
        <5>4. QED
          BY <4>2, <5>2, <5>3
      <4>3. QED
        BY <4>1, <4>2
    <3>2. registry' = registry /\ history' = history /\ relRegistry' = registry /\ relHistory' = history
      BY <1>1, <2>3
    <3>3. QED
      BY <3>1, <3>2 DEF LockedIn
  <2>8. FirstRun'
    BY <1>1, <1>4, <2>3 DEF FirstRun, Early
  <2>9. HoldsReservation' /\ DurableRun' /\ Unrecorded'
    BY <1>1, <1>4, <2>3, <2>4, <2>5
       DEF HoldsReservation, Preparing, Early, Sending, DurableRun, Durable, Unrecorded
  <2>10. QED
    BY <2>6, <2>7, <2>8, <2>9 DEF IInv
<1>5. QED
  BY <1>3, <1>4

\* An accepted post is recorded as posted or ambiguous, or stays reserved.
LEMMA RecordReplyPreserves == ASSUME IInv, RecordReply PROVE IInv'
<1>1. pc = "record" /\ pc' = "observe_send"
      /\ UNCHANGED <<released, relRegistry, relHistory, history, key, forecastOk, publish, accepted, misread>>
  BY DEF RecordReply, release
<1>2. failed' \in BOOLEAN
  BY DEF RecordReply, IInv, RunTypeOK
<1>3. key \in Keys /\ registry # Missing /\ registry \in Registry /\ Locks(registry[key])
      /\ (reply = "retryable" => accepted[key] <= misread[key])
  BY <1>1 DEF IInv, Unrecorded, RunTypeOK
<1>4. /\ registry' \in Registry
      /\ accepted[key] > misread[key] => Locks(registry'[key])
      /\ \A j \in Keys : j # key => registry'[j] = registry[j]
  <2>1. CASE registry' = registry
    BY <1>3, <2>1
  <2>2. CASE registry' = MarkPosted(registry, key)
    BY <1>3, <2>2, RecordFacts
  <2>3. CASE registry' = MarkError(registry, key, "retryable") /\ reply = "retryable"
    <3>1. ~(accepted[key] > misread[key])
      BY <1>3, <2>3 DEF IInv, RunTypeOK
    <3>2. QED
      BY <1>3, <2>3, <3>1, RecordFacts
  <2>4. CASE registry' = MarkError(registry, key, "other")
    BY <1>3, <2>4, RecordFacts
  <2>5. QED
    BY <2>1, <2>2, <2>3, <2>4 DEF RecordReply
<1>5. registry' # Missing
  BY <1>4, ForecastRunAssumption
<1>6. RunTypeOK' /\ NoReleaseNoPost' /\ LockedIn(relRegistry, relHistory)'
  BY <1>1, <1>2, <1>4 DEF IInv, RunTypeOK, NoReleaseNoPost, Unposted, LockedIn
<1>7. LockedIn(registry, history)'
  <2>1. ASSUME NEW k \in Keys, accepted[k] > misread[k] PROVE Locks(registry'[k])
    BY <1>3, <1>4, <2>1 DEF IInv, LockedIn
  <2>2. \A k \in Keys : accepted[k] > 0 /\ history # Missing => k \in history
    BY DEF IInv, LockedIn
  <2>3. QED
    BY <1>1, <2>1, <2>2 DEF LockedIn
<1>8. FirstRun'
  BY <1>1, <1>5 DEF IInv, FirstRun, Early
<1>9. HoldsReservation' /\ DurableRun' /\ Unrecorded'
  BY <1>1 DEF IInv, HoldsReservation, Preparing, Early, Sending, DurableRun, Durable, Unrecorded
<1>10. QED
  BY <1>6, <1>7, <1>8, <1>9 DEF IInv

-----------------------------------------------------------------------------
\* Every step of the workflow, the loss of the runner and the hours that go by.
LEMMA NextPreserves == ASSUME IInv, [Next]_vars PROVE IInv'
<1>1. CASE vars' = vars
  <2>1. Quiet
    BY <1>1 DEF Quiet, vars, release, runVars, files, outputs, IInv, RunTypeOK
  <2>2. QED
    BY <2>1, QuietPreserves
<1>2. CASE Next
  BY <1>2, QuietSteps, QuietPreserves, RunGonePreserves, RestoreRegistryPreserves,
     RestorePreserves, ForecastPreserves, PreparePreserves, PublishHistoryPreserves,
     SendPreserves, RecordReplyPreserves, PersistPreserves
     DEF Next, Step, EndRun, RunnerLost
<1>3. QED
  BY <1>1, <1>2

\* The inductive invariant holds in every run of the workflow.
THEOREM WorkflowInvariance == Spec => []IInv
BY InitIInv, NextPreserves, PTL DEF Spec

(* X_POSTING.md, "prefers a missed post over a duplicate": no forecast is posted
   twice, whatever fails and however often the runs are repeated, but for each time that
   X accepted the post and the text of a late error read like that of an earlier one
   (classify_twikit_error). *)
THEOREM PostedAtMostOnce == Spec => []AtMostOnce
<1>1. IInv => AtMostOnce
  BY DEF IInv, RunTypeOK, AtMostOnce
<1>2. QED
  BY <1>1, WorkflowInvariance, PTL

\* A registry that a later run starts from locks whatever X accepted and was not
\* misread, and the history it starts from contains the forecast of whatever X
\* accepted (release_state.py keeps both).
THEOREM AcceptedStaysLocked == Spec => []AcceptedIsLocked
<1>1. IInv => AcceptedIsLocked
  BY DEF IInv, LockedIn, AcceptedIsLocked
<1>2. QED
  BY <1>1, WorkflowInvariance, PTL

-----------------------------------------------------------------------------
(* The health file.  Its form is kept by all that is done to it, so a run that has
   observed its forecast holds one, and the Release does when it was persisted. *)
BeforePersist == Preparing \union {"observe_prepare", "publish_history", "observe_history",
                                  "persist_health"}
Observing == {"pre_gate", "prepare", "observe_prepare", "publish_history", "observe_history",
              "persist_health", "final_gate", "send", "record", "observe_send"}

HealthKnown ==
    /\ health \in Health \union {Missing} /\ relHealth \in Health \union {Missing}
    /\ pc \in Observing => health \in Health
    /\ healthPersisted => /\ pc \notin BeforePersist
                          /\ pc \in {"final_gate", "send"} => relHealth \in Health

LEMMA UpdateIsHealth ==
    ASSUME NEW h \in Health, NEW s \in Stages, NEW c \in CircuitStates, NEW n \in 0 .. 3
    PROVE  UpdateStage(h, s, c, n) \in Health
<1> DEFINE C == [h.circuit EXCEPT ![s] = c]
           F == [h.failures EXCEPT ![s] = n]
           A == IF s = "x_post" THEN 0 ELSE h.age
<1>1. UpdateStage(h, s, c, n) = [h EXCEPT !.circuit = C, !.failures = F, !.age = A]
  BY DEF UpdateStage, Health
<1>2. C \in [Stages -> CircuitStates] /\ F \in [Stages -> 0 .. 3] /\ A \in 0 .. Cooldown
  BY CooldownAssumption DEF Health
<1> HIDE DEF C, F, A
<1>3. QED
  BY <1>1, <1>2 DEF Health

LEMMA RecordIsHealth ==
    ASSUME NEW h \in Health, NEW s \in Stages
    PROVE  RecordSuccess(h, s) \in Health /\ RecordFailure(h, s) \in Health
<1>1. FailureCount(h, s) \in 0 .. 3 /\ 0 \in 0 .. 3
  BY DEF FailureCount, Threshold, Stages, Health
<1>2. "open" \in CircuitStates /\ "closed" \in CircuitStates
  BY DEF CircuitStates
<1>3. QED
  BY <1>1, <1>2, UpdateIsHealth DEF RecordSuccess, RecordFailure

LEMMA ObserveIsHealth ==
    ASSUME NEW h \in Health, NEW o \in {"success", "failure"},
           NEW v \in {"ok", "failed", "absent"}, NEW d \in {"normal", "severe", "absent"},
           NEW x, NEW i
    PROVE  /\ ObserveForecast(h, o, v, d) \in Health /\ ObserveHistory(h, o) \in Health
           /\ ObserveX(h, x) \in Health /\ AfterGate(h, i) \in Health /\ Aged(h) \in Health
<1>1. {"forecast", "market_data", "history", "x_post"} \subseteq Stages
  BY DEF Stages
<1>2. \A g \in Health, s \in Stages : Record(g, s, o) \in Health
  BY RecordIsHealth DEF Record
<1>3. ObserveForecastOutcome(h, o) \in Health
  BY <1>1, <1>2 DEF ObserveForecastOutcome, Normalized, Health
<1>4. ASSUME NEW g \in Health PROVE ObserveValidation(g, o, v) \in Health
  <2>1. \A m \in {"unknown", "healthy", "unhealthy"}, f \in Health : [f EXCEPT !.market = m] \in Health
    BY DEF Health
  <2>2. RecordSuccess(g, "market_data") \in Health /\ RecordFailure(g, "market_data") \in Health
    BY <1>1, RecordIsHealth
  <2>3. QED
    BY <2>1, <2>2 DEF ObserveValidation
<1>5. \A g \in Health : ObserveDrift(g, o, d) \in Health
  BY DEF ObserveDrift, Health
<1>6. ObserveForecast(h, o, v, d) \in Health
  BY <1>3, <1>4, <1>5 DEF ObserveForecast
<1>7. ObserveHistory(h, o) \in Health
  BY <1>1, <1>2 DEF ObserveHistory, Normalized, Health
<1>8. ObserveX(h, x) \in Health
  BY <1>1, RecordIsHealth DEF ObserveX
<1>9. AfterGate(h, i) \in Health
  <2> DEFINE circuit == [h.circuit EXCEPT !["x_post"] = "half_open"]
  <2>1. circuit \in [Stages -> CircuitStates] /\ 0 \in 0 .. Cooldown
    <3>1. "half_open" \in CircuitStates /\ h.circuit \in [Stages -> CircuitStates]
      BY DEF CircuitStates, Health
    <3>2. circuit \in [Stages -> CircuitStates]
      BY <3>1
    <3>3. 0 \in 0 .. Cooldown
      BY CooldownAssumption
    <3>4. QED
      BY <3>2, <3>3
  <2>2. AfterGate(h, i) = IF ProbeDue(h, i) THEN [h EXCEPT !.circuit = circuit, !.age = 0] ELSE h
    BY DEF AfterGate, Health
  <2> HIDE DEF circuit
  <2>3. [h EXCEPT !.circuit = circuit, !.age = 0] \in Health
    BY <2>1 DEF Health
  <2>4. QED
    BY <2>2, <2>3
<1>10. Aged(h) \in Health
  BY CooldownAssumption DEF Aged, Health
<1>11. QED
  BY <1>6, <1>7, <1>8, <1>9, <1>10

LEMMA HealthKept ==
    ASSUME HealthKnown, [Next]_vars PROVE HealthKnown'
<1> USE ForecastRunAssumption
<1>1. CASE StartRun \/ Guard \/ RestoreRegistry \/ UNCHANGED vars
  BY <1>1 DEF StartRun, Guard, RestoreRegistry, HealthKnown, release, runVars, files, outputs, vars,
              Observing, BeforePersist, Preparing, Early
<1>2. CASE EndRun \/ RunnerLost
  BY <1>2 DEF EndRun, RunnerLost, RunGone, HealthKnown, release, Observing, BeforePersist,
              Preparing, Early
<1>3. CASE Restore
  BY <1>3 DEF Restore, HealthKnown, release, files, outputs, Observing, BeforePersist,
              Preparing, Early
<1>4. CASE Forecast
  <2>1. LocalHealth \in Health
    <3>1. InitialHealth \in Health
      BY CooldownAssumption DEF InitialHealth, Health, CircuitStates
    <3>2. QED
      BY <3>1 DEF LocalHealth, HealthKnown
  <2>2. health' \in Health
    BY <1>4, <2>1, ObserveIsHealth DEF Forecast
  <2>3. QED
    BY <1>4, <2>2 DEF Forecast, HealthKnown, release, outputs, BeforePersist, Preparing, Early
<1>5. CASE PreGate \/ ObservePrepare \/ ObserveHistoryStep \/ ObserveSend
  <2>1. health \in Health => health' \in Health
    BY <1>5, ObserveIsHealth DEF PreGate, ObservePrepare, ObserveHistoryStep, ObserveSend
  <2>2. QED
    BY <1>5, <2>1
       DEF PreGate, ObservePrepare, ObserveHistoryStep, ObserveSend, HealthKnown, release, outputs,
           Observing, BeforePersist, Preparing, Early
<1>6. CASE Prepare \/ Send \/ RecordReply
  BY <1>6 DEF Prepare, Send, RecordReply, HealthKnown, release, files, Observing, BeforePersist,
              Preparing, Early
<1>7. CASE PublishHistory
  BY <1>7 DEF PublishHistory, HealthKnown, Interrupted, files, release, Observing, BeforePersist,
              Preparing, Early
<1>8. CASE PersistHealth
  BY <1>8 DEF PersistHealth, HealthKnown, Interrupted, files, Observing, BeforePersist,
              Preparing, Early
<1>9. CASE FinalGate
  <2>1. health \in Health => health' \in Health
    BY <1>9, ObserveIsHealth DEF FinalGate
  <2>2. QED
    BY <1>9, <2>1 DEF FinalGate, HealthKnown, release, Observing, BeforePersist, Preparing, Early
<1>10. CASE Persist
  BY <1>10 DEF Persist, HealthKnown, Interrupted, files, outputs, Observing, BeforePersist,
               Preparing, Early
<1>11. CASE Tick
  <2>1. /\ health' \in Health \union {Missing} /\ relHealth' \in Health \union {Missing}
        /\ health \in Health => health' \in Health
        /\ relHealth \in Health => relHealth' \in Health
    BY <1>11, ObserveIsHealth DEF Tick, AgedFile, HealthKnown
  <2>2. QED
    BY <1>11, <2>1 DEF Tick, HealthKnown, outputs
<1>12. QED
  BY <1>1, <1>2, <1>3, <1>4, <1>5, <1>6, <1>7, <1>8, <1>9, <1>10, <1>11 DEF Next, Step

\* Only the call of X makes it accept a post.
LEMMA OnlySendAccepts == [Next]_vars /\ accepted' # accepted => Send
BY DEF Next, Step, vars, release, runVars, files, outputs, StartRun, RestoreRegistry, Guard,
       Restore, Forecast, PreGate, Prepare, ObservePrepare, PublishHistory, ObserveHistoryStep,
       PersistHealth, FinalGate, RecordReply, ObserveSend, Persist, EndRun, RunnerLost, RunGone,
       Tick

\* What the Release holds when it does.
LEMMA OnlySendPosts ==
    ASSUME IInv, HealthKnown, [Next]_vars, accepted' # accepted
    PROVE  /\ relRegistry # Missing /\ relRegistry[key].status = "reserved"
           /\ relHistory # Missing /\ key \in relHistory
           /\ relHealth # Missing
<1>1. Send
  BY OnlySendAccepts
<1>2. pc = "send" /\ SendStep /\ Publishable
  BY <1>1 DEF Send
<1>3. /\ history # Missing /\ key \in history
      /\ registry # Missing /\ registry[key].status = "reserved"
      /\ released /\ relHistory = history /\ relRegistry = registry
  BY <1>2 DEF SendStep, Publishable, IInv, FirstRun, HoldsReservation, Sending, DurableRun, Durable
<1>4. relHealth # Missing
  BY <1>2, ForecastRunAssumption DEF SendStep, HealthKnown
<1>5. QED
  BY <1>3, <1>4

(* forecast.yml publishes the history, the reservation and the health before it calls
   X: what X accepts, the Release already holds, whatever becomes of the runner. *)
THEOREM PostedIsDurable == Spec => DurableBeforePost
<1>1. Init => HealthKnown
  BY DEF Init, HealthKnown, Observing
<1>2. Init => IInv /\ HealthKnown
  BY <1>1, InitIInv
<1>3. IInv /\ HealthKnown /\ [Next]_vars => IInv' /\ HealthKnown'
  BY NextPreserves, HealthKept
<1>4. IInv /\ HealthKnown /\ [Next]_vars =>
        (accepted' # accepted =>
           /\ relRegistry # Missing /\ relRegistry[key].status = "reserved"
           /\ relHistory # Missing /\ key \in relHistory
           /\ relHealth # Missing)
  BY OnlySendPosts
<1>5. QED
  BY <1>2, <1>3, <1>4, PTL DEF Spec, DurableBeforePost

-----------------------------------------------------------------------------
(* The evidence a post is made on.  A reservation closes the X circuit, and what the
   final gate has seen of the other circuits and of the signals stays until the call:
   only the clock goes on. *)
SidesKnown(h) == h # Missing => \A s \in Stages \ {"x_post"} : h.circuit[s] # "half_open"

Healthy(h) ==
    /\ h.market = "healthy" /\ h.drift # "severe" /\ h.history = "success"
    /\ \A s \in Stages : h.circuit[s] = "closed"

EvidenceKnown ==
    /\ SidesKnown(health) /\ SidesKnown(relHealth)
    /\ forecastOk => /\ pc \notin Early /\ health.market = "healthy"
                     /\ pc \in {"persist_health", "final_gate", "send"} =>
                           health.history \in {"success", "failure"}
    /\ publish => /\ pc \notin Preparing /\ Posting
                  /\ pc = "observe_prepare" => xstatus = "prepared"
                  /\ pc \in Sending \ {"observe_prepare"} => health.circuit["x_post"] = "closed"
    /\ (pc = "send" /\ forecastOk /\ publish /\ finalAllow) => Healthy(health)

\* What stays of the health in an observation of stage s.
SameSignals(g, h) ==
    g.market = h.market /\ g.drift = h.drift /\ g.history = h.history /\ g.forecast = h.forecast

LEMMA UpdateTouchesOne ==
    ASSUME NEW h \in Health, NEW s \in Stages, NEW c \in CircuitStates, NEW n \in 0 .. 3,
           NEW g, g = UpdateStage(h, s, c, n), NEW t \in Stages
    PROVE  /\ g \in Health /\ SameSignals(g, h)
           /\ g.circuit[t] = IF t = s THEN c ELSE h.circuit[t]
<1> DEFINE C == [h.circuit EXCEPT ![s] = c]
           F == [h.failures EXCEPT ![s] = n]
           A == IF s = "x_post" THEN 0 ELSE h.age
<1>1. C[t] = IF t = s THEN c ELSE h.circuit[t]
  BY DEF Health
<1>2. g = [h EXCEPT !.circuit = C, !.failures = F, !.age = A]
  BY DEF UpdateStage, Health
<1> HIDE DEF C, F, A
<1>3. g.circuit = C /\ SameSignals(g, h)
  BY <1>2 DEF Health, SameSignals
<1>4. QED
  BY <1>1, <1>3, UpdateIsHealth

\* ... which closes the circuit of the stage, or opens it after a failure.
LEMMA RecordTouchesOne ==
    ASSUME NEW h \in Health, NEW s \in Stages,
           NEW g, g = RecordSuccess(h, s) \/ g = RecordFailure(h, s), NEW t \in Stages
    PROVE  /\ g \in Health /\ SameSignals(g, h)
           /\ g.circuit[s] \in {"closed", "open"}
           /\ g = RecordSuccess(h, s) => g.circuit[s] = "closed"
           /\ t # s => g.circuit[t] = h.circuit[t]
<1>1. PICK n \in 0 .. 3, c \in CircuitStates :
        /\ g = UpdateStage(h, s, c, n) /\ c \in {"closed", "open"}
        /\ g = RecordSuccess(h, s) => c = "closed"
  <2>1. CASE g = RecordSuccess(h, s)
    <3>1. 0 \in 0 .. 3 /\ "closed" \in CircuitStates /\ g = UpdateStage(h, s, "closed", 0)
      BY <2>1 DEF RecordSuccess, CircuitStates
    <3>2. QED
      BY <3>1
  <2>2. CASE g # RecordSuccess(h, s)
    <3> DEFINE n == FailureCount(h, s)
               c == IF n = Threshold[s] THEN "open" ELSE "closed"
    <3>1. n \in 0 .. 3
      BY DEF FailureCount, Threshold, Stages, Health
    <3>2. g = UpdateStage(h, s, c, n)
      BY <2>2 DEF RecordFailure
    <3>3. c \in CircuitStates /\ c \in {"closed", "open"}
      BY DEF CircuitStates
    <3> HIDE DEF n, c
    <3>4. QED
      BY <2>2, <3>1, <3>2, <3>3
  <2>3. QED
    BY <2>1, <2>2
<1>2. g \in Health /\ SameSignals(g, h) /\ g.circuit[s] = c
  BY <1>1, UpdateTouchesOne
<1>3. t # s => g.circuit[t] = h.circuit[t]
  BY <1>1, UpdateTouchesOne
<1>4. QED
  BY <1>1, <1>2, <1>3

\* The side circuits are never half-open, and what one stage reports is its own.
LEMMA ObservationFacts ==
    ASSUME NEW h \in Health, SidesKnown(h), NEW o \in {"success", "failure"},
           NEW v \in {"ok", "failed", "absent"}, NEW d \in {"normal", "severe", "absent"}, NEW x
    PROVE  /\ SidesKnown(ObserveForecast(h, o, v, d))
           /\ v = "ok" => ObserveForecast(h, o, v, d).market = "healthy"
           /\ SidesKnown(ObserveHistory(h, o))
           /\ ObserveHistory(h, o).market = h.market
           /\ ObserveHistory(h, o).history \in {"success", "failure"}
           /\ ObserveHistory(h, o).circuit["x_post"] = h.circuit["x_post"]
           /\ SidesKnown(ObserveX(h, x)) /\ SameSignals(ObserveX(h, x), h)
           /\ x \in XSuccesses => ObserveX(h, x).circuit["x_post"] = "closed"
<1>1. {"forecast", "market_data", "history", "x_post"} \subseteq Stages
  BY DEF Stages
<1>2. ASSUME NEW g \in Health, SidesKnown(g), NEW s \in Stages, NEW f,
             f = RecordSuccess(g, s) \/ f = RecordFailure(g, s)
      PROVE  f \in Health /\ SidesKnown(f) /\ SameSignals(f, g)
  <2>1. /\ f \in Health /\ SameSignals(f, g) /\ f.circuit[s] \in {"closed", "open"}
        /\ \A t \in Stages \ {s} : f.circuit[t] = g.circuit[t]
    BY <1>2, RecordTouchesOne
  <2>2. g # Missing
    BY ForecastRunAssumption
  <2>3. SidesKnown(f)
    <3>1. ASSUME NEW t \in Stages \ {"x_post"} PROVE f.circuit[t] # "half_open"
      BY <1>2, <2>1, <2>2 DEF SidesKnown
    <3>2. QED
      BY <3>1 DEF SidesKnown
  <2>4. QED
    BY <2>1, <2>3
<1>3. ASSUME NEW g \in Health, NEW f,
             \/ \E m \in {"unknown", "healthy", "unhealthy"} : f = [g EXCEPT !.market = m]
             \/ \E m \in {"unknown", "normal", "severe"} : f = [g EXCEPT !.drift = m]
             \/ \E m \in {"success", "failure"} :
                   f = [g EXCEPT !.forecast = m] \/ f = [g EXCEPT !.history = m]
      PROVE  f \in Health /\ f.circuit = g.circuit
  BY <1>3 DEF Health
<1>4. ASSUME NEW g \in Health, SidesKnown(g), NEW f \in Health, f.circuit = g.circuit
      PROVE  SidesKnown(f)
  BY <1>4, ForecastRunAssumption DEF SidesKnown
<1> DEFINE f1 == Record(h, "forecast", o)
           f2 == ObserveForecastOutcome(h, o)
           f3 == ObserveValidation(f2, o, v)
           f4 == ObserveDrift(f3, o, d)
<1>5. f2 \in Health /\ SidesKnown(f2)
  <2>1. f1 \in Health /\ SidesKnown(f1)
    BY <1>1, <1>2 DEF Record
  <2>2. f2 = [f1 EXCEPT !.forecast = Normalized(o)] /\ Normalized(o) \in {"success", "failure"}
    BY DEF ObserveForecastOutcome, Normalized
  <2> HIDE DEF f1, f2
  <2>3. QED
    BY <1>3, <1>4, <2>1, <2>2
<1> HIDE DEF f2
<1>6. f3 \in Health /\ SidesKnown(f3) /\ (v = "ok" => f3.market = "healthy")
  <2>1. CASE v = "absent"
    <3>1. f3 = f2 \/ f3 = [f2 EXCEPT !.market = "unknown"]
      BY <2>1 DEF ObserveValidation
    <3> HIDE DEF f3
    <3>2. QED
      BY <1>3, <1>4, <1>5, <2>1, <3>1
  <2>2. CASE v # "absent"
    <3> DEFINE m == IF v = "ok" THEN "healthy" ELSE "unhealthy"
               g == IF v = "ok" THEN RecordSuccess(f2, "market_data")
                    ELSE RecordFailure(f2, "market_data")
    <3>1. f3 = [g EXCEPT !.market = m]
      BY <2>2 DEF ObserveValidation
    <3>2. g \in Health /\ SidesKnown(g)
      BY <1>1, <1>2, <1>5
    <3> HIDE DEF g, f3
    <3>3. f3 \in Health /\ f3.circuit = g.circuit /\ f3.market = m
      BY <3>1, <3>2 DEF Health
    <3>4. QED
      BY <1>4, <3>2, <3>3
  <2>3. QED
    BY <2>1, <2>2
<1> HIDE DEF f3
<1>7. SidesKnown(f4) /\ f4.market = f3.market
  <2>1. f4 = f3 \/ \E m \in {"unknown", "normal", "severe"} : f4 = [f3 EXCEPT !.drift = m]
    BY DEF ObserveDrift
  <2> HIDE DEF f4
  <2>2. f4 \in Health /\ f4.circuit = f3.circuit /\ f4.market = f3.market
    BY <1>6, <2>1 DEF Health
  <2>3. QED
    BY <1>4, <1>6, <2>2
<1>8. ObserveForecast(h, o, v, d) = f4
  BY DEF ObserveForecast, f2, f3
<1> HIDE DEF f4
<1>9. /\ SidesKnown(ObserveHistory(h, o)) /\ ObserveHistory(h, o).market = h.market
      /\ ObserveHistory(h, o).history \in {"success", "failure"}
      /\ ObserveHistory(h, o).circuit["x_post"] = h.circuit["x_post"]
  <2> DEFINE g == Record(h, "history", o)
  <2>1. /\ g \in Health /\ SidesKnown(g) /\ SameSignals(g, h)
        /\ g.circuit["x_post"] = h.circuit["x_post"]
    BY <1>1, <1>2, RecordTouchesOne DEF Record
  <2>2. ObserveHistory(h, o) = [g EXCEPT !.history = Normalized(o)]
    BY DEF ObserveHistory
  <2>3. Normalized(o) \in {"success", "failure"}
    BY DEF Normalized
  <2> HIDE DEF g
  <2>4. /\ ObserveHistory(h, o) \in Health
        /\ ObserveHistory(h, o).circuit = g.circuit /\ ObserveHistory(h, o).market = g.market
        /\ ObserveHistory(h, o).history = Normalized(o)
    BY <2>1, <2>2, <2>3 DEF Health
  <2>5. QED
    BY <1>4, <2>1, <2>3, <2>4 DEF SameSignals
<1>10. /\ SidesKnown(ObserveX(h, x)) /\ SameSignals(ObserveX(h, x), h)
       /\ x \in XSuccesses => ObserveX(h, x).circuit["x_post"] = "closed"
  <2>1. CASE x \in XSuccesses
    <3>1. ObserveX(h, x) = RecordSuccess(h, "x_post")
      BY <2>1 DEF ObserveX, XSuccesses, XFailures
    <3>2. QED
      BY <1>1, <1>2, <3>1, RecordTouchesOne
  <2>2. CASE x \notin XSuccesses /\ x \in XFailures
    BY <1>1, <1>2, <2>2, RecordTouchesOne DEF ObserveX, XSuccesses, XFailures
  <2>3. CASE x \notin XSuccesses /\ x \notin XFailures
    BY <2>3 DEF ObserveX, SameSignals
  <2>4. QED
    BY <2>1, <2>2, <2>3
<1>11. QED
  BY <1>6, <1>7, <1>8, <1>9, <1>10

\* A gate with a closed X circuit leaves the state as it is, one without only
\* changes that circuit, and the clock changes no circuit and no signal.
LEMMA CarriedFacts ==
    ASSUME NEW h \in Health, SidesKnown(h), NEW i
    PROVE  /\ SidesKnown(AfterGate(h, i)) /\ SameSignals(AfterGate(h, i), h)
           /\ h.circuit["x_post"] = "closed" => AfterGate(h, i) = h
           /\ Aged(h).circuit = h.circuit /\ SameSignals(Aged(h), h) /\ SidesKnown(Aged(h))
<1>1. h # Missing
  BY ForecastRunAssumption
<1>2. Aged(h).circuit = h.circuit /\ SameSignals(Aged(h), h)
  BY DEF Aged, Health, SameSignals
<1>3. SidesKnown(Aged(h))
  BY <1>1, <1>2 DEF SidesKnown
<1>4. h.circuit["x_post"] = "closed" => AfterGate(h, i) = h
  BY DEF AfterGate, ProbeDue
<1>5. SidesKnown(AfterGate(h, i)) /\ SameSignals(AfterGate(h, i), h)
  <2> DEFINE circuit == [h.circuit EXCEPT !["x_post"] = "half_open"]
             g == [h EXCEPT !.circuit = circuit, !.age = 0]
  <2>1. \A s \in Stages \ {"x_post"} : circuit[s] = h.circuit[s]
    BY DEF Health
  <2>2. AfterGate(h, i) = g \/ AfterGate(h, i) = h
    BY DEF AfterGate, Health
  <2> HIDE DEF circuit
  <2>3. g.circuit = circuit /\ SameSignals(g, h)
    BY DEF Health, SameSignals
  <2> HIDE DEF g
  <2>4. SidesKnown(g)
    BY <1>1, <2>1, <2>3 DEF SidesKnown
  <2>5. QED
    BY <2>2, <2>3, <2>4 DEF SameSignals
<1>6. QED
  BY <1>2, <1>3, <1>4, <1>5

\* The state a first run observes into.
LEMMA LocalHealthFacts ==
    HealthKnown /\ SidesKnown(health) => LocalHealth \in Health /\ SidesKnown(LocalHealth)
<1>1. InitialHealth \in Health /\ \A s \in Stages : InitialHealth.circuit[s] = "closed"
  BY CooldownAssumption DEF InitialHealth, Health, CircuitStates
<1>2. SidesKnown(InitialHealth)
  BY <1>1 DEF SidesKnown
<1>3. QED
  BY <1>1, <1>2 DEF LocalHealth, HealthKnown

\* What a gate that ignores nothing lets through, when the run has said how its
\* history went.
LEMMA AllowedIsHealthy ==
    ASSUME NEW h \in Health, SidesKnown(h), GateAllows(h, {}), h.market = "healthy",
           h.history \in {"success", "failure"}, h.circuit["x_post"] = "closed"
    PROVE  Healthy(h)
<1>1. h.drift # "severe" /\ h.history # "failure"
  <2>1. \A b : b \notin SignalBlockers(h, {})
    BY DEF GateAllows
  <2>2. "severe_model_or_feature_drift" \notin SignalBlockers(h, {})
        /\ "current_history_persistence_failed" \notin SignalBlockers(h, {})
    BY <2>1
  <2>3. QED
    BY <2>2 DEF SignalBlockers
<1>2. \A s \in {"market_data", "forecast", "history"} : h.circuit[s] # "open"
  <2>1. \A s : s \notin CircuitBlockers(h, {})
    BY DEF GateAllows
  <2>2. QED
    BY <2>1 DEF CircuitBlockers
<1>3. \A s \in {"market_data", "forecast", "history"} : h.circuit[s] # "half_open"
  BY ForecastRunAssumption DEF SidesKnown, Stages
<1>4. \A s \in Stages : h.circuit[s] \in CircuitStates
  BY DEF Health
<1>5. \A s \in Stages : h.circuit[s] = "closed"
  BY <1>2, <1>3, <1>4 DEF Stages, CircuitStates
<1>6. QED
  BY <1>1, <1>5 DEF Healthy

\* The evidence is kept by every step of the workflow.
LEMMA EvidenceKept ==
    ASSUME HealthKnown, EvidenceKnown, [Next]_vars PROVE EvidenceKnown'
<1>0. SidesKnown(Missing)
  BY DEF SidesKnown
<1>1. CASE StartRun \/ Guard \/ RestoreRegistry \/ UNCHANGED vars
  BY <1>1 DEF StartRun, Guard, RestoreRegistry, EvidenceKnown, release, runVars, files, outputs,
              vars, Early, Preparing, Posting, Sending, SidesKnown
<1>2. CASE EndRun \/ RunnerLost
  BY <1>0, <1>2 DEF EndRun, RunnerLost, RunGone, EvidenceKnown, release
<1>3. CASE Restore
  BY <1>3 DEF Restore, EvidenceKnown, release, files, outputs, Early, Preparing
<1>4. CASE Forecast
  <2>1. LocalHealth \in Health /\ SidesKnown(LocalHealth)
    BY LocalHealthFacts DEF EvidenceKnown
  <2>2. SidesKnown(health') /\ (forecastOk' /\ ~forecastOk => health'.market = "healthy")
    <3>1. CASE \E d \in {"normal", "severe"} :
                  health' = ObserveForecast(LocalHealth, "success", "ok", d)
      BY <2>1, <3>1, ObservationFacts
    <3>2. CASE /\ forecastOk' = forecastOk
               /\ \E v \in {"ok", "failed", "absent"}, d \in {"normal", "severe", "absent"} :
                     health' = ObserveForecast(LocalHealth, "failure", v, d)
      BY <2>1, <3>2, ObservationFacts
    <3>3. QED
      BY <1>4, <3>1, <3>2 DEF Forecast
  <2>3. ~forecastOk /\ ~publish /\ publish' = publish /\ pc' = "pre_gate"
        /\ relHealth' = relHealth
    BY <1>4 DEF Forecast, EvidenceKnown, Early, Preparing, outputs, release
  <2>4. QED
    BY <2>2, <2>3 DEF EvidenceKnown, Early
<1>5. CASE PreGate
  <2>1. health \in Health /\ pc' = "prepare" /\ ~publish
    BY <1>5 DEF PreGate, HealthKnown, Observing, EvidenceKnown, Preparing
  <2>2. SidesKnown(health') /\ SameSignals(health', health)
    <3>1. health' = health \/ health' = AfterGate(health, {"history"})
      BY <1>5 DEF PreGate
    <3>2. QED
      BY <2>1, <3>1, CarriedFacts DEF EvidenceKnown, SameSignals
  <2>3. QED
    BY <1>5, <2>1, <2>2
       DEF PreGate, EvidenceKnown, SameSignals, release, runVars, Early
<1>6. CASE Prepare
  BY <1>6 DEF Prepare, PrepareStep, EvidenceKnown, release, Early, Preparing, Posting, Sending
<1>7. CASE ObservePrepare
  <2>1. health \in Health /\ pc = "observe_prepare" /\ pc' = "publish_history"
    BY <1>7 DEF ObservePrepare, HealthKnown, Observing
  <2>2. /\ SidesKnown(health') /\ SameSignals(health', health)
        /\ publish => health'.circuit["x_post"] = "closed"
    <3>1. CASE Posting
      <4>1. health' = ObserveX(health, xstatus)
        BY <1>7, <3>1 DEF ObservePrepare
      <4>2. publish => xstatus \in XSuccesses
        BY <2>1 DEF EvidenceKnown, XSuccesses
      <4>3. SidesKnown(health)
        BY DEF EvidenceKnown
      <4>4. /\ SidesKnown(ObserveX(health, xstatus))
            /\ SameSignals(ObserveX(health, xstatus), health)
            /\ xstatus \in XSuccesses => ObserveX(health, xstatus).circuit["x_post"] = "closed"
        BY <2>1, <4>3, ObservationFacts
      <4>5. QED
        BY <4>1, <4>2, <4>4
    <3>2. CASE ~Posting
      <4>1. health' = health /\ ~publish
        BY <1>7, <3>2 DEF ObservePrepare, EvidenceKnown
      <4>2. QED
        BY <4>1 DEF EvidenceKnown, SameSignals
    <3>3. QED
      BY <3>1, <3>2
  <2>3. QED
    BY <1>7, <2>1, <2>2
       DEF ObservePrepare, EvidenceKnown, SameSignals, release, runVars, outputs, Early, Preparing,
           Posting, Sending
<1>8. CASE PublishHistory
  <2>1. relHealth' \in {relHealth, health, Missing} /\ health' = health
    BY <1>8 DEF PublishHistory, Interrupted, release, files
  <2>2. SidesKnown(relHealth')
    BY <1>0, <2>1 DEF EvidenceKnown
  <2>3. /\ pc = "publish_history" /\ pc' = "observe_history"
        /\ UNCHANGED <<health, forecastOk, publish, event>>
    BY <1>8 DEF PublishHistory, files
  <2>4. QED
    BY <2>2, <2>3 DEF EvidenceKnown, Early, Preparing, Posting, Sending
<1>9. CASE ObserveHistoryStep
  <2>1. health \in Health /\ pc = "observe_history" /\ pc' = "persist_health"
    BY <1>9 DEF ObserveHistoryStep, HealthKnown, Observing
  <2>2. /\ SidesKnown(health')
        /\ forecastOk => /\ health'.market = health.market
                         /\ health'.history \in {"success", "failure"}
        /\ health'.circuit["x_post"] = health.circuit["x_post"]
    <3>1. CASE forecastOk
      <4>1. PICK o \in {"success", "failure"} : health' = ObserveHistory(health, o)
        BY <1>9, <3>1 DEF ObserveHistoryStep
      <4>2. SidesKnown(health)
        BY DEF EvidenceKnown
      <4>3. QED
        BY <2>1, <4>1, <4>2, ObservationFacts
    <3>2. CASE ~forecastOk
      BY <1>9, <3>2 DEF ObserveHistoryStep, EvidenceKnown
    <3>3. QED
      BY <3>1, <3>2
  <2>3. QED
    BY <1>9, <2>1, <2>2
       DEF ObserveHistoryStep, EvidenceKnown, release, runVars, outputs, Early, Preparing, Posting,
           Sending
<1>10. CASE PersistHealth
  <2>1. relHealth' \in {relHealth, health, Missing}
    BY <1>10 DEF PersistHealth, Interrupted
  <2>2. SidesKnown(relHealth')
    BY <1>0, <2>1 DEF EvidenceKnown
  <2>3. /\ pc = "persist_health" /\ pc' = "final_gate"
        /\ UNCHANGED <<health, forecastOk, publish, event>>
    BY <1>10 DEF PersistHealth, files
  <2>4. QED
    BY <2>2, <2>3 DEF EvidenceKnown, Early, Preparing, Posting, Sending
<1>11. CASE FinalGate
  <2>1. /\ health \in Health /\ pc = "final_gate" /\ pc' = "send"
        /\ UNCHANGED <<relHealth, forecastOk, publish, event>>
    BY <1>11 DEF FinalGate, HealthKnown, Observing, release
  <2>2. CASE Posting
    <3>1. health' = AfterGate(health, {}) /\ finalAllow' = GateAllows(health, {})
      BY <1>11, <2>2 DEF FinalGate
    <3>2. SidesKnown(health') /\ SameSignals(health', health)
      BY <2>1, <3>1, CarriedFacts DEF EvidenceKnown
    <3>3. publish => health' = health /\ health.circuit["x_post"] = "closed"
      BY <2>1, <3>1, CarriedFacts DEF EvidenceKnown, Sending
    <3>4. forecastOk /\ publish /\ finalAllow' => Healthy(health')
      BY <2>1, <3>1, <3>3, AllowedIsHealthy DEF EvidenceKnown
    <3>5. QED
      BY <2>1, <2>2, <3>2, <3>3, <3>4
         DEF EvidenceKnown, SameSignals, Early, Preparing, Posting, Sending
  <2>3. CASE ~Posting
    <3>1. health' = health /\ ~publish
      BY <1>11, <2>3 DEF FinalGate, EvidenceKnown
    <3>2. QED
      BY <2>1, <3>1 DEF EvidenceKnown, Early
  <2>4. QED
    BY <2>2, <2>3
<1>12. CASE Send
  BY <1>12 DEF Send, EvidenceKnown, release, files, Early, Preparing, Posting, Sending
<1>13. CASE RecordReply
  BY <1>13 DEF RecordReply, EvidenceKnown, release, Early, Preparing, Posting, Sending
<1>14. CASE ObserveSend
  <2>1. health \in Health /\ pc = "observe_send" /\ pc' = "persist"
    BY <1>14 DEF ObserveSend, HealthKnown, Observing
  <2>2. SidesKnown(health') /\ SameSignals(health', health)
    BY <1>14, <2>1, ObservationFacts DEF ObserveSend, EvidenceKnown
  <2>3. QED
    BY <1>14, <2>1, <2>2
       DEF ObserveSend, EvidenceKnown, SameSignals, release, runVars, outputs, Early, Preparing,
           Posting, Sending
<1>15. CASE Persist
  <2>1. relHealth' \in {relHealth, health, Missing}
    BY <1>15 DEF Persist, Interrupted
  <2>2. SidesKnown(relHealth')
    BY <1>0, <2>1 DEF EvidenceKnown
  <2>3. QED
    BY <1>15, <2>2
       DEF Persist, EvidenceKnown, runVars, files, outputs, Early, Preparing, Posting, Sending
<1>16. CASE Tick
  <2>1. /\ UNCHANGED <<pc, event, forecastOk, publish, xstatus, finalAllow>>
        /\ health' = AgedFile(health) /\ relHealth' = AgedFile(relHealth)
    BY <1>16 DEF Tick, runVars, outputs
  <2>2. SidesKnown(health') /\ SidesKnown(relHealth')
    BY <1>0, <2>1, CarriedFacts DEF AgedFile, HealthKnown, EvidenceKnown
  <2>3. health' = health \/ (health'.circuit = health.circuit /\ SameSignals(health', health))
    BY <2>1, CarriedFacts DEF AgedFile, HealthKnown, EvidenceKnown
  <2>4. QED
    BY <2>1, <2>2, <2>3 DEF EvidenceKnown, SameSignals, Healthy, Posting
<1>17. QED
  BY <1>1, <1>2, <1>3, <1>4, <1>5, <1>6, <1>7, <1>8, <1>9, <1>10, <1>11, <1>12, <1>13, <1>14,
     <1>15, <1>16
     DEF Next, Step

(* Whatever becomes of the steps, the uploads and the runner, and whatever an error
   text says, X accepts a post only from a run whose data are valid, whose drift is
   not severe, whose history was published and whose circuits are all closed
   (publication_gate, with the guards of forecast.yml around it). *)
THEOREM PostedOnGoodEvidence == Spec => PostedOnlyWhenHealthy
<1>1. Init => HealthKnown /\ EvidenceKnown
  BY DEF Init, HealthKnown, EvidenceKnown, Observing, SidesKnown
<1>2. HealthKnown /\ EvidenceKnown /\ [Next]_vars => HealthKnown' /\ EvidenceKnown'
  BY HealthKept, EvidenceKept
<1>3. HealthKnown /\ EvidenceKnown /\ [Next]_vars =>
        (accepted' # accepted =>
           /\ health.market = "healthy" /\ health.drift # "severe" /\ health.history = "success"
           /\ \A s \in Stages : health.circuit[s] = "closed")
  <2> SUFFICES ASSUME HealthKnown, EvidenceKnown, [Next]_vars, accepted' # accepted
               PROVE  Healthy(health)
    BY DEF Healthy
  <2>1. Send
    BY OnlySendAccepts
  <2>2. pc = "send" /\ forecastOk /\ publish /\ finalAllow
    BY <2>1 DEF Send, SendStep
  <2>3. QED
    BY <2>2 DEF EvidenceKnown
<1>4. QED
  BY <1>1, <1>2, <1>3, PTL DEF Spec, PostedOnlyWhenHealthy
=============================================================================
