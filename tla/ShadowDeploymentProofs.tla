----------------------- MODULE ShadowDeploymentProofs -----------------------
(***************************************************************************)
(* What the published ledger promises, for any configurations, horizons,   *)
(* data and times, and any number of runs and commands: nothing in it is   *)
(* rewritten, the past of a frozen report does not change, a cohort that   *)
(* is ready misses nothing a run owed, and a promotion is earned.          *)
(***************************************************************************)
EXTENDS ShadowDeployment, FiniteSetTheorems, TLAPS

-----------------------------------------------------------------------------
(* What the operations on a ledger have in common: they give a ledger that
   extends the one they were given. *)

Grown(l, m) == l \in Ledger /\ Extends(l, m)

LEMMA ExtendsItself == ASSUME NEW l PROVE Extends(l, l)
BY DEF Extends

LEMMA ExtendsTransitive ==
    ASSUME NEW l \in Ledger, NEW m \in Ledger, NEW n \in Ledger,
           Extends(l, m), Extends(m, n)
    PROVE  Extends(l, n)
<1>1. \A c \in Configs : n.status[c] # "unregistered" => l.status[c] = n.status[c]
    BY DEF Extends
<1>2. \A k \in Keys : n.row[k] # None => l.row[k] = n.row[k]
    BY DEF Extends
<1>3. \A k \in Keys \X Horizons : n.outcome[k] # None => l.outcome[k] = n.outcome[k]
    BY DEF Extends
<1>4. n.failure \subseteq l.failure /\ n.attempt \subseteq l.attempt
    BY DEF Extends
<1> QED BY <1>1, <1>2, <1>3, <1>4 DEF Extends

LEMMA EmptyIsLedger == EmptyLedger \in Ledger
BY DEF EmptyLedger, Ledger

LEMMA RegisteredGrows ==
    ASSUME NEW l \in Ledger, NEW cs, NEW status \in {"approved", "withheld"}
    PROVE  Grown(Registered(l, cs, status), l)
BY DEF Grown, Registered, Extends, Ledger

LEMMA RecordedGrows ==
    ASSUME NEW l \in Ledger, NEW cs, NEW o \in Times, NEW lineage \in Lineages
    PROVE  Grown(Recorded(l, cs, o, lineage), l)
BY DEF Grown, Recorded, Extends, Ledger

LEMMA MaturedGrows ==
    ASSUME NEW l \in Ledger, NEW price \in Prices, NEW t \in Times
    PROVE  Grown(Matured(l, price, t), l)
<1> DEFINE m == Matured(l, price, t)
           closed(k) == l.outcome[k] = None /\ l.row[k[1]] # None /\ k[1][2] + k[2] <= t
<1>1. /\ m.status = l.status /\ m.row = l.row
      /\ m.failure = l.failure /\ m.attempt = l.attempt
      /\ m.outcome = [k \in Keys \X Horizons |->
             IF closed(k) THEN [actual |-> price, matured |-> t] ELSE l.outcome[k]]
      /\ m = [status |-> l.status, row |-> l.row, outcome |-> m.outcome,
              failure |-> l.failure, attempt |-> l.attempt]
    BY DEF Matured, Ledger
<1> HIDE DEF m
<1>2. m.outcome \in [Keys \X Horizons -> [actual : Prices, matured : Times] \union {None}]
    BY <1>1 DEF Ledger
<1>3. m \in Ledger
    BY <1>1, <1>2 DEF Ledger
<1>4. \A k \in Keys \X Horizons : l.outcome[k] # None => m.outcome[k] = l.outcome[k]
    BY <1>1
<1>5. Extends(m, l)
    BY <1>1, <1>4 DEF Extends
<1> QED BY <1>3, <1>5 DEF Grown, m

LEMMA ChampionGrows ==
    ASSUME NEW l \in Ledger, NEW o \in Times, NEW lineage \in Lineages
    PROVE  Grown(ChampionRecorded(l, o, lineage), l)
<1> DEFINE m == Registered(l, {Champion}, "approved")
           n == Recorded(m, {Champion}, o, lineage)
<1>1. Grown(m, l)
    BY RegisteredGrows, ShadowAssumption
<1> HIDE DEF m
<1>2. Grown(n, m)
    BY <1>1, RecordedGrows DEF Grown
<1>3. Grown(n, l)
    BY <1>1, <1>2, ExtendsTransitive DEF Grown
<1> QED BY <1>3 DEF ChampionRecorded, m

LEMMA CapturedGrows ==
    ASSUME NEW l \in Ledger, NEW o \in Times, NEW lineage \in Lineages
    PROVE  Grown(Captured(l, o, lineage), l)
BY DEF Grown, Captured, Extends, Ledger

LEMMA ChallengersGrow ==
    ASSUME NEW l \in Ledger, NEW o \in Times, NEW lineage \in Lineages,
           NEW cs, NEW failing \in SUBSET Configs, NEW t \in Times
    PROVE  Grown(ChallengersRecorded(l, cs, o, lineage, failing, t), l)
<1> DEFINE registered == Registered(l, cs, "approved")
           m == Recorded(registered, cs \ failing, o, lineage)
           failed == {<<<<c, o>>, t>> : c \in failing}
           n == [m EXCEPT !.failure = @ \union failed]
<1>0. Grown(registered, l)
    BY RegisteredGrows
<1> HIDE DEF registered
<1>1. Grown(m, l)
    BY <1>0, RecordedGrows, ExtendsTransitive DEF Grown
<1> HIDE DEF m
<1>2. failed \subseteq Keys \X Times
    BY DEF Keys
<1> HIDE DEF failed
<1>3. n \in Ledger /\ Extends(n, m)
    BY <1>1, <1>2 DEF Grown, Ledger, Extends
<1>4. Grown(n, l)
    BY <1>1, <1>3, ExtendsTransitive DEF Grown
<1> QED BY <1>4 DEF ChallengersRecorded, m, failed, registered

-----------------------------------------------------------------------------
(* Every ledger that may come to be published extends the one that is: that of
   a run, and the independent copy while the Release has lost its own. *)
IInv ==
    /\ now \in Times
    /\ held \in Ledger
    /\ released \in {NoLedger, Missing, held}
    /\ released = NoLedger => held = EmptyLedger
    /\ released = Missing => Grown(copy, held)
    /\ pc # "idle" => Grown(store, held)
    /\ pc = "copied" => copy = store

LEMMA InitHolds == Init => IInv
BY ShadowAssumption, EmptyIsLedger DEF Init, IInv, Times

LEMMA RestorePreserves == ASSUME IInv, Restore PROVE IInv'
<1>1. store' = held /\ held' = held
    BY DEF IInv, Restore
<1>2. Grown(store', held')
    BY <1>1, ExtendsItself DEF IInv, Grown
<1> QED BY <1>1, <1>2 DEF IInv, Restore

LEMMA ShadowPreserves == ASSUME IInv, Shadow PROVE IInv'
<1>1. Grown(store, held)
    BY DEF IInv, Shadow
<1>2. PICK lineage \in Lineages, price \in Prices :
          LET matured == Matured(store, price, now)
              champion == ChampionRecorded(matured, now, lineage)
              captured == Captured(champion, now, lineage)
          IN \/ store' \in {store, matured, champion, captured}
             \/ \E failing \in SUBSET Approved(store) :
                   store' = ChallengersRecorded(captured, Approved(store), now, lineage, failing, now)
    BY DEF Shadow
<1> DEFINE matured == Matured(store, price, now)
           champion == ChampionRecorded(matured, now, lineage)
           captured == Captured(champion, now, lineage)
<1>3. Grown(matured, store)
    BY <1>1, MaturedGrows DEF Grown, IInv
<1> HIDE DEF matured
<1>4. Grown(champion, matured)
    BY <1>3, ChampionGrows DEF Grown, IInv
<1> HIDE DEF champion
<1>5. Grown(captured, champion)
    BY <1>4, CapturedGrows DEF Grown, IInv
<1> HIDE DEF captured
<1>6. Grown(matured, held) /\ Grown(champion, held)
    BY <1>1, <1>3, <1>4, ExtendsTransitive DEF Grown, IInv
<1>7. Grown(captured, held)
    BY <1>5, <1>6, ExtendsTransitive DEF Grown, IInv
<1>8. ASSUME NEW failing \in SUBSET Approved(store),
             store' = ChallengersRecorded(captured, Approved(store), now, lineage, failing, now)
      PROVE  Grown(store', held)
    <2>1. failing \in SUBSET Configs
        BY <1>8 DEF Approved
    <2>2. Grown(store', captured)
        BY <1>7, <1>8, <2>1, ChallengersGrow DEF Grown, IInv
    <2> QED BY <1>7, <2>2, ExtendsTransitive DEF Grown, IInv
<1>9. Grown(store', held)
    BY <1>1, <1>2, <1>6, <1>7, <1>8 DEF matured, champion, captured
<1> QED BY <1>9 DEF IInv, Shadow, Grown

LEMMA PublishPreserves ==
    ASSUME IInv, Publish PROVE IInv' /\ Extends(held', held)
<1>1. Grown(store, held)
    BY DEF IInv, Publish
<1>2. released' = store /\ held' = store /\ pc' = "idle" /\ now' = now
    BY DEF Publish, EndRun
<1> QED BY <1>1, <1>2, LedgerAssumption DEF IInv, Grown

LEMMA RunPreserves ==
    ASSUME IInv, CopyArchive \/ Interrupted \/ Fail \/ Tick \/ Ended \/ UNCHANGED vars
    PROVE  IInv' /\ held' = held
<1>1. CASE CopyArchive
    BY <1>1, LedgerAssumption DEF IInv, CopyArchive
<1>2. CASE Interrupted
    BY <1>2, ShadowAssumption DEF IInv, Interrupted, EndRun
<1>3. CASE Fail
    BY <1>3 DEF IInv, Fail, EndRun
<1>4. CASE Tick
    BY <1>4, ShadowAssumption DEF IInv, Tick, Times
<1>5. CASE Ended \/ UNCHANGED vars
    BY <1>5 DEF IInv, Ended, vars
<1> QED BY <1>1, <1>2, <1>3, <1>4, <1>5

LEMMA OperatePreserves ==
    ASSUME NEW l, Grown(l, held), IInv, Operate(l)
    PROVE  IInv' /\ Extends(held', held)
BY LedgerAssumption DEF IInv, Operate, Grown

LEMMA OperatorPreserves ==
    ASSUME IInv, Recover \/ Approve \/ RecordSnapshot \/ MatureByHand
    PROVE  IInv' /\ Extends(held', held)
<1>1. CASE Recover
    BY <1>1, OperatePreserves DEF IInv, Recover
<1>2. ASSUME Established PROVE released = held /\ held \in Ledger /\ now \in Times
    BY <1>2 DEF IInv, Established
<1>3. CASE Approve
    <2>1. PICK c \in Configs \ {Champion}, status \in {"approved", "withheld"} :
              Operate(Registered(held, {c}, status))
        BY <1>2, <1>3 DEF Approve, Command
    <2>2. Grown(Registered(held, {c}, status), held)
        BY <1>2, <1>3, RegisteredGrows DEF Approve
    <2> QED BY <2>1, <2>2, OperatePreserves
<1>4. CASE RecordSnapshot
    <2>1. PICK o \in 0 .. now, lineage \in Lineages,
              cs \in SUBSET (Configs \ {Champion}) :
           \E failing \in SUBSET cs :
              Operate(ChallengersRecorded(ChampionRecorded(held, o, lineage),
                                          cs, o, lineage, failing, now))
        BY <1>2, <1>4 DEF RecordSnapshot, Command, Approved
    <2>0. PICK failing \in SUBSET cs :
              Operate(ChallengersRecorded(ChampionRecorded(held, o, lineage),
                                          cs, o, lineage, failing, now))
        BY <2>1
    <2> DEFINE champion == ChampionRecorded(held, o, lineage)
               l == ChallengersRecorded(champion, cs, o, lineage, failing, now)
    <2>2. o \in Times /\ now \in Times /\ held \in Ledger /\ failing \in SUBSET Configs
        BY <1>2, <1>4, ShadowAssumption DEF RecordSnapshot, Times
    <2>3. Grown(champion, held)
        BY <2>2, ChampionGrows
    <2> HIDE DEF champion
    <2>4. Grown(l, champion)
        BY <2>2, <2>3, ChallengersGrow DEF Grown
    <2>5. Grown(l, held)
        BY <2>2, <2>3, <2>4, ExtendsTransitive DEF Grown
    <2> QED BY <2>0, <2>5, OperatePreserves DEF champion
<1>5. CASE MatureByHand
    <2>1. PICK price \in Prices : Operate(Matured(held, price, now))
        BY <1>2, <1>5 DEF MatureByHand, Command
    <2>2. Grown(Matured(held, price, now), held)
        BY <1>2, <1>5, MaturedGrows DEF MatureByHand
    <2> QED BY <2>1, <2>2, OperatePreserves
<1> QED BY <1>1, <1>3, <1>4, <1>5

LEMMA NextPreserves ==
    ASSUME IInv, [Next]_vars PROVE IInv' /\ [Extends(held', held)]_held
<1>1. CASE Restore
    BY <1>1, RestorePreserves DEF Restore
<1>2. CASE Shadow
    BY <1>2, ShadowPreserves DEF Shadow
<1>3. CASE Publish
    BY <1>3, PublishPreserves
<1>4. CASE CopyArchive \/ Interrupted \/ Fail \/ Tick \/ Ended \/ UNCHANGED vars
    BY <1>4, RunPreserves
<1>5. CASE Recover \/ Approve \/ RecordSnapshot \/ MatureByHand
    BY <1>5, OperatorPreserves
<1> QED BY <1>1, <1>2, <1>3, <1>4, <1>5 DEF Next

\* The ledger of a run, and the copy where the Release has lost its own, always
\* extend the published one.
THEOREM LedgersGrow == Spec => []IInv
<1>1. IInv /\ [Next]_vars => IInv'
    BY NextPreserves
<1> QED BY InitHolds, <1>1, PTL DEF Spec

\* EvidenceStands: no step rewrites or drops anything that was published.
THEOREM PublishedEvidenceStands == Spec => EvidenceStands
<1>1. IInv /\ [Next]_vars => [Extends(held', held)]_held
    BY NextPreserves
<1> QED BY LedgersGrow, <1>1, PTL DEF Spec, EvidenceStands

-----------------------------------------------------------------------------
(* The past of a ledger.  What an operation at t adds was observed at t or later,
   and the forecasts that a run adds are for its own time. *)
ObservedSince(l, m, t) ==
    /\ \A pair \in Keys \X Horizons :
          l.outcome[pair] # m.outcome[pair] =>
              m.outcome[pair] = None /\ l.outcome[pair] # None /\ l.outcome[pair].matured >= t
    /\ \A f \in l.failure : f \in m.failure \/ f[2] >= t

RowsSince(l, m, t) == \A key \in Keys : l.row[key] # m.row[key] => key[2] >= t

LEMMA SinceItself == ASSUME NEW l, NEW t PROVE ObservedSince(l, l, t) /\ RowsSince(l, l, t)
BY DEF ObservedSince, RowsSince

LEMMA ObservedTransitive ==
    ASSUME NEW l \in Ledger, NEW m \in Ledger, NEW n \in Ledger, NEW t \in Times, NEW u \in Times,
           t <= u, ObservedSince(l, m, u), ObservedSince(m, n, t)
    PROVE  ObservedSince(l, n, t)
<1>1. ASSUME NEW pair \in Keys \X Horizons, l.outcome[pair] # n.outcome[pair]
      PROVE  n.outcome[pair] = None /\ l.outcome[pair] # None /\ l.outcome[pair].matured >= t
    <2>1. CASE l.outcome[pair] = m.outcome[pair]
        BY <1>1, <2>1 DEF ObservedSince
    <2>2. CASE l.outcome[pair] # m.outcome[pair]
        <3>1. l.outcome[pair] # None /\ l.outcome[pair].matured >= u /\ m.outcome[pair] = None
            BY <2>2 DEF ObservedSince
        <3>2. n.outcome[pair] = None
            BY <3>1 DEF ObservedSince
        <3>3. l.outcome[pair].matured \in Times
            BY <3>1 DEF Ledger
        <3> QED BY <3>1, <3>2, <3>3 DEF Times
    <2> QED BY <2>1, <2>2
<1>2. ASSUME NEW f \in l.failure, f \notin n.failure PROVE f[2] >= t
    <2>1. f[2] \in Times
        BY DEF Ledger
    <2>2. f[2] >= u \/ f[2] >= t
        BY <1>2 DEF ObservedSince
    <2> QED BY <2>1, <2>2 DEF Times
<1> QED BY <1>1, <1>2 DEF ObservedSince

LEMMA SinceTransitive ==
    ASSUME NEW l \in Ledger, NEW m \in Ledger, NEW n \in Ledger, NEW t \in Times, NEW u \in Times,
           t <= u, ObservedSince(l, m, u), RowsSince(l, m, u),
           ObservedSince(m, n, t), RowsSince(m, n, t)
    PROVE  ObservedSince(l, n, t) /\ RowsSince(l, n, t)
<1>1. ASSUME NEW key \in Keys, l.row[key] # n.row[key] PROVE key[2] >= t
    <2>1. key[2] \in Times
        BY DEF Keys
    <2>2. key[2] >= u \/ key[2] >= t
        BY <1>1 DEF RowsSince
    <2> QED BY <2>1, <2>2 DEF Times
<1> QED BY <1>1, ObservedTransitive DEF RowsSince

LEMMA MaturedSince ==
    ASSUME NEW l \in Ledger, NEW price \in Prices, NEW t \in Times
    PROVE  ObservedSince(Matured(l, price, t), l, t) /\ RowsSince(Matured(l, price, t), l, t)
<1> DEFINE m == Matured(l, price, t)
           closed(k) == l.outcome[k] = None /\ l.row[k[1]] # None /\ k[1][2] + k[2] <= t
<1>1. /\ m.row = l.row /\ m.failure = l.failure
      /\ m.outcome = [k \in Keys \X Horizons |->
             IF closed(k) THEN [actual |-> price, matured |-> t] ELSE l.outcome[k]]
    BY DEF Matured, Ledger
<1>2. Matured(l, price, t) \in Ledger
    BY MaturedGrows DEF Grown
<1> HIDE DEF m
<1>3. ASSUME NEW pair \in Keys \X Horizons, m.outcome[pair] # l.outcome[pair]
      PROVE  l.outcome[pair] = None /\ m.outcome[pair] # None /\ m.outcome[pair].matured >= t
    <2>1. l.outcome[pair] = None /\ m.outcome[pair] = [actual |-> price, matured |-> t]
        BY <1>1, <1>3
    <2>2. m.outcome[pair].matured = t /\ m.outcome[pair] # None
        BY <1>3, <2>1
    <2> QED BY <2>1, <2>2 DEF Times
<1> QED BY <1>1, <1>3 DEF ObservedSince, RowsSince, m

LEMMA ChampionSince ==
    ASSUME NEW l \in Ledger, NEW o \in Times, NEW lineage \in Lineages, NEW t
    PROVE  /\ ObservedSince(ChampionRecorded(l, o, lineage), l, t)
           /\ RowsSince(ChampionRecorded(l, o, lineage), l, o)
           /\ ChampionRecorded(l, o, lineage).row[<<Champion, o>>] # None
<1> DEFINE m == ChampionRecorded(l, o, lineage)
<1>1. /\ m.outcome = l.outcome /\ m.failure = l.failure
      /\ m.row = [k \in Keys |-> IF k[1] \in {Champion} /\ k[2] = o /\ l.row[k] = None
                                 THEN lineage ELSE l.row[k]]
    BY DEF ChampionRecorded, Recorded, Registered, Ledger
<1> HIDE DEF m
<1>2. ObservedSince(m, l, t)
    BY <1>1 DEF ObservedSince
<1>3. RowsSince(m, l, o)
    BY <1>1 DEF RowsSince, Times
<1>4. m.row[<<Champion, o>>] # None
    <2>1. <<Champion, o>> \in Keys
        BY ShadowAssumption DEF Keys
    <2> QED BY <1>1, <2>1, ShadowAssumption
<1> QED BY <1>2, <1>3, <1>4 DEF m

LEMMA CapturedSince ==
    ASSUME NEW l \in Ledger, NEW o, NEW lineage, NEW t
    PROVE  /\ ObservedSince(Captured(l, o, lineage), l, t) /\ RowsSince(Captured(l, o, lineage), l, t)
           /\ <<o, lineage>> \in Captured(l, o, lineage).attempt
<1> DEFINE m == Captured(l, o, lineage)
<1>1. m.outcome = l.outcome /\ m.failure = l.failure /\ m.row = l.row /\ <<o, lineage>> \in m.attempt
    BY DEF Captured, Ledger
<1> HIDE DEF m
<1> QED BY <1>1 DEF ObservedSince, RowsSince, m

LEMMA ChallengersSince ==
    ASSUME NEW l \in Ledger, NEW o \in Times, NEW lineage \in Lineages,
           NEW cs \in SUBSET Configs, NEW failing \in SUBSET cs, NEW t \in Times
    PROVE  LET n == ChallengersRecorded(l, cs, o, lineage, failing, t)
           IN  /\ ObservedSince(n, l, t) /\ RowsSince(n, l, o)
               /\ \A c \in cs : n.row[<<c, o>>] # None \/ <<<<c, o>>, t>> \in n.failure
<1> DEFINE m == Recorded(Registered(l, cs, "approved"), cs \ failing, o, lineage)
           failed == {<<<<c, o>>, t>> : c \in failing}
           n == [m EXCEPT !.failure = @ \union failed]
<1>1. /\ m.outcome = l.outcome /\ m.failure = l.failure
      /\ m.row = [k \in Keys |-> IF k[1] \in cs \ failing /\ k[2] = o /\ l.row[k] = None
                                 THEN lineage ELSE l.row[k]]
    BY DEF Recorded, Registered, Ledger
<1>2. m \in Ledger
    <2>1. Registered(l, cs, "approved") \in Ledger
        BY RegisteredGrows DEF Grown
    <2> QED BY <2>1, RecordedGrows DEF Grown
<1> HIDE DEF m
<1>3. n.outcome = m.outcome /\ n.row = m.row /\ n.failure = m.failure \union failed
    BY <1>2 DEF Ledger
<1> HIDE DEF n
<1>4. \A f \in failed : f[2] = t
    OBVIOUS
<1>5. \A c \in failing : <<<<c, o>>, t>> \in failed
    OBVIOUS
<1> HIDE DEF failed
<1>6. ObservedSince(n, l, t)
    BY <1>1, <1>3, <1>4 DEF ObservedSince, Times
<1>7. RowsSince(n, l, o)
    BY <1>1, <1>3 DEF RowsSince, Times
<1>8. ASSUME NEW c \in cs PROVE n.row[<<c, o>>] # None \/ <<<<c, o>>, t>> \in n.failure
    <2>1. <<c, o>> \in Keys
        BY DEF Keys
    <2> QED BY <1>1, <1>3, <1>5, <2>1, ShadowAssumption
<1> QED BY <1>6, <1>7, <1>8 DEF ChallengersRecorded, m, n, failed

-----------------------------------------------------------------------------
\* A run adds nothing to the past it began in.
RunAddsLater ==
    pc # "idle" =>
        /\ began \in Times /\ began <= now
        /\ ObservedSince(store, held, began) /\ RowsSince(store, held, began)

(* What a run owes to its origin, it has or has failed at: a configuration has a
   forecast there, or a failure observed at that very time, and the baselines were
   captured. *)
Kept(l, keys) ==
    \A key \in keys :
        /\ key \in Keys
        /\ l.row[key] # None \/ <<key, key[2]>> \in l.failure
        /\ \E a \in l.attempt : a[1] = key[2]

PledgesAreKept ==
    /\ pc \in {"idle", "restored"} => pledge = {}
    /\ Kept(store, pledge)
    /\ Kept(held, promised)

LEMMA KeptInExtension ==
    ASSUME NEW l, NEW m, Extends(l, m), NEW keys, Kept(m, keys) PROVE Kept(l, keys)
<1> SUFFICES ASSUME NEW key \in keys
             PROVE  /\ key \in Keys
                    /\ l.row[key] # None \/ <<key, key[2]>> \in l.failure
                    /\ \E a \in l.attempt : a[1] = key[2]
    BY DEF Kept
<1> QED BY DEF Kept, Extends

\* The shadow part of a run, as far as it got.
LEMMA ShadowIsLater ==
    ASSUME IInv, RunAddsLater, PledgesAreKept, Shadow PROVE RunAddsLater' /\ PledgesAreKept'
<1>1. Grown(store, held) /\ store \in Ledger /\ held \in Ledger /\ now \in Times
    BY DEF IInv, Shadow, Grown
<1>2. /\ began \in Times /\ began <= now
      /\ ObservedSince(store, held, began) /\ RowsSince(store, held, began)
    BY DEF RunAddsLater, Shadow
<1>3. PICK lineage \in Lineages, price \in Prices :
          LET matured == Matured(store, price, now)
              champion == ChampionRecorded(matured, now, lineage)
              captured == Captured(champion, now, lineage)
          IN \/ store' \in {store, matured, champion, captured} /\ pledge' = {}
             \/ \E failing \in SUBSET Approved(store) :
                   /\ store' = ChallengersRecorded(captured, Approved(store), now, lineage, failing, now)
                   /\ pledge' = (Approved(store) \union {Champion}) \X {now}
    BY DEF Shadow
<1> DEFINE matured == Matured(store, price, now)
           champion == ChampionRecorded(matured, now, lineage)
           captured == Captured(champion, now, lineage)
           Later(l) == ObservedSince(l, store, now) /\ RowsSince(l, store, now)
<1>4. matured \in Ledger /\ Later(matured)
    BY <1>1, MaturedGrows, MaturedSince DEF Grown
<1> HIDE DEF matured
<1>5. /\ champion \in Ledger /\ Later(champion) /\ champion.row[<<Champion, now>>] # None
    <2>1. champion \in Ledger
        BY <1>1, <1>4, ChampionGrows DEF Grown
    <2>2. /\ ObservedSince(champion, matured, now) /\ RowsSince(champion, matured, now)
          /\ champion.row[<<Champion, now>>] # None
        BY <1>1, <1>4, ChampionSince
    <2>3. now <= now
        BY <1>1 DEF Times
    <2> HIDE DEF champion
    <2> QED BY <1>1, <1>4, <2>1, <2>2, <2>3, SinceTransitive
<1> HIDE DEF champion
<1>6. /\ captured \in Ledger /\ Later(captured) /\ Extends(captured, champion)
      /\ <<now, lineage>> \in captured.attempt
    <2>1. captured \in Ledger /\ Extends(captured, champion)
        BY <1>1, <1>5, CapturedGrows DEF Grown
    <2>2. /\ ObservedSince(captured, champion, now) /\ RowsSince(captured, champion, now)
          /\ <<now, lineage>> \in captured.attempt
        BY <1>5, CapturedSince
    <2>3. now <= now
        BY <1>1 DEF Times
    <2> HIDE DEF captured
    <2> QED BY <1>1, <1>5, <2>1, <2>2, <2>3, SinceTransitive
<1> HIDE DEF captured
<1>7. ASSUME NEW failing \in SUBSET Approved(store),
             store' = ChallengersRecorded(captured, Approved(store), now, lineage, failing, now)
      PROVE  /\ store' \in Ledger /\ Later(store')
             /\ Kept(store', (Approved(store) \union {Champion}) \X {now})
    <2>1. Approved(store) \in SUBSET Configs
        BY DEF Approved
    <2> DEFINE cs == Approved(store)
    <2>2. Grown(store', captured)
        BY <1>1, <1>6, <1>7, <2>1, ChallengersGrow
    <2>3. /\ ObservedSince(store', captured, now) /\ RowsSince(store', captured, now)
          /\ \A c \in cs : store'.row[<<c, now>>] # None \/ <<<<c, now>>, now>> \in store'.failure
        BY <1>1, <1>6, <1>7, <2>1, ChallengersSince
    <2>4. now <= now
        BY <1>1 DEF Times
    <2>5. Later(store')
        BY <1>1, <1>6, <2>2, <2>3, <2>4, SinceTransitive DEF Grown
    <2>6. store'.row[<<Champion, now>>] # None
        <3>1. <<Champion, now>> \in Keys
            BY <1>1, ShadowAssumption DEF Keys
        <3> QED BY <1>5, <1>6, <2>2, <3>1 DEF Grown, Extends
    <2>7. <<now, lineage>> \in store'.attempt
        BY <1>6, <2>2 DEF Grown, Extends
    <2>8. ASSUME NEW key \in (cs \union {Champion}) \X {now}
          PROVE  /\ key \in Keys
                 /\ store'.row[key] # None \/ <<key, key[2]>> \in store'.failure
                 /\ \E a \in store'.attempt : a[1] = key[2]
        <3>1. PICK c \in cs \union {Champion} : key = <<c, now>>
            BY <2>8
        <3>2. key \in Keys
            BY <1>1, <2>1, <3>1, ShadowAssumption DEF Keys
        <3>3. store'.row[key] # None \/ <<key, now>> \in store'.failure
            BY <2>3, <2>6, <3>1
        <3>4. \E a \in store'.attempt : a[1] = now
            BY <2>7
        <3> QED BY <3>1, <3>2, <3>3, <3>4
    <2> QED BY <2>2, <2>5, <2>8 DEF Grown, Kept
<1>8. store' \in Ledger /\ Later(store') /\ Kept(store', pledge')
    <2>1. CASE store' \in {store, matured, champion, captured} /\ pledge' = {}
        BY <1>1, <1>4, <1>5, <1>6, <2>1, SinceItself DEF Kept
    <2>2. CASE \E failing \in SUBSET Approved(store) :
                 /\ store' = ChallengersRecorded(captured, Approved(store), now, lineage, failing, now)
                 /\ pledge' = (Approved(store) \union {Champion}) \X {now}
        BY <1>7, <2>2
    <2> QED BY <1>3, <2>1, <2>2 DEF matured, champion, captured
<1>9. ObservedSince(store', held, began) /\ RowsSince(store', held, began)
    BY <1>1, <1>2, <1>8, SinceTransitive
<1> QED BY <1>2, <1>8, <1>9 DEF Shadow, RunAddsLater, PledgesAreKept

LEMMA LaterKept ==
    IInv /\ RunAddsLater /\ PledgesAreKept /\ [Next]_vars => RunAddsLater' /\ PledgesAreKept'
<1> SUFFICES ASSUME IInv, RunAddsLater, PledgesAreKept, [Next]_vars
             PROVE  RunAddsLater' /\ PledgesAreKept'
    OBVIOUS
<1>1. CASE Restore
    <2>1. store' = held /\ held' = held /\ began' = now /\ now' = now /\ now \in Times
        BY <1>1 DEF Restore, IInv
    <2>2. RunAddsLater'
        BY <2>1, SinceItself DEF RunAddsLater, Times
    <2>3. PledgesAreKept'
        BY <1>1, <2>1 DEF Restore, PledgesAreKept, Kept
    <2> QED BY <2>2, <2>3
<1>2. CASE Shadow
    BY <1>2, ShadowIsLater
<1>3. CASE CopyArchive
    BY <1>3 DEF CopyArchive, RunAddsLater, PledgesAreKept
<1>4. CASE Publish
    <2>1. Extends(store, held) /\ held' = store
        BY <1>4 DEF Publish, IInv, Grown
    <2>2. Kept(held', promised)
        BY <2>1, KeptInExtension DEF PledgesAreKept
    <2>3. Kept(held', promised')
        BY <1>4, <2>1, <2>2 DEF Publish, PledgesAreKept, Kept
    <2>4. pc' = "idle" /\ pledge' = {}
        BY <1>4 DEF Publish, EndRun
    <2> QED BY <2>3, <2>4 DEF RunAddsLater, PledgesAreKept, Kept
<1>5. CASE Interrupted \/ Fail
    BY <1>5 DEF Interrupted, Fail, EndRun, RunAddsLater, PledgesAreKept, Kept
<1>6. CASE Recover \/ Approve \/ RecordSnapshot \/ MatureByHand
    <2>1. Extends(held', held)
        BY <1>6, OperatorPreserves
    <2>2. pc' = "idle" /\ pc = "idle" /\ UNCHANGED <<store, pledge, promised>>
        BY <1>6 DEF Recover, Approve, RecordSnapshot, MatureByHand, Command, Operate
    <2>3. Kept(held', promised')
        BY <2>1, <2>2, KeptInExtension DEF PledgesAreKept
    <2> QED BY <2>2, <2>3 DEF RunAddsLater, PledgesAreKept
<1>7. CASE Tick
    BY <1>7 DEF Tick, IInv, RunAddsLater, PledgesAreKept, Times
<1>8. CASE Ended \/ UNCHANGED vars
    BY <1>8 DEF Ended, vars, RunAddsLater, PledgesAreKept
<1> QED BY <1>1, <1>2, <1>3, <1>4, <1>5, <1>6, <1>7, <1>8 DEF Next

\* A run adds only to the time it is for, and what it owes is in its ledger.
LEMMA PastAndPledges == Spec => [](IInv /\ RunAddsLater /\ PledgesAreKept)
<1>1. Init => RunAddsLater /\ PledgesAreKept
    BY DEF Init, RunAddsLater, PledgesAreKept, Kept
<1>2. IInv /\ [Next]_vars => IInv'
    BY NextPreserves
<1> QED BY InitHolds, LaterKept, <1>1, <1>2, PTL DEF Spec

-----------------------------------------------------------------------------
\* A finite set of integers has a greatest element: a least counterexample among its
\* subsets would have one, that of the set without some element or that element.
LEMMA GreatestExists ==
    ASSUME NEW S \in SUBSET Int, IsFiniteSet(S), S # {}
    PROVE  \E m \in S : \A n \in S : n <= m
<1> DEFINE Bounded(T) == \E m \in T : \A n \in T : n <= m
           Bad == {T \in FiniteSubsetsOf(S) : T # {} /\ ~Bounded(T)}
<1>1. SUFFICES ASSUME Bad # {} PROVE FALSE
    <2>1. S \in FiniteSubsetsOf(S)
        BY DEF FiniteSubsetsOf
    <2> QED BY <2>1
<1>2. PICK T \in Bad : \A U \in Bad : <<U, T>> \notin StrictSubsetOrdering(S)
    <2>1. Bad \subseteq FiniteSubsetsOf(S)
        OBVIOUS
    <2> HIDE DEF Bad
    <2> QED BY <1>1, <2>1, FS_StrictSubsetOrderingWellFounded, WFMin
<1>3. PICK x \in T : TRUE
    OBVIOUS
<1> DEFINE U == T \ {x}
<1>4. U \in FiniteSubsetsOf(S) /\ T \in FiniteSubsetsOf(S)
    BY FS_RemoveElement DEF FiniteSubsetsOf
<1>5. <<U, T>> \in StrictSubsetOrdering(S)
    BY <1>3, <1>4 DEF StrictSubsetOrdering, FiniteSubsetsOf
<1>6. U = {} \/ Bounded(U)
    BY <1>2, <1>4, <1>5
<1>7. Bounded(T)
    <2>1. T \subseteq Int
        BY <1>4 DEF FiniteSubsetsOf
    <2> QED BY <1>3, <1>6, <2>1
<1> QED BY <1>2, <1>7

LEMMA LongestIsHorizon == Longest \in Nat
<1>1. \E m \in Horizons : \A n \in Horizons : m >= n
    <2>1. \E m \in Horizons : \A n \in Horizons : n <= m
        BY ShadowAssumption, GreatestExists
    <2> QED BY <2>1, ShadowAssumption
<1>2. Longest \in Horizons
    BY <1>1 DEF Longest, Max
<1> QED BY <1>2, ShadowAssumption

\* A cohort ends before it is evaluated.
LEMMA CohortFacts ==
    ASSUME NEW k \in Cohorts PROVE k.cutoff \in Times /\ k.asof \in Times /\ k.cutoff <= k.asof
BY LongestIsHorizon DEF Cohorts, Times

\* A report on the past does not change by what was observed since.
LEMMA PastIsFrozen ==
    ASSUME NEW l \in Ledger, NEW m \in Ledger, Extends(l, m), NEW t \in Times, ObservedSince(l, m, t),
           NEW k \in Cohorts, k.asof < t
    PROVE  /\ FailuresAsOf(l, k) = FailuresAsOf(m, k)
           /\ \A pair \in Keys \X Horizons : ActualAsOf(l, k, pair) = ActualAsOf(m, k, pair)
           /\ RowsSince(l, m, t) => Eligible(l, k) = Eligible(m, k)
<1>1. k.cutoff \in Times /\ k.asof \in Times /\ k.cutoff <= k.asof
    BY CohortFacts
<1>2. \A f \in l.failure : f \notin m.failure => ~(f[2] <= k.asof)
    <2> SUFFICES ASSUME NEW f \in l.failure, f \notin m.failure PROVE ~(f[2] <= k.asof)
        OBVIOUS
    <2>1. f[2] \in Times /\ f[2] >= t
        BY DEF Ledger, ObservedSince
    <2> QED BY <1>1, <2>1 DEF Times
<1>3. FailuresAsOf(l, k) = FailuresAsOf(m, k)
    BY <1>2 DEF FailuresAsOf, Extends
<1>4. ASSUME NEW pair \in Keys \X Horizons
      PROVE  ActualAsOf(l, k, pair) = ActualAsOf(m, k, pair)
    <2>1. CASE l.outcome[pair] = m.outcome[pair]
        BY <2>1 DEF ActualAsOf
    <2>2. CASE l.outcome[pair] # m.outcome[pair]
        <3>1. m.outcome[pair] = None /\ l.outcome[pair] # None /\ l.outcome[pair].matured >= t
            BY <2>2 DEF ObservedSince
        <3>2. l.outcome[pair].matured \in Times
            BY <3>1 DEF Ledger
        <3>3. ~(l.outcome[pair].matured <= k.asof)
            BY <1>1, <3>1, <3>2 DEF Times
        <3> QED BY <3>1, <3>3 DEF ActualAsOf
    <2> QED BY <2>1, <2>2
<1>5. ASSUME RowsSince(l, m, t) PROVE Eligible(l, k) = Eligible(m, k)
    <2> SUFFICES ASSUME NEW key \in Keys, key[2] <= k.cutoff PROVE l.row[key] = m.row[key]
        BY DEF Eligible
    <2>1. key[2] \in Times /\ ~(key[2] >= t)
        BY <1>1 DEF Keys, Times
    <2> QED BY <1>5, <2>1 DEF RowsSince
<1> QED BY <1>3, <1>4, <1>5

\* What an operator's command adds is of the present.
LEMMA CommandIsLater ==
    ASSUME IInv, Approve \/ RecordSnapshot \/ MatureByHand
    PROVE  now \in Times /\ held' \in Ledger /\ ObservedSince(held', held, now)
<1>1. released = held /\ held \in Ledger /\ now \in Times
    BY DEF IInv, Established, Approve, RecordSnapshot, MatureByHand
<1>2. held' \in Ledger
    BY OperatorPreserves DEF IInv
<1>3. CASE Approve
    <2>1. PICK c \in Configs \ {Champion}, status \in {"approved", "withheld"} :
              held' = Registered(held, {c}, status)
        BY <1>1, <1>3 DEF Approve, Command, Operate
    <2>2. held'.outcome = held.outcome /\ held'.failure = held.failure
        BY <1>1, <2>1 DEF Registered, Ledger
    <2> QED BY <1>1, <1>2, <2>2 DEF ObservedSince
<1>4. CASE RecordSnapshot
    <2>1. PICK o \in 0 .. now, lineage \in Lineages, cs \in SUBSET (Configs \ {Champion}) :
           \E failing \in SUBSET cs :
              held' = ChallengersRecorded(ChampionRecorded(held, o, lineage),
                                          cs, o, lineage, failing, now)
        BY <1>1, <1>4 DEF RecordSnapshot, Command, Operate, Approved
    <2>2. PICK failing \in SUBSET cs :
              held' = ChallengersRecorded(ChampionRecorded(held, o, lineage),
                                          cs, o, lineage, failing, now)
        BY <2>1
    <2>3. o \in Times /\ cs \in SUBSET Configs
        BY <1>1, ShadowAssumption DEF Times
    <2> DEFINE champion == ChampionRecorded(held, o, lineage)
    <2>4. champion \in Ledger /\ ObservedSince(champion, held, now)
        BY <1>1, <2>3, ChampionGrows, ChampionSince DEF Grown
    <2>5. ObservedSince(held', champion, now)
        BY <1>1, <2>2, <2>3, <2>4, ChallengersSince
    <2> HIDE DEF champion
    <2>6. now <= now
        BY <1>1 DEF Times
    <2> QED BY <1>1, <1>2, <2>4, <2>5, <2>6, ObservedTransitive
<1>5. CASE MatureByHand
    <2>1. PICK price \in Prices : held' = Matured(held, price, now)
        BY <1>1, <1>5 DEF MatureByHand, Command, Operate
    <2> QED BY <1>1, <1>2, <2>1, MaturedSince
<1> QED BY <1>3, <1>4, <1>5

(* Whatever is matured, recorded, lost, restored or recovered later, a frozen report
   says of its pairs and its failures what it said, and no run adds a pair to it
   (frozen_cohort_report). *)
THEOREM FrozenReportStands == Spec => FrozenRowsStand
<1> DEFINE Stands ==
               \A k \in Cohorts : Closed(k) =>
                  /\ FailuresAsOf(held', k) = FailuresAsOf(held, k)
                  /\ pc = "copied" => Eligible(held', k) = Eligible(held, k)
                  /\ \A pair \in Eligible(held, k) \X Horizons :
                        ActualAsOf(held', k, pair) = ActualAsOf(held, k, pair)
<1>1. ASSUME IInv, RunAddsLater, [Next]_vars, held' # held PROVE Stands
    <2> SUFFICES ASSUME NEW k \in Cohorts, Closed(k)
                 PROVE  /\ FailuresAsOf(held', k) = FailuresAsOf(held, k)
                        /\ pc = "copied" => Eligible(held', k) = Eligible(held, k)
                        /\ \A pair \in Eligible(held, k) \X Horizons :
                              ActualAsOf(held', k, pair) = ActualAsOf(held, k, pair)
        OBVIOUS
    <2>1. Eligible(held, k) \X Horizons \subseteq Keys \X Horizons
        BY DEF Eligible
    <2>2. held \in Ledger /\ held' \in Ledger /\ Extends(held', held)
        BY <1>1, NextPreserves DEF IInv
    <2>3. CASE Publish
        <3>1. held' = store /\ pc = "copied" /\ k.asof < began
            BY <2>3 DEF Publish, Closed
        <3>2. began \in Times /\ ObservedSince(held', held, began) /\ RowsSince(held', held, began)
            BY <1>1, <3>1 DEF RunAddsLater
        <3> QED BY <2>1, <2>2, <3>1, <3>2, PastIsFrozen
    <2>4. CASE Approve \/ RecordSnapshot \/ MatureByHand
        <3>1. pc # "copied" /\ k.asof < now
            BY <2>4 DEF Approve, RecordSnapshot, MatureByHand, Command, Operate, Closed
        <3>2. now \in Times /\ ObservedSince(held', held, now)
            BY <1>1, <2>4, CommandIsLater
        <3> QED BY <2>1, <2>2, <3>1, <3>2, PastIsFrozen
    <2>5. ~Recover
        BY DEF Recover, Closed
    <2>6. Publish \/ Approve \/ RecordSnapshot \/ MatureByHand
        BY <1>1, <2>5
           DEF Next, vars, Restore, Shadow, CopyArchive, Interrupted, Fail, Tick, Ended
    <2> QED BY <2>3, <2>4, <2>6
<1>2. IInv /\ RunAddsLater /\ [Next]_vars => [Stands]_held
    BY <1>1
<1> QED BY PastAndPledges, <1>2, PTL DEF Spec, FrozenRowsStand

-----------------------------------------------------------------------------
\* A ledger holds finitely many rows.
LEMMA LedgerIsFinite ==
    ASSUME NEW l \in Ledger
    PROVE  IsFiniteSet(Keys \X Horizons) /\ IsFiniteSet(l.failure)
<1>1. IsFiniteSet(Times) /\ IsFiniteSet(Configs) /\ IsFiniteSet(Horizons)
    BY ShadowAssumption, FS_Interval DEF Times
<1>2. IsFiniteSet(Keys)
    BY <1>1, FS_Product DEF Keys
<1>3. IsFiniteSet(Keys \X Horizons) /\ IsFiniteSet(Keys \X Times)
    BY <1>1, <1>2, FS_Product
<1>4. l.failure \in SUBSET (Keys \X Times)
    BY DEF Ledger
<1> QED BY <1>3, <1>4, FS_Subset

\* Where the report of the evidence misses nothing, there was no failure and every
\* forecast has its outcomes: the failures it counts are of no forecast.
LEMMA NoneIsMissing ==
    ASSUME NEW l \in Ledger, Evidence(l).matured = Evidence(l).expected
    PROVE  /\ l.failure = {}
           /\ \A key \in Keys, h \in Horizons : l.row[key] # None => l.outcome[<<key, h>>] # None
<1> DEFINE forecast == {key \in Keys : l.row[key] # None} \X Horizons
           failed == l.failure \X Horizons
           known == {pair \in forecast : l.outcome[pair] # None}
<1>1. Cardinality(known) = Cardinality(forecast) + Cardinality(failed)
    BY DEF Evidence
<1>2. IsFiniteSet(forecast) /\ IsFiniteSet(failed)
    <2>1. forecast \in SUBSET (Keys \X Horizons)
        OBVIOUS
    <2>2. IsFiniteSet(failed)
        BY LedgerIsFinite, ShadowAssumption, FS_Product
    <2> HIDE DEF forecast, failed
    <2> QED BY <2>1, <2>2, LedgerIsFinite, FS_Subset
<1>3. known \in SUBSET forecast
    OBVIOUS
<1> HIDE DEF forecast, failed, known
<1>4. /\ Cardinality(forecast) \in Nat /\ Cardinality(failed) \in Nat
      /\ Cardinality(known) <= Cardinality(forecast)
      /\ Cardinality(known) = Cardinality(forecast) => known = forecast
    BY <1>2, <1>3, FS_CardinalityType, FS_Subset
<1>5. Cardinality(known) \in Nat
    BY <1>2, <1>3, FS_CardinalityType, FS_Subset
<1>6. Cardinality(failed) = 0 /\ known = forecast
    BY <1>1, <1>4, <1>5
<1>7. failed = {}
    BY <1>2, <1>6, FS_EmptySet
<1>8. l.failure = {}
    <2>1. PICK h \in Horizons : TRUE
        BY ShadowAssumption
    <2>2. \A f \in l.failure : <<f, h>> \in failed
        BY DEF failed
    <2> QED BY <1>7, <2>2
<1> QED BY <1>6, <1>8 DEF known, forecast

(* A cohort that a frozen report declares ready is missing none of the forecasts that
   the published runs owed, whatever was swallowed, cancelled, lost or recorded by
   hand, and the evidence report agrees with it. *)
THEOREM ReadyCohortIsFull == Spec => []ReadyIsFull
<1>1. ASSUME IInv, PledgesAreKept, NEW k \in Cohorts, Ready(held, k),
             NEW key \in promised, key[2] <= k.cutoff
      PROVE  /\ held.row[key] # None
             /\ \E a \in held.attempt : a[1] = key[2]
             /\ \A h \in Horizons : ActualAsOf(held, k, <<key, h>>) # None
    <2>1. /\ key \in Keys
          /\ held.row[key] # None \/ <<key, key[2]>> \in held.failure
          /\ \E a \in held.attempt : a[1] = key[2]
        BY <1>1 DEF PledgesAreKept, Kept
    <2>2. key[2] <= k.asof
        <3>1. key[2] \in Times
            BY <2>1 DEF Keys
        <3> QED BY <1>1, <3>1, CohortFacts DEF Times
    <2>3. <<key, key[2]>> \notin held.failure
        BY <1>1, <2>2 DEF Ready, FailuresAsOf
    <2>4. key \in Eligible(held, k)
        BY <1>1, <2>1, <2>3 DEF Eligible
    <2> QED BY <1>1, <2>1, <2>3, <2>4 DEF Ready
<1>2. ASSUME IInv, Evidence(held).matured = Evidence(held).expected,
             NEW k \in Cohorts, Eligible(held, k) # {},
             \A pair \in Eligible(held, k) \X Horizons : ~(held.outcome[pair].matured > k.asof)
      PROVE  Ready(held, k)
    <2>1. held \in Ledger
        BY <1>2 DEF IInv
    <2>2. FailuresAsOf(held, k) = {}
        BY <1>2, <2>1, NoneIsMissing DEF FailuresAsOf
    <2>3. ASSUME NEW pair \in Eligible(held, k) \X Horizons
          PROVE  ActualAsOf(held, k, pair) # None
        <3>1. pair \in Keys \X Horizons /\ held.outcome[pair] # None
            BY <1>2, <2>1, NoneIsMissing DEF Eligible
        <3>2. held.outcome[pair].matured \in Times /\ held.outcome[pair].actual \in Prices
            BY <2>1, <3>1 DEF Ledger
        <3>3. held.outcome[pair].matured <= k.asof
            BY <1>2, <3>2, CohortFacts DEF Times
        <3> QED BY <3>1, <3>2, <3>3, ShadowAssumption DEF ActualAsOf
    <2> QED BY <1>2, <2>2, <2>3 DEF Ready
<1>3. IInv /\ PledgesAreKept => ReadyIsFull
    BY <1>1, <1>2 DEF ReadyIsFull
<1> QED BY <1>3, PastAndPledges, PTL

-----------------------------------------------------------------------------
(* What counts for a promotion. *)

\* A finite set of numbers has a least element and a greatest one.
LEMMA ExtremesExist ==
    ASSUME NEW S \in SUBSET Int, IsFiniteSet(S), S # {}
    PROVE  /\ Max(S) \in S /\ \A n \in S : n <= Max(S)
           /\ Min(S) \in S /\ \A n \in S : Min(S) <= n
<1> DEFINE T == {-n : n \in S}
           g == [n \in S |-> -n]
<1>1. \E m \in S : \A n \in S : m >= n
    BY GreatestExists
<1>2. g \in Surjection(S, T)
    BY DEF Surjection
<1>3. IsFiniteSet(T)
    BY <1>2, FS_Surjection
<1>4. T \in SUBSET Int /\ T # {}
    <2>1. PICK n \in S : TRUE
        OBVIOUS
    <2>2. -n \in T
        OBVIOUS
    <2>3. \A k \in T : k \in Int
        OBVIOUS
    <2> QED BY <2>2, <2>3
<1> HIDE DEF T
<1>5. PICK m \in T : \A n \in T : n <= m
    BY <1>3, <1>4, GreatestExists
<1>6. PICK k \in S : m = -k
    BY DEF T
<1>7. \A n \in S : -n <= m
    BY <1>5 DEF T
<1>8. \E l \in S : \A n \in S : l <= n
    BY <1>6, <1>7
<1>9. Max(S) \in S /\ \A n \in S : n <= Max(S)
    BY <1>1 DEF Max
<1>10. Min(S) \in S /\ \A n \in S : Min(S) <= n
    BY <1>8 DEF Min
<1> QED BY <1>9, <1>10

\* The origins that champion and challenger share, and those that count for a horizon
\* or as live samples, grow with the ledger; whether a judged origin counts is settled.
LEMMA CountedGrow ==
    ASSUME NEW l \in Ledger, NEW m \in Ledger, Extends(l, m), NEW c \in Configs, NEW h \in Horizons
    PROVE  /\ CommonOrigins(m, c) \subseteq CommonOrigins(l, c)
           /\ Live(m, c) \subseteq Live(l, c)
           /\ Paired(m, c, h) \subseteq Paired(l, c, h)
           /\ Paired(l, c, h) \intersect Judged(m, c, h) = Paired(m, c, h)
<1>1. \A o \in Times : <<c, o>> \in Keys /\ <<Champion, o>> \in Keys
    BY ShadowAssumption DEF Keys
<1>2. \A o \in Times, g \in Horizons :
          <<<<c, o>>, g>> \in Keys \X Horizons /\ <<<<Champion, o>>, g>> \in Keys \X Horizons
    BY <1>1
<1>3. ASSUME NEW o \in CommonOrigins(m, c) PROVE o \in CommonOrigins(l, c)
    <2>1. /\ o \in Times /\ m.row[<<c, o>>] # None /\ m.row[<<Champion, o>>] # None
          /\ m.row[<<Champion, o>>] = m.row[<<c, o>>]
        BY DEF CommonOrigins
    <2>2. l.row[<<c, o>>] = m.row[<<c, o>>] /\ l.row[<<Champion, o>>] = m.row[<<Champion, o>>]
        BY <1>1, <2>1 DEF Extends
    <2> QED BY <2>1, <2>2 DEF CommonOrigins
<1>4. ASSUME NEW o \in Times, NEW g \in Horizons,
             m.outcome[<<<<c, o>>, g>>] # None, m.outcome[<<<<Champion, o>>, g>>] # None
      PROVE  /\ l.outcome[<<<<c, o>>, g>>] = m.outcome[<<<<c, o>>, g>>]
             /\ l.outcome[<<<<Champion, o>>, g>>] = m.outcome[<<<<Champion, o>>, g>>]
    BY <1>2, <1>4 DEF Extends
<1>5. CommonOrigins(l, c) \subseteq Times /\ CommonOrigins(m, c) \subseteq Times
    BY DEF CommonOrigins
<1>6. ASSUME NEW o \in Live(m, c) PROVE o \in Live(l, c)
    <2>1. /\ o \in CommonOrigins(m, c)
          /\ \E g \in Horizons : m.outcome[<<<<c, o>>, g>>] # None /\ m.outcome[<<<<Champion, o>>, g>>] # None
        BY DEF Live
    <2> QED BY <1>3, <1>4, <1>5, <2>1 DEF Live
<1>7. ASSUME NEW o \in Paired(m, c, h) PROVE o \in Paired(l, c, h)
    <2>1. /\ o \in CommonOrigins(m, c) /\ o \in Times
          /\ m.outcome[<<<<c, o>>, h>>] # None /\ m.outcome[<<<<Champion, o>>, h>>] # None
          /\ m.outcome[<<<<c, o>>, h>>].actual = m.outcome[<<<<Champion, o>>, h>>].actual
        BY <1>5 DEF Paired
    <2> QED BY <1>3, <1>4, <2>1 DEF Paired
<1>8. ASSUME NEW o \in Paired(l, c, h) \intersect Judged(m, c, h) PROVE o \in Paired(m, c, h)
    <2>1. /\ o \in CommonOrigins(l, c) /\ o \in Times
          /\ l.outcome[<<<<c, o>>, h>>].actual = l.outcome[<<<<Champion, o>>, h>>].actual
          /\ m.outcome[<<<<c, o>>, h>>] # None /\ m.outcome[<<<<Champion, o>>, h>>] # None
          /\ o \in Judged(m, c, h)
        BY <1>5 DEF Paired, Judged
    <2>2. /\ l.outcome[<<<<c, o>>, h>>] = m.outcome[<<<<c, o>>, h>>]
          /\ l.outcome[<<<<Champion, o>>, h>>] = m.outcome[<<<<Champion, o>>, h>>]
        BY <1>4, <2>1
    <2>3. o \in CommonOrigins(m, c)
        <3>1. m.row[<<c, o>>] # None /\ m.row[<<Champion, o>>] # None
            BY <2>1 DEF Judged
        <3>2. l.row[<<c, o>>] = m.row[<<c, o>>] /\ l.row[<<Champion, o>>] = m.row[<<Champion, o>>]
            BY <1>1, <2>1, <3>1 DEF Extends
        <3> QED BY <2>1, <3>1, <3>2 DEF CommonOrigins
    <2> QED BY <2>1, <2>2, <2>3 DEF Paired
<1>9. ASSUME NEW o \in Paired(m, c, h) PROVE o \in Judged(m, c, h)
    <2>1. /\ o \in Times /\ m.row[<<c, o>>] # None /\ m.row[<<Champion, o>>] # None
          /\ m.outcome[<<<<c, o>>, h>>] # None /\ m.outcome[<<<<Champion, o>>, h>>] # None
        BY DEF Paired, CommonOrigins
    <2> QED BY <2>1 DEF Judged
<1> QED BY <1>3, <1>6, <1>7, <1>8, <1>9

\* A challenger that may be promoted may be promoted on every later ledger.
LEMMA PromotableStays ==
    ASSUME NEW l \in Ledger, NEW m \in Ledger, Extends(l, m), NEW c \in Configs, Promotable(m, c)
    PROVE  Promotable(l, c)
<1> DEFINE then == CommonOrigins(m, c)
           since == CommonOrigins(l, c)
<1>1. IsFiniteSet(Times)
    BY ShadowAssumption, FS_Interval DEF Times
<1>2. PICK h \in Horizons : TRUE
    BY ShadowAssumption
<1>3. then \subseteq since /\ Live(m, c) \subseteq Live(l, c)
    BY <1>2, CountedGrow
<1>4. /\ since \subseteq Times /\ Live(l, c) \subseteq Times
      /\ \A g \in Horizons : Paired(l, c, g) \subseteq Times /\ Paired(m, c, g) \subseteq then
    BY DEF CommonOrigins, Live, Paired
<1>5. ASSUME NEW S \in SUBSET Times, NEW T \in SUBSET S, Cardinality(T) >= MinSamples
      PROVE  Cardinality(S) >= MinSamples
    <2>1. IsFiniteSet(S)
        BY <1>1, FS_Subset
    <2>2. Cardinality(T) <= Cardinality(S) /\ Cardinality(T) \in Nat /\ Cardinality(S) \in Nat
        BY <2>1, FS_Subset, FS_CardinalityType
    <2> QED BY <1>5, <2>2, ShadowAssumption
<1>6. Cardinality(Live(l, c)) >= MinSamples
    <2>1. Cardinality(Live(m, c)) >= MinSamples
        BY DEF Promotable
    <2> QED BY <1>3, <1>4, <1>5, <2>1
<1>7. ASSUME NEW g \in Horizons PROVE Cardinality(Paired(l, c, g)) >= MinSamples
    <2>1. Cardinality(Paired(m, c, g)) >= MinSamples
        BY DEF Promotable
    <2>2. Paired(m, c, g) \subseteq Paired(l, c, g)
        BY CountedGrow
    <2> QED BY <1>4, <1>5, <2>1, <2>2
<1>8. then # {}
    <2>1. Cardinality(Paired(m, c, h)) >= MinSamples
        BY DEF Promotable
    <2>2. Paired(m, c, h) # {}
        BY <2>1, FS_EmptySet, ShadowAssumption
    <2> QED BY <1>4, <2>2
<1>9. /\ IsFiniteSet(then) /\ IsFiniteSet(since) /\ since # {}
      /\ then \in SUBSET Int /\ since \in SUBSET Int
    <2>1. IsFiniteSet(since)
        BY <1>1, <1>4, FS_Subset
    <2>2. IsFiniteSet(then)
        BY <1>3, <2>1, FS_Subset
    <2> QED BY <1>3, <1>4, <1>8, <2>1, <2>2 DEF Times
<1> HIDE DEF then, since
<1>10. Max(then) \in since /\ Min(then) \in since
    BY <1>3, <1>8, <1>9, ExtremesExist
<1>11. Max(then) <= Max(since) /\ Min(since) <= Min(then)
    BY <1>9, <1>10, ExtremesExist
<1>12. /\ Max(then) \in Int /\ Min(then) \in Int
       /\ Max(since) \in Int /\ Min(since) \in Int
    <2>1. Max(since) \in since /\ Min(since) \in since
        BY <1>9, ExtremesExist
    <2> QED BY <1>9, <1>10, <2>1
<1>13. Max(then) - Min(then) >= Window
    BY DEF Promotable, then
<1>14. Max(since) - Min(since) >= Window
    BY <1>11, <1>12, <1>13, ShadowAssumption
<1> QED BY <1>6, <1>7, <1>14 DEF Promotable, since

(* CountedStands: whatever run, failure, recovery or command comes later, an origin
   that counts for a promotion keeps counting and a judged one that does not never
   does, and the samples and the window that the gate asks for are never lost again
   (evaluate, _evaluate_series, _promotion_gate). *)
THEOREM PromotionStands == Spec => CountedStands
<1>1. ASSUME IInv, IInv', Extends(held', held), NEW c \in Configs \ {Champion}
      PROVE  /\ \A h \in Horizons :
                   Paired(held', c, h) \intersect Judged(held, c, h) = Paired(held, c, h)
             /\ Promotable(held, c) => Promotable(held', c)
    <2>1. held \in Ledger /\ held' \in Ledger
        BY <1>1 DEF IInv
    <2>2. ASSUME NEW h \in Horizons
          PROVE  Paired(held', c, h) \intersect Judged(held, c, h) = Paired(held, c, h)
        BY <1>1, <2>1, CountedGrow
    <2>3. Promotable(held, c) => Promotable(held', c)
        BY <1>1, <2>1, PromotableStays
    <2> QED BY <2>2, <2>3
<1> DEFINE Stands ==
        \A c \in Configs \ {Champion} :
          /\ \A h \in Horizons :
                Paired(held', c, h) \intersect Judged(held, c, h) = Paired(held, c, h)
          /\ Promotable(held, c) => Promotable(held', c)
<1>2. IInv /\ IInv' /\ [Next]_vars => [Stands]_held
    <2>1. ASSUME IInv, IInv', Extends(held', held) PROVE Stands
        BY <1>1, <2>1
    <2>2. IInv /\ [Next]_vars => [Extends(held', held)]_held
        BY NextPreserves
    <2> HIDE DEF Stands
    <2> QED BY <2>1, <2>2
<1> QED BY LedgersGrow, <1>2, PTL DEF Spec, CountedStands
=============================================================================
