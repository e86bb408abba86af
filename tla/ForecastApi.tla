---------------------------- MODULE ForecastApi ----------------------------
(***************************************************************************)
(* The WSGI service of api/forecast_service.py in its one worker, with the *)
(* rate limiter of a key, the log of audited reads, and a client that      *)
(* follows the cursors of GET /v1/forecasts to the end while production    *)
(* adds forecasts, or brings back an older history; and the static pages   *)
(* of web/static_api.py, that a client walks by number across rebuilds.    *)
(*                                                                         *)
(* Abstractions.  A behaviour follows either a client or the traffic of a  *)
(* key: a request that is refused, or whose event is lost, leaves the walk *)
(* it belongs to as it is.  The clock counts half       *)
(* seconds, so that Retry-After is rounded as in the code, and only the    *)
(* limiter and the age of the log depend on it; an origin is at its own    *)
(* number.  An event of the log is the number of its request, all are of   *)
(* one size, and AuditMax of them fill a file.                             *)
(***************************************************************************)
EXTENDS ForecastContract, Sequences, SequencesExt

CONSTANTS
    Origins, Horizons, Models,  \* the keys of the history
    FaultyModel,                \* the model of which a row may break the contract
    Filters,                    \* [from, to, model] of the walk
    HealthFiles,                \* what pipeline_health.json may hold
    PageSize,                   \* limit of the walk
    Limit, Window,              \* rate_limit, rate_window_seconds
    AuditMax, Backups, MaxAge,  \* audit_max_bytes, audit_backups, audit_max_age_days
    MaxTime, MaxRequests        \* half seconds and requests considered

ASSUME ApiAssumption ==
    /\ Origins \subseteq Nat /\ Horizons \subseteq Nat \ {0}
    /\ Models \subseteq Nat                \* numbered as their names compare
    /\ IsFiniteSet(Origins) /\ IsFiniteSet(Horizons) /\ IsFiniteSet(Models)
    /\ Missing \notin Origins \X Horizons \X Models
    /\ PageSize \in 1 .. 100 /\ Limit \in Nat \ {0} /\ Window \in Nat \ {0}
    /\ AuditMax \in Nat \ {0} /\ Backups \in Nat /\ MaxAge \in Nat \ {0}
    /\ MaxTime \in Nat /\ MaxRequests \in Nat

VARIABLES
    rows,       \* forecast_predictions of the history
    file,       \* the health state
    clock,
    bucket,     \* SlidingWindowLimiter.requests of the key
    admitted,   \* ghost: the times of every request let through
    promised,   \* ghost: when the last refusal said to come back, Missing when there is none
    log,        \* the audit files: 0 the active one, then its backups
    requests,   \* requests so far
    lost,       \* ghost: the requests of which the event was not written
    walk,       \* the client, Missing when the behaviour follows the traffic
    site        \* the rows of the static pages deployed

trafficVars == <<clock, bucket, admitted, promised, log, requests, lost>>
walkVars == <<rows, file, walk, site>>
vars == <<trafficVars, walkVars>>

Row(o, h, m, q) ==
    [origin |-> o, horizon |-> h, model |-> m, quantiles |-> q, agreement |-> Missing]

Ordered == <<1, 2, 3>>
Crossed == <<2, 1, 3>>

Key(row) == <<row.origin, row.horizon, row.model>>

\* ORDER BY origin_at DESC, horizon_hours ASC, model_name ASC
Before(a, b) ==
    \/ a[1] > b[1]
    \/ a[1] = b[1] /\ a[2] < b[2]
    \/ a[1] = b[1] /\ a[2] = b[2] /\ a[3] < b[3]

\* the n-th row is the one with n - 1 before it
InOrder(rs) ==
    [n \in 1 .. Cardinality(rs) |->
        CHOOSE row \in rs : Cardinality({r \in rs : Before(Key(r), Key(row))}) = n - 1]

Newest(rs) == IF rs = {} THEN Missing ELSE Max({r.origin : r \in rs})

FirstOf(s, n) == SubSeq(s, 1, Min({n, Len(s)}))
AllAfter(s, n) == SubSeq(s, n + 1, Len(s))

\* mutant: a last page that is not full is left out
PagesFull(rs) ==
    LET all == InOrder(rs)
    IN  [n \in 1 .. Len(all) \div PageSize |-> FirstOf(AllAfter(all, (n - 1) * PageSize), PageSize)]

\* what the static pages hold, by page number
Pages(rs) ==
    LET all == InOrder(rs)
        count == IF rs = {} THEN 1 ELSE ((Len(all) - 1) \div PageSize) + 1
    IN  [n \in 1 .. count |-> FirstOf(AllAfter(all, (n - 1) * PageSize), PageSize)]

-----------------------------------------------------------------------------
(* The limiter.  Times are in half seconds, Window in seconds. *)

\* SlidingWindowLimiter.allow drops what has left the window from the left, as long
\* as there is anything
Pruned(b) ==
    LET left == {n \in 0 .. Len(b) : \A i \in 1 .. n : b[i] <= clock - 2 * Window}
    IN  AllAfter(b, Max(left))

\* mutant: the rest of a second is cut off
RetryAfterCut(b) == Max({1, (2 * Window - (clock - b[1])) \div 2})

\* Retry-After, in seconds
RetryAfter(b) == LET left == 2 * Window - (clock - b[1]) IN (left \div 2) + 1

Allowed == Len(Pruned(bucket)) < Limit

Admit ==
    /\ bucket' = Append(Pruned(bucket), clock)
    /\ admitted' = Append(admitted, clock)
    /\ promised' = Missing

Refuse ==
    /\ bucket' = Pruned(bucket)
    /\ promised' = clock + 2 * RetryAfter(Pruned(bucket))
    /\ UNCHANGED admitted

-----------------------------------------------------------------------------
(* The log of reads. *)

Files == 0 .. Backups
None == [events |-> <<>>, at |-> 0]

\* files not written to for audit_max_age_days are removed
Expired(l) == [i \in Files |-> IF clock - l[i].at > MaxAge THEN None ELSE l[i]]

\* the oldest file in use is removed, the others move up by one
Rotated(l) ==
    [i \in Files |-> IF i = 0 THEN None
                     ELSE IF i = Backups THEN l[i]
                     ELSE l[i - 1]]

\* _write_audit
Written(l, event) ==
    LET kept == Expired(l)
        ready == IF Len(kept[0].events) >= AuditMax THEN Rotated(kept) ELSE kept
    IN  [ready EXCEPT ![0] = [events |-> Append(@.events, event), at |-> clock]]

\* the event is written, or the disk refuses it and the response goes out all the same
Audit ==
    /\ requests < MaxRequests
    /\ requests' = requests + 1
    /\ \/ log' = Written(log, requests') /\ UNCHANGED lost
       \/ log' = log /\ lost' = lost \union {requests'}

-----------------------------------------------------------------------------
(* GET /v1/forecasts. *)

\* A bound compares as the text it was sent as: the origins are stored with the
\* offset +00:00, which sorts before Z.
FromBound(f, o) == f.from = Missing \/ f.from.at < o \/ (f.from.at = o /\ f.from.spelled = "offset")
ToBound(f, o) == f.to = Missing \/ o <= f.to.at

Matches(f, row) ==
    FromBound(f, row.origin) /\ ToBound(f, row.origin) /\ f.model \in {Missing, row.model}

Matching(f) == {row \in rows : Matches(f, row)}

\* mutant: the next page begins at the next origin
AfterCursorOrigin(rs, cursor) == {row \in rs : cursor = Missing \/ row.origin < cursor[1]}

\* _after_cursor
AfterCursor(rs, cursor) == {row \in rs : cursor = Missing \/ Before(cursor, Key(row))}

CursorExists(f, cursor) == cursor = Missing \/ \E row \in Matching(f) : Key(row) = cursor

\* limit + 1 rows are fetched: the one more says whether there is a next page
Fetched(f, cursor) ==
    LET all == InOrder(AfterCursor(Matching(f), cursor))
    IN  FirstOf(all, PageSize + 1)

\* the status of a page of the walk
PageStatus ==
    IF Unavailable(file) THEN 503
    ELSE IF ~CursorExists(walk.filter, walk.cursor) THEN 400
    ELSE IF ~PageValid(ToSet(FirstOf(Fetched(walk.filter, walk.cursor), PageSize)), PageSize)
         THEN 500
    ELSE 200

\* the client takes the page and goes on with next_cursor, or is through
TakePage ==
    LET fetched == Fetched(walk.filter, walk.cursor)
        page == FirstOf(fetched, PageSize)
    IN  walk' = [walk EXCEPT !.got = @ \o page,
                             !.cursor = IF Len(fetched) > PageSize THEN Key(page[PageSize]) ELSE Missing,
                             !.state = IF Len(fetched) > PageSize THEN "walking" ELSE "done"]

-----------------------------------------------------------------------------
(* A client. *)

Idle(via) == [state |-> "idle", via |-> via, filter |-> Missing, cursor |-> Missing, got |-> <<>>,
         present |-> {}]

Init ==
    /\ rows \in {{Row(o, h, m, Ordered) : h \in Horizons, m \in Models} : o \in Origins}
    /\ file \in HealthFiles /\ site = {} /\ walk \in {Idle("api"), Idle("pages"), Missing}
    /\ clock = 0 /\ bucket = <<>> /\ admitted = <<>> /\ promised = Missing
    /\ log = [i \in Files |-> None] /\ requests = 0 /\ lost = {}

\* the client begins: at the first page of the API, or of the site
Begin ==
    /\ walk.state = "idle"
    /\ \/ /\ walk.via = "api"
          /\ \E f \in Filters :
                walk' = [walk EXCEPT !.state = "walking", !.filter = f, !.present = Matching(f)]
       \/ /\ walk.via = "pages"
          /\ walk' = [walk EXCEPT !.state = "walking", !.cursor = 1, !.present = site]
    /\ UNCHANGED <<rows, file, site>>

\* a page of the walk is asked for; after a 503 or a 500 it can be asked for again
GetPage ==
    /\ walk.state = "walking" /\ walk.via = "api"
    /\ \/ PageStatus = 200 /\ TakePage
       \/ PageStatus = 400 /\ walk' = [walk EXCEPT !.state = "failed"]
    /\ UNCHANGED <<rows, file, site>>

\* a page of the site, then its next_url
GetStatic ==
    /\ walk.state = "walking" /\ walk.via = "pages"
    /\ LET pages == Pages(site)
       IN  IF walk.cursor \in DOMAIN pages
           THEN walk' = [walk EXCEPT !.got = @ \o pages[walk.cursor],
                                     !.cursor = @ + 1,
                                     !.state = IF walk.cursor = Len(pages) THEN "done" ELSE @]
           ELSE walk' = [walk EXCEPT !.state = "failed"]
    /\ UNCHANGED <<rows, file, site>>

\* A forecast, or what a rerun of one adds.  The origin may be an older one: a
\* fallback to the secondary source, or a file imported late.  A single model's
\* quantiles are stored as the model gave them.
Ingest(o, ms, q) ==
    /\ rows' = rows \union {Row(o, h, m, IF m = FaultyModel THEN q ELSE Ordered) :
                  h \in Horizons, m \in {n \in ms : ~\E r \in rows : r.origin = o /\ r.model = n}}
    /\ rows' # rows
    /\ UNCHANGED <<file, walk, site>>

\* an older generation is put back: the newest origin is gone
Reverted ==
    /\ Cardinality({r.origin : r \in rows}) > 1
    /\ rows' = {r \in rows : r.origin # Newest(rows)}
    /\ walk' = IF walk.via = "api" THEN [walk EXCEPT !.present = @ \intersect rows'] ELSE walk
    /\ UNCHANGED <<file, site>>

\* the health of the pipeline is for the service alone
HealthChanges ==
    walk.via = "api" /\ file' \in HealthFiles \ {file} /\ UNCHANGED <<rows, walk, site>>

\* generate_api: the build fails on a row that breaks the contract
Deploy ==
    /\ walk.via = "pages"
    /\ \A row \in rows : Valid(row)
    /\ site' = rows /\ site' # site
    /\ walk' = IF site \subseteq rows THEN walk ELSE [walk EXCEPT !.present = {}]
    /\ UNCHANGED <<rows, file>>

Walks ==
    /\ walk # Missing /\ walk.state \in {"idle", "walking"}
    /\ \/ Begin \/ GetPage \/ GetStatic
       \/ \E o \in Origins, ms \in SUBSET Models, q \in {Ordered, Crossed} : Ingest(o, ms, q)
       \/ Reverted \/ HealthChanges \/ Deploy
    /\ UNCHANGED trafficVars

-----------------------------------------------------------------------------
(* The traffic of a key. *)

\* an authenticated request
Get == (IF Allowed THEN Admit ELSE Refuse) /\ Audit /\ UNCHANGED clock

\* a wrong method, media type or key is answered before the limiter
Rejected == Audit /\ UNCHANGED <<clock, bucket, admitted, promised>>

Tick ==
    /\ clock < MaxTime
    /\ clock' = clock + 1
    /\ UNCHANGED <<bucket, admitted, promised, log, requests, lost>>

Traffic == walk = Missing /\ (Get \/ Rejected \/ Tick) /\ UNCHANGED walkVars

Next == Walks \/ Traffic

Spec == Init /\ [][Next]_vars
-----------------------------------------------------------------------------
\* A walk of the API that comes to its end has given every row that matched when
\* it began, and is still there, once and in order, whatever was added, refused or
\* out of health on the way.
WalkIsExact ==
    walk # Missing /\ walk.via = "api" =>
        /\ \A i, j \in DOMAIN walk.got : i < j => Before(Key(walk.got[i]), Key(walk.got[j]))
        /\ walk.state = "done" => walk.present \subseteq ToSet(walk.got)

\* The pages of the site shift under a client when the site is built anew: rows come
\* twice, but none is passed over, unless the site has lost rows on the way.
SiteWalkMissesNothing ==
    walk # Missing /\ walk.via = "pages" /\ walk.state = "done" => walk.present \subseteq ToSet(walk.got)

\* A client that is refused, and asks for nothing before its Retry-After is over,
\* is let through.
RetryIsHonoured == promised # Missing /\ clock >= promised => Allowed

=============================================================================
