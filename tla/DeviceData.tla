----------------------------- MODULE DeviceData -----------------------------
(***************************************************************************)
(* storage/time-series/influxdb/retriever: the queries.  A client reads    *)
(* the data of a device, of one attribute of it or of a selection by       *)
(* GraphQL; the first two are read page by page, by following the link to  *)
(* the next page, while the storer goes on writing and InfluxDB drops what *)
(* its retention has expired.  A flexible query runs under a read          *)
(* authorization of the organization, created when there is none.          *)
(* One device, which exists throughout (RetrieverSync has the others).     *)
(***************************************************************************)
EXTENDS Integers, Sequences, FiniteSets, FiniteSetsExt

CONSTANTS
    Attributes,
    Readers, FlexQueries,
    MaxTime,       \* of the clock
    MaxLimit,      \* paginate.default.max.limit
    MaxLate        \* points stored after their time, and expired ones

ASSUME DeviceDataAssumption ==
    /\ Attributes # {} /\ IsFiniteSet(Attributes) /\ IsFiniteSet(FlexQueries)
    /\ MaxLimit \in Nat \ {0} /\ {MaxLate} \subseteq Nat /\ MaxTime \in Nat \ {0}

VARIABLES
    now,
    points,        \* stored: <<time, attribute>>
    reader,        \* the client that pages, with its last answer
    flex,          \* flexible queries
    authorizations,\* of the organization
    late, retired

queryVars == <<now, points, reader, flex, authorizations, late, retired>>

Times == 1..MaxTime
Orders == {"asc", "desc"}
Kinds == {"device", "graphql"} \cup Attributes

\* before, overtaken and shrunk are history: what was stored at the first request and has not
\* expired since, whether a point came in ahead of the reader's position, and whether one expired.
NoReading == [phase |-> "idle", kind |-> "device", from |-> 1, to |-> 0, order |-> "desc", limit |-> 1, page |-> 1,
         got |-> <<>>, before |-> {}, overtaken |-> FALSE, shrunk |-> FALSE]

DataInit ==
    /\ now = 1 /\ points = {} /\ late = 0 /\ retired = 0
    /\ reader = [r \in Readers |-> NoReading]
    /\ flex = [q \in FlexQueries |-> "idle"] /\ authorizations = 0

-----------------------------------------------------------------------------
(* The storer, the clock and InfluxDB's retention, external                *)

Passes ==
    /\ now < MaxTime /\ now' = now + 1
    /\ UNCHANGED <<points, reader, flex, authorizations, late, retired>>

Reading(r) == reader[r].phase = "reading"

\* Whether a point of time t comes into the range before its end in the reader's order.
Overtakes(t, r) == Reading(r) /\ t < reader[r].to /\ (t < now \/ reader[r].order = "desc")

\* A point is stored at its time, or later.
Stores(t, a) ==
    /\ t <= now /\ <<t, a>> \notin points
    /\ points' = points \cup {<<t, a>>}
    /\ t < now => late < MaxLate
    /\ late' = IF t < now THEN late + 1 ELSE late
    /\ reader' = [r \in Readers |-> [reader[r] EXCEPT !.overtaken = @ \/ Overtakes(t, r)]]
    /\ UNCHANGED <<now, flex, authorizations, retired>>

Expires ==
    /\ retired < MaxLate /\ retired' = retired + 1
    /\ \E p \in points :
         /\ \A o \in points : p[1] <= o[1]
         /\ points' = {o \in points : o[1] # p[1]}
    /\ reader' = [r \in Readers |-> IF Reading(r)
                                   THEN [reader[r] EXCEPT !.before = @ \cap points', !.shrunk = TRUE]
                                   ELSE reader[r]]
    /\ UNCHANGED <<now, flex, authorizations, late>>

-----------------------------------------------------------------------------
(* DeviceDataRepository                                                    *)

Smaller(m, n) == IF m < n THEN m ELSE n

\* commonQueryParams: the stop of a range is exclusive, now() without dateTo.
InRange(t, from, to) == from <= t /\ t < to
Offset(page, limit) == (page - 1) * limit

\* commonQueryOrderExpression: InfluxDB's own order is ascending.
Sorted(times, order) ==
    LET before(s, t) == IF order = "desc" THEN s > t ELSE s < t
    IN  [i \in 1..Cardinality(times) |->
            CHOOSE t \in times : Cardinality({s \in times : before(s, t)}) = i - 1]

\* commonLimitExpression.
Limited(rows, limit, offset) == SubSeq(rows, offset + 1, Smaller(offset + limit, Len(rows)))

\* createFluxFilter: no attribute named selects them all.
Selected(attributes) == IF attributes = {} THEN Attributes ELSE attributes

\* queryByMeasurement: pivot gives a row per time, with the attributes that have a value.
ByMeasurement(q, to) ==
    LET times == {p[1] : p \in {o \in points : InRange(o[1], q.from, to)}}
        rows == Sorted(times, q.order)
    IN  Limited([i \in 1..Len(rows) |-> [ts |-> rows[i], attrs |-> {a \in Attributes : <<rows[i], a>> \in points}]],
                q.limit, Offset(q.page, q.limit))

ByField(a, q, to) ==
    LET rows == Sorted({p[1] : p \in {o \in points : o[2] = a /\ InRange(o[1], q.from, to)}}, q.order)
    IN  Limited([i \in 1..Len(rows) |-> [ts |-> rows[i], attrs |-> {a}]], q.limit, Offset(q.page, q.limit))

\* queryUsingGraphql: a table per attribute, which limit bounds one by one.
ByGraphql(attributes, q, to) ==
    FoldSet(LAMBDA a, rows : rows \o ByField(a, q, to), <<>>, Selected(attributes))

-----------------------------------------------------------------------------
(* The routes                                                              *)

\* CustomPaginator: 0 is the default.  More than the maximum is refused: next is
\* called all the same, and the query then runs for nobody.
PageLimit(limit) == IF limit < 1 THEN MaxLimit ELSE limit

\* Mutant: the end of the range is left to now().
CheckDateToNot(to) == to

\* checkDateTo: the links to the other pages repeat it.
CheckDateTo(to) == IF to = 0 THEN now ELSE to

\* Without a dateTo the query runs up to now().
EndOf(q) == IF q.to = 0 THEN now + 1 ELSE q.to

\* A first request; to = 0 stands for no dateTo.
AsksData(r, kind, from, to, order, limit) ==
    /\ reader[r].phase = "idle" /\ kind # "graphql" /\ (to = 0 \/ from < to)
    /\ limit <= MaxLimit
    /\ reader' = [reader EXCEPT ![r] =
         [NoReading EXCEPT !.phase = "reading", !.kind = kind, !.from = from, !.to = CheckDateTo(to),
                      !.order = order, !.limit = PageLimit(limit), !.before = points]]
    /\ UNCHANGED <<now, points, flex, authorizations, late, retired>>

RowsOf(q) == IF q.kind = "device" THEN ByMeasurement(q, EndOf(q)) ELSE ByField(q.kind, q, EndOf(q))

\* getPaging, without a count: a full page has a next one, which may be empty.
HasNext(rows, limit) == Len(rows) >= limit

\* The device routes: the query, getPaging, and a client that follows the link.
AnswersPage(r) ==
    /\ Reading(r)
    /\ LET rows == RowsOf(reader[r])
       IN  reader' = [reader EXCEPT ![r].got = @ \o rows,
                                    ![r].phase = IF HasNext(rows, reader[r].limit) THEN "reading" ELSE "read",
                                    ![r].page = IF HasNext(rows, reader[r].limit) THEN @ + 1 ELSE @]
    /\ UNCHANGED <<now, points, flex, authorizations, late, retired>>

\* A query that fails answers with the status of InfluxDB; the client gives up.
QueryFails(r) ==
    /\ Reading(r) /\ reader' = [reader EXCEPT ![r] = NoReading]
    /\ UNCHANGED <<now, points, flex, authorizations, late, retired>>

\* The GraphQL route: one answer, and no pages.
AsksGraphql(r, attributes, from, limit, isDesc) ==
    /\ reader[r].phase = "idle"
    /\ LET q == [NoReading EXCEPT !.phase = "read", !.kind = "graphql", !.from = from, !.limit = limit,
                             !.order = IF isDesc THEN "desc" ELSE "asc", !.before = points]
       IN  reader' = [reader EXCEPT ![r] = [q EXCEPT !.got = ByGraphql(attributes, q, now)]]
    /\ UNCHANGED <<now, points, flex, authorizations, late, retired>>

-----------------------------------------------------------------------------
(* runGenericFlexQuery                                                     *)

\* The authorizations of the organization are listed, and the first one is used.
FlexLooks(q) ==
    /\ flex[q] = "idle"
    /\ flex' = [flex EXCEPT ![q] = IF authorizations > 0 THEN "run" ELSE "post"]
    /\ UNCHANGED <<now, points, reader, authorizations, late, retired>>

FlexAuthorizes(q) ==
    /\ flex[q] = "post" /\ authorizations' = authorizations + 1
    /\ flex' = [flex EXCEPT ![q] = "run"]
    /\ UNCHANGED <<now, points, reader, late, retired>>

FlexRuns(q) ==
    /\ flex[q] = "run" /\ flex' = [flex EXCEPT ![q] = "idle"]
    /\ UNCHANGED <<now, points, reader, authorizations, late, retired>>

\* The attributes are alike: one of them stands for all in the requests.
AnAttribute == CHOOSE a \in Attributes : TRUE

\* A bound: what happens after the last answer shows nothing.
Observed == \E r \in Readers : reader[r].phase # "read"

PagesNext ==
    \/ Observed /\ (Passes \/ Expires \/ \E t \in Times, a \in Attributes : Stores(t, a))
    \/ \E r \in Readers : AnswersPage(r) \/ QueryFails(r)
    \/ \E r \in Readers, k \in {"device", AnAttribute}, f \in {1, 2} \cap Times, t \in {0, MaxTime},
          o \in Orders, l \in 0..MaxLimit : AsksData(r, k, f, t, o, l)
    \/ \E r \in Readers, as \in SUBSET Attributes, d \in BOOLEAN : AsksGraphql(r, as, 1, 1, d)

FlexNext == \E q \in FlexQueries : FlexLooks(q) \/ FlexAuthorizes(q) \/ FlexRuns(q)

DataNext == PagesNext \/ FlexNext

-----------------------------------------------------------------------------
(* Properties                                                              *)

DataTypeOK ==
    /\ now \in Times /\ points \subseteq Times \X Attributes
    /\ \A r \in Readers :
         /\ reader[r].phase \in {"idle", "reading", "read"}
         /\ reader[r].kind \in Kinds /\ reader[r].order \in Orders
         /\ reader[r].from \in Times /\ reader[r].to \in {0} \cup Times /\ reader[r].limit \in 1..MaxLimit
         /\ reader[r].page \in 1..(MaxTime + 1)
         /\ reader[r].got \in Seq([ts : Times, attrs : SUBSET Attributes])
    /\ flex \in [FlexQueries -> {"idle", "post", "run"}] /\ authorizations \in 0..Cardinality(FlexQueries)
    /\ {late, retired} \subseteq 0..MaxLate

\* The points a walk through the pages must show.
Due(q) == {p \in q.before : InRange(p[1], q.from, EndOf(q)) /\ q.kind \in {"device", p[2]}}

\* Following the links from the first page to the last shows every point of the range that was
\* stored at the first request and did not expire meanwhile, whatever is written; only an
\* ascending walk may skip some, when older points expire under it.  And no row is shown twice,
\* unless a point arrived late, or the dateTo of a descending walk lies in the future.
PagesCoverTheRange ==
    \A r \in Readers : reader[r].phase = "read" /\ reader[r].kind # "graphql" =>
        LET q == reader[r]
        IN  /\ \/ q.shrunk /\ q.order = "asc"
               \/ \A p \in Due(q) : \E i \in DOMAIN q.got : q.got[i].ts = p[1] /\ p[2] \in q.got[i].attrs
            /\ \/ q.overtaken
               \/ \A i, j \in DOMAIN q.got : q.got[i].ts = q.got[j].ts => i = j

DataSpec == DataInit /\ [][DataNext]_queryVars
===============================================================================
