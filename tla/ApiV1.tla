------------------------------- MODULE ApiV1 -------------------------------
(* API v1 (apps/api/v1): a request is parsed strictly, its site is checked,    *)
(* and its statements are read one after the other.  The transaction around    *)
(* them is READ COMMITTED, so ingestion may store a hit between two of them.   *)
(* The hits are those of SiteReports; an API range ends before its end.        *)
EXTENDS SiteReports, Sequences, SequencesExt

CONSTANTS
    Bodies,          \* bound: the requests sent, see Body
    Callers,         \* who sends them: [admin, owner, deleted]
    MaxDimensions, MaxLimit, MaxCardinality,
    Visits30,        \* the session gap, in ticks: 30 minutes
    LateHits         \* bound: hits stored while a request is running

\* The fields of a request, parsed from JSON: two dimensions at most, ranges of
\* instants, and a NULL that is no number.
BodyFields ==
    {"operation", "dimensions", "metrics", "dataset", "granularity", "range", "limit", "prefix", "exact",
     "filters", "filterGroups", "previous", "align", "metric", "sort", "direction", "minimum", "compared",
     "thresholds"}
ASSUME ApiV1Assumption ==
    /\ Null \notin Int /\ LateHits \subseteq Hits
    /\ MaxDimensions \in 0..2 /\ MaxLimit \in Nat /\ Visits30 \in Nat
    /\ \A b \in Bodies :
          /\ DOMAIN b = BodyFields /\ b.dimensions \in Seq(STRING) /\ b.metrics \in Seq(STRING)
          /\ b.limit \in Int /\ b.range \in [start : Int, end : Int]

VARIABLE request     \* the request, the statements read and their answers

apiVars == <<request>>
Waiting == [phase |-> "waiting"]

-----------------------------------------------------------------------------
(* catalog.py and contracts.py.                                                *)

EventDimensions == {"name"}
PageDimensions == {"country", "domain", "browser", "device", "path", "section", "groups"}
Dimensions == EventDimensions \cup PageDimensions
KeyMetrics == {"daily_unique_visitors", "visits", "bounces", "total_duration"}
PageMetricNames == {"pageviews", "human_pageviews", "bot_pageviews"} \cup (KeyMetrics \ {"daily_unique_visitors"})
Metrics == PageMetricNames \cup {"events", "daily_unique_visitors"}
Additive == {"pageviews", "human_pageviews", "bot_pageviews", "events"}
ApiOperators(c) ==
    CASE c = "is_bot" -> {"eq", "neq"}
      [] c = "country" -> {"eq", "neq", "in", "not_in"}
      [] c = "groups" -> Containment
      [] c \notin {"is_bot", "country", "groups"} -> Positive \cup Negated
QualityMetrics == <<"pageviews", "daily_unique_visitors", "visits", "bounces", "human_pageviews", "bot_pageviews">>

NoRepeats(s) == Cardinality(ToSet(s)) = Len(s)
InferDataset(b) == IF "name" \in ToSet(b.dimensions) \/ "events" \in ToSet(b.metrics)
                   THEN "events" ELSE "pageviews"
DatasetOf(b) == IF b.dataset # Null THEN b.dataset ELSE InferDataset(b)
ValidDataset(dataset, b) ==
    /\ dataset \in {"pageviews", "events"}
    /\ ToSet(b.dimensions) \subseteq (IF dataset = "events" THEN EventDimensions ELSE PageDimensions)
    /\ ToSet(b.metrics) \cap (IF dataset = "events" THEN PageMetricNames ELSE {"events"}) = {}
GranularityOf(b) == IF b.operation = "timeseries" /\ b.granularity = Null THEN "day" ELSE b.granularity
BoundedInt(n, low, high) == low <= n /\ n <= high
ValidFilter(f) == /\ f.column \in Columns \cup {"is_bot"} /\ f.op \in ApiOperators(f.column)
                  /\ f.values # {}
SelectorIsValid(b) ==
    /\ b.prefix = Null \/ b.exact = Null
    /\ b.prefix # Null \/ b.exact # Null => "groups" \in ToSet(b.dimensions)
\* filters is one more group; an empty group is dropped
FilterGroups(b) == {G \in {b.filters} \cup b.filterGroups : G # {}}

ValidBody(b) ==
    /\ b.operation \in {"totals", "timeseries", "breakdown"}
    /\ Len(b.dimensions) <= MaxDimensions /\ ToSet(b.dimensions) \subseteq Dimensions
    /\ ToSet(b.metrics) \subseteq Metrics /\ NoRepeats(b.dimensions) /\ NoRepeats(b.metrics)
    /\ ValidDataset(DatasetOf(b), b)
    /\ b.granularity \in {Null} \cup DOMAIN Bucket
    /\ b.operation # "timeseries" => b.granularity = Null
    /\ (b.operation = "totals" => b.dimensions = <<>>) /\ (b.operation = "breakdown" => b.dimensions # <<>>)
    /\ b.range.start < b.range.end
    /\ BoundedInt(b.limit, 1, MaxLimit)
    /\ SelectorIsValid(b)
    /\ \A G \in FilterGroups(b) : \A f \in G : ValidFilter(f)

Invalid == [error |-> 400]
ParseQuery(b) ==
    IF ~ValidBody(b) THEN Invalid
    ELSE [dataset |-> DatasetOf(b), operation |-> b.operation, range |-> b.range,
          granularity |-> GranularityOf(b), dimensions |-> b.dimensions, metrics |-> b.metrics,
          groups |-> FilterGroups(b), limit |-> b.limit, prefix |-> b.prefix, exact |-> b.exact]

\* the period compared with: given, or the one before; cut to the elapsed time
Before1(r) == [start |-> 2 * r.start - r.end, end |-> r.start]
PreviousOf(b) == IF b.previous = Null THEN Before1(b.range) ELSE b.previous
Aligned(b) ==
    LET elapsed == b.range.end - b.range.start
        p == PreviousOf(b)
    IN  IF b.align = "full" THEN p
        ELSE IF elapsed <= p.end - p.start THEN [p EXCEPT !.end = p.start + elapsed] ELSE Null
ParseCompare(b) ==
    LET query == ParseQuery([b EXCEPT !.operation = "breakdown", !.metrics = <<b.metric>>])
    IN  IF query = Invalid \/ PreviousOf(b).end <= PreviousOf(b).start \/ Aligned(b) = Null
           \/ \E least \in {b.minimum.current, b.minimum.previous, b.minimum.total} : least < 0
        THEN Invalid
        ELSE [query |-> query, previous |-> Aligned(b), metric |-> b.metric, sort |-> b.sort,
              direction |-> b.direction, minimum |-> b.minimum]
ParseTrafficQuality(b) ==
    LET query == ParseQuery([b EXCEPT !.operation = "breakdown", !.metrics = QualityMetrics])
        compare == ParseCompare([b EXCEPT !.metric = "pageviews"])
    IN  IF query = Invalid \/ (b.compared /\ compare = Invalid) THEN Invalid
        ELSE [query |-> query, previous |-> IF b.compared THEN compare.previous ELSE Null,
              thresholds |-> b.thresholds]

-----------------------------------------------------------------------------
(* queries/analytics.py: one statement over the table as it is.                *)

FilterClause(r, f) ==
    IF f.column = "is_bot" THEN (f.op = "eq") = (r.bot = (f.values = {"true"}))
    ELSE OrmClause(r, f)
InGroup(r, G) ==
    \A c \in {f.column : f \in G} :
        LET asked == {f \in G : f.column = c}
            pos == {f \in asked : f.op \in Positive}
        IN  /\ pos = {} \/ \E f \in pos : FilterClause(r, f)
            /\ \A f \in asked \ pos : FilterClause(r, f)
SourceRows(spec) ==
    {r \in table : /\ spec.range.start <= r.at /\ r.at < spec.range.end
                   /\ r.kind = (IF spec.dataset = "events" THEN 2 ELSE 1)
                   /\ \A G \in spec.groups : InGroup(r, G)}

Labels(r, spec) ==
    {g \in r.groups : /\ spec.prefix # Null => <<spec.prefix, g>> \in Leads
                      /\ spec.exact # Null => g = spec.exact}
DimensionValues(r, d, spec) ==
    CASE d = "groups" -> Labels(r, spec)
      [] d = "section" -> {Section[r.path]}
      [] d \notin {"groups", "section"} -> {r[d]}
\* a pageview stands in one row, or in one for each of its labels
Keys(r, spec) ==
    LET d == spec.dimensions
    IN  CASE Len(d) = 0 -> {<<>>}
          [] Len(d) = 1 -> {<<v>> : v \in DimensionValues(r, d[1], spec)}
          [] Len(d) = 2 -> {<<v, w>> : v \in DimensionValues(r, d[1], spec),
                                       w \in DimensionValues(r, d[2], spec)}
BucketOf(t, spec) == IF spec.granularity = Null THEN Null ELSE Trunc(t, spec.granularity)

Continued(V, r) == \E q \in V : Before(q, r) /\ r.at - q.at <= Visits30
Opens(V) == {r \in V : ~Continued(V, r)}
VisitOf(V, e) == {r \in V : (r = e \/ Before(e, r)) /\ \A o \in Opens(V) : Before(e, o) => r # o /\ ~Before(o, r)}
Length(V, e) == Max({r.at : r \in VisitOf(V, e)}) - e.at

\* visits are made of the keyed rows of one key, and belong to the bucket they open in
AggregateRow(S, k, b, spec) ==
    LET K == {r \in S : k \in Keys(r, spec)}
        R == {r \in K : BucketOf(r.at, spec) = b}
        opened == {e \in Opens(Keyed(K)) : BucketOf(e.at, spec) = b}
        pageviews == spec.dataset = "pageviews"
        count == Cardinality(R)
    IN  [key |-> k, bucket |-> b, count |-> count,
         direct |-> Cardinality({r \in R : r.domain = Null}),
         missing |-> IF ToSet(spec.metrics) \cap KeyMetrics = {} THEN 0 ELSE Cardinality(R \ Keyed(R)),
         values |-> [pageviews |-> IF pageviews THEN count ELSE Null,
                     events |-> IF pageviews THEN Null ELSE count,
                     human_pageviews |-> Cardinality({r \in R : ~r.bot}),
                     bot_pageviews |-> Cardinality({r \in R : r.bot}),
                     daily_unique_visitors |->
                        Cardinality({<<r.at \div Bucket["day"], r.key>> : r \in Keyed(R)}),
                     visits |-> Cardinality(opened),
                     bounces |-> Cardinality({e \in opened : VisitOf(Keyed(K), e) = {e}}),
                     total_duration |-> SumOf([e \in opened |-> Length(Keyed(K), e)])]]
AggregateRows(spec) ==
    LET S == SourceRows(spec)
        at == UNION {{<<k, BucketOf(r.at, spec)>> : k \in Keys(r, spec)} : r \in S}
    IN  IF spec.operation = "totals" THEN {AggregateRow(S, <<>>, Null, spec)}
        ELSE {AggregateRow(S, p[1], p[2], spec) : p \in at}

\* _shape_row: no figure that needs keys from rows whose keys are partly gone
Shaped(row, spec) ==
    [row EXCEPT !.values = [m \in ToSet(spec.metrics) |->
        IF row.missing > 0 /\ m \in KeyMetrics THEN Null ELSE row.values[m]]]
Aggregate(spec) ==
    LET rows == AggregateRows(spec)
    IN  [rows |-> {Shaped(row, spec) : row \in rows}, overflow |-> Cardinality(rows) > MaxCardinality]

TotalsSpec(spec) == [spec EXCEPT !.operation = "totals", !.dimensions = <<>>, !.granularity = Null, !.limit = 1]
MetricTotal(spec, range, m) == [TotalsSpec(spec) EXCEPT !.range = range, !.metrics = <<m>>]
DominanceSpec(spec, secondary) ==
    [spec EXCEPT !.dimensions = Append(spec.dimensions, secondary), !.metrics = <<"pageviews">>]
Dominates(spec, secondary) == secondary \notin ToSet(spec.dimensions) /\ Len(spec.dimensions) < 2

-----------------------------------------------------------------------------
(* services.py: the statements of a request, and what is made of their rows.   *)

Statement(role, spec) == [role |-> role, spec |-> spec]
QueryStatements(q) ==
    <<Statement("rows", q)>> \o
    (IF q.operation = "totals" THEN <<>> ELSE <<Statement("total", TotalsSpec(q))>>)
CompareStatements(c) ==
    <<Statement("rows", c.query), Statement("before", [c.query EXCEPT !.range = c.previous]),
      Statement("total", MetricTotal(c.query, c.query.range, c.metric)),
      Statement("totalBefore", MetricTotal(c.query, c.previous, c.metric))>>
QualityStatements(t) ==
    LET q == t.query
    IN  <<Statement("rows", q)>>
        \o (IF t.previous = Null THEN <<>> ELSE <<Statement("before", [q EXCEPT !.range = t.previous])>>)
        \o (IF Dominates(q, "browser") THEN <<Statement("browser", DominanceSpec(q, "browser"))>> ELSE <<>>)
        \o (IF Dominates(q, "device") THEN <<Statement("device", DominanceSpec(q, "device"))>> ELSE <<>>)
        \o <<Statement("total", TotalsSpec(q))>>

Minus(x, y) == IF x = Null \/ y = Null THEN Null ELSE x - y
Or0(x) == IF x = Null THEN 0 ELSE x
Magnitude(x) == IF x < 0 THEN 0 - x ELSE x
\* ties fall by the text of the keys, here either way
Leading(rows, n, Ahead(_, _)) ==
    {T \in SUBSET rows : /\ Cardinality(T) = (IF Cardinality(rows) < n THEN Cardinality(rows) ELSE n)
                         /\ \A x \in T, y \in rows \ T : ~Ahead(y, x)}
\* a series keeps all buckets of the keys whose first metric is largest
Ranking(rows, q) ==
    [k \in {row.key : row \in rows} |->
        MapThenSumSet(LAMBDA row : Or0(row.values[q.metrics[1]]), {row \in rows : row.key = k})]
LimitRows(rows, q) ==
    CASE q.operation = "totals" -> {rows}
      [] q.operation = "breakdown" -> Leading(rows, q.limit, LAMBDA x, y : x.count > y.count)
      [] q.operation = "timeseries" /\ q.dimensions = <<>> -> {rows}
      [] q.operation = "timeseries" /\ q.dimensions # <<>> ->
            {{row \in rows : row.key \in K} :
                K \in Leading(DOMAIN Ranking(rows, q), q.limit,
                              LAMBDA k, l : Ranking(rows, q)[k] > Ranking(rows, q)[l])}
Truncated(rows, q) ==
    CASE q.operation = "totals" -> FALSE
      [] q.operation = "breakdown" -> Cardinality(rows) > q.limit
      [] q.operation = "timeseries" ->
            q.dimensions # <<>> /\ Cardinality({row.key : row \in rows}) > q.limit

TotalOf(got) == (CHOOSE row \in got.rows : TRUE).values
Overlapping(q) == "groups" \in ToSet(q.dimensions)

CompareRow(k, now, before, c, totals) ==
    LET here == {row \in now : row.key = k}
        there == {row \in before : row.key = k}
        cur == IF here = {} THEN 0 ELSE (CHOOSE row \in here : TRUE).values[c.metric]
        prev == IF there = {} THEN 0 ELSE (CHOOSE row \in there : TRUE).values[c.metric]
        shares == c.metric \in Additive /\ ~Overlapping(c.query)
    IN  [key |-> k, current |-> cur, previous |-> prev, absolute |-> Minus(cur, prev),
         percentage |-> prev \notin {Null, 0} /\ cur # Null,
         share |-> shares /\ totals.current \notin {Null, 0} /\ cur # Null,
         contribution |-> shares /\ totals.change \notin {Null, 0} /\ Minus(cur, prev) # Null]
KeepComparisonRow(row, c) ==
    /\ row.current # Null => row.current >= c.minimum.current
    /\ row.previous # Null => row.previous >= c.minimum.previous
    /\ Or0(row.current) + Or0(row.previous) >= c.minimum.total
    /\ c.direction = "gains" => row.absolute # Null /\ row.absolute > 0
    /\ c.direction = "losses" => row.absolute # Null /\ row.absolute < 0
\* what a missing value sorts after
ComparesAhead(x, y, sort) ==
    CASE sort \in {"current", "previous"} -> x[sort] # Null /\ (y[sort] = Null \/ x[sort] > y[sort])
      [] sort = "absolute" -> x.absolute # Null /\
            (y.absolute = Null \/ Magnitude(x.absolute) > Magnitude(y.absolute))
      [] sort = "contribution" -> x.contribution /\
            (~y.contribution \/ Magnitude(x.absolute) > Magnitude(y.absolute))
      [] sort = "percentage" -> x.percentage /\
            (~y.percentage \/ Magnitude(x.absolute) * y.previous > Magnitude(y.absolute) * x.previous)

\* Mutant: the two periods are cut to the limit before they are compared.
CombinedOfLeading(now, before, c, totals) ==
    LET cut(rows) == CHOOSE T \in Leading(rows, c.query.limit, LAMBDA x, y : x.count > y.count) : TRUE
    IN  {CompareRow(k, cut(now), cut(before), c, totals) : k \in {row.key : row \in cut(now) \cup cut(before)}}

Combined(now, before, c, totals) ==
    {CompareRow(k, now, before, c, totals) : k \in {row.key : row \in now \cup before}}

Dominant(rows, k) ==
    LET mine == {row \in rows : SubSeq(row.key, 1, Len(k)) = k}
        all == MapThenSumSet(LAMBDA row : row.values["pageviews"], mine)
    IN  IF mine = {} THEN Null
        ELSE [count |-> Max({row.values["pageviews"] : row \in mine}), of |-> all]
\* a measure is num / of, in percent where its threshold is
AtLeast(num, of, threshold) == num # Null /\ of \notin {Null, 0} /\ num >= threshold * of
Indicators(row, before, browser, device, t) ==
    LET v == row.values
        was == {b \in before : b.key = row.key}
        then == IF was = {} THEN Null ELSE (CHOOSE b \in was : TRUE).values["pageviews"]
        concentrated(d, threshold) == d # Null /\ AtLeast(100 * d.count, d.of, threshold)
    IN  IF v["pageviews"] < t.minimum THEN {}
        ELSE {name \in {"pages_per_visitor", "one_page", "browser", "device", "volume"} :
                CASE name = "pages_per_visitor" -> AtLeast(v["pageviews"], v["daily_unique_visitors"], t.pages)
                  [] name = "one_page" -> v["bounces"] # Null /\ AtLeast(100 * v["bounces"], v["visits"], t.share)
                  [] name = "browser" -> concentrated(browser, t.share)
                  [] name = "device" -> concentrated(device, t.share)
                  [] name = "volume" ->
                        IF then \in {Null, 0} THEN t.change = 0
                        ELSE AtLeast(100 * Magnitude(v["pageviews"] - then), then, t.change)}

-----------------------------------------------------------------------------
(* views.py.                                                                   *)

InitApi == request = Waiting

Refuse(status) == request' = [phase |-> "done", kind |-> "refused", status |-> status]
WebsiteError(who) == who.deleted \/ ~(who.admin \/ who.owner)

\* _execute up to the first statement: parse, then look for the site
Accept(kind, spec, statements, who) ==
    IF spec = Invalid THEN Refuse(400)
    ELSE IF WebsiteError(who) THEN Refuse(403)
    ELSE request' = [phase |-> "reading", kind |-> kind, spec |-> spec, statements |-> statements,
                     got |-> <<>>, stored |-> 0]
AskQuery(b, who) == LET q == ParseQuery(b) IN
    Accept("query", q, IF q = Invalid THEN <<>> ELSE QueryStatements(q), who)
AskCompare(b, who) == LET c == ParseCompare(b) IN
    Accept("compare", c, IF c = Invalid THEN <<>> ELSE CompareStatements(c), who)
AskQuality(b, who) == LET t == ParseTrafficQuality(b) IN
    Accept("quality", t, IF t = Invalid THEN <<>> ELSE QualityStatements(t), who)
\* DimensionValuesView: the search is applied to what the limit has left
AskValues(d, b, search, who) ==
    LET q == ParseQuery([b EXCEPT !.operation = "breakdown", !.dimensions = <<d>>,
                                  !.metrics = IF d = "name" THEN <<"events">> ELSE <<"pageviews">>])
        matches(v) == search = Null \/ (v # Null /\ <<search, v>> \in Within)
    IN  IF q = Invalid THEN Refuse(400)
        ELSE IF WebsiteError(who) THEN Refuse(403)
        ELSE \E rows \in Leading(AggregateRows(q), q.limit, LAMBDA x, y : x.count > y.count) :
                request' = [phase |-> "done", kind |-> "values", status |-> 200, spec |-> q, stored |-> 0,
                            values |-> {v \in {row.key[1] : row \in rows} : matches(v)},
                            truncated |-> Cardinality(AggregateRows(q)) > q.limit]
Ask ==
    /\ request = Waiting
    /\ \E b \in Bodies, who \in Callers :
          \/ AskQuery(b, who) \/ AskCompare(b, who) \/ AskQuality(b, who)
          \/ \E d \in {"path", "name"}, search \in {Null} \cup {p[1] : p \in Within} : AskValues(d, b, search, who)
    /\ UNCHANGED table

Role(name) == {i \in 1..Len(request.got) : request.statements[i].role = name}
Got(name) == request.got[CHOOSE i \in Role(name) : TRUE]
RowsOf(name) == IF Role(name) = {} \/ Got(name).overflow THEN {} ELSE Got(name).rows
AllRead == Len(request.got) = Len(request.statements)

\* the next aggregate; too many rows end the request, those of a dominance do not
ReadStatement ==
    /\ request.phase = "reading" /\ ~AllRead
    /\ LET next == request.statements[Len(request.got) + 1]
           got == Aggregate(next.spec)
       IN  IF got.overflow /\ next.role \notin {"browser", "device"} THEN Refuse(422)
           ELSE request' = [request EXCEPT !.got = Append(@, got)]
    /\ UNCHANGED table
\* a statement fails or runs into its timeout
StatementFails == request.phase = "reading" /\ ~AllRead /\ Refuse(503) /\ UNCHANGED table

Answered(rows, truncated, totals) ==
    /\ request' = [phase |-> "done", kind |-> request.kind, status |-> 200, spec |-> request.spec,
                   stored |-> request.stored, rows |-> rows, truncated |-> truncated, totals |-> totals]
    /\ UNCHANGED table
AnswerQuery ==
    /\ request.phase = "reading" /\ request.kind = "query" /\ AllRead
    /\ LET q == request.spec
           rows == RowsOf("rows")
       IN  \E shown \in LimitRows(rows, q) :
              Answered(shown, Truncated(rows, q), TotalOf(Got(IF q.operation = "totals" THEN "rows" ELSE "total")))
AnswerCompare ==
    /\ request.phase = "reading" /\ request.kind = "compare" /\ AllRead
    /\ LET c == request.spec
           current == TotalOf(Got("total"))[c.metric]
           before == TotalOf(Got("totalBefore"))[c.metric]
           totals == [current |-> current, previous |-> before, change |-> Minus(current, before)]
           kept == {row \in Combined(RowsOf("rows"), RowsOf("before"), c, totals) : KeepComparisonRow(row, c)}
       IN  \E shown \in Leading(kept, c.query.limit, LAMBDA x, y : ComparesAhead(x, y, c.sort)) :
              Answered(shown, Cardinality(kept) > c.query.limit, totals)
AnswerQuality ==
    /\ request.phase = "reading" /\ request.kind = "quality" /\ AllRead
    /\ LET t == request.spec
           diagnosed(row) == [row |-> row, indicators |->
                Indicators(row, RowsOf("before"), Dominant(RowsOf("browser"), row.key),
                           Dominant(RowsOf("device"), row.key), t.thresholds)]
       IN  \E shown \in Leading(RowsOf("rows"), t.query.limit, LAMBDA x, y : x.count > y.count) :
              Answered({diagnosed(row) : row \in shown}, Cardinality(RowsOf("rows")) > t.query.limit,
                       TotalOf(Got("total")))

\* ingestion stores a hit between two statements
Arrive(r) ==
    /\ request.phase = "reading" /\ r \notin table
    /\ table' = table \cup {r}
    /\ request' = [request EXCEPT !.stored = @ + 1]

NextApi == Ask \/ ReadStatement \/ StatementFails \/ AnswerQuery \/ AnswerCompare \/ AnswerQuality
           \/ \E r \in LateHits : Arrive(r)
ApiSpec == InitReports /\ InitApi /\ [][NextApi /\ UNCHANGED report]_<<reportVars, apiVars>>

-----------------------------------------------------------------------------
(* The rows of an answer and its totals come from different statements, and a  *)
(* client adds them up: when nothing was cut and no hit arrived in between, an *)
(* additive metric's rows sum to its total and the changes of a comparison to  *)
(* the total change; visits, which are not additive, only ever split (no fewer *)
(* in the rows, in no row longer than all of them, though rows may overlap in  *)
(* time), and the buckets of a series open each visit once.  The unfiltered    *)
(* total is the dashboard's.                                                   *)
Whole(a) == a.stored = 0 /\ ~a.truncated
SumRows(rows, m) == SumOf([row \in rows |-> row.values[m]])
Shown(rows, m) == \A row \in rows : row.values[m] # Null
QueryAddsUp(a) ==
    LET q == a.spec
        m == q.metrics
    IN  /\ a.stored = 0 /\ q.groups = {} /\ "pageviews" \in ToSet(m) =>
              a.totals["pageviews"] = PageviewCount([filters |-> {}, bots |-> [reasons |-> {}, countries |-> {}]],
                                                    [q.range EXCEPT !.end = @ - 1])
        /\ Whole(a) /\ ~Overlapping(q) => \A i \in 1..Len(m) :
              /\ m[i] \in Additive => SumRows(a.rows, m[i]) = a.totals[m[i]]
              /\ a.totals[m[i]] # Null => Shown(a.rows, m[i])
              /\ m[i] \in {"visits", "total_duration"} /\ a.totals[m[i]] # Null =>
                    /\ m[i] = "visits" => SumRows(a.rows, m[i]) >= a.totals[m[i]]
                    /\ m[i] = "total_duration" => \A row \in a.rows : row.values[m[i]] <= a.totals[m[i]]
                    /\ q.dimensions = <<>> => SumRows(a.rows, m[i]) = a.totals[m[i]]
AnswersAddUp ==
    request.phase = "done" /\ request.status = 200 =>
        /\ request.kind = "query" => QueryAddsUp(request)
        /\ request.kind = "compare" /\ Whole(request) =>
              LET c == request.spec
                  everything == /\ c.minimum = [current |-> 0, previous |-> 0, total |-> 0]
                                /\ c.direction = "both" /\ c.metric \in Additive
              IN  everything /\ ~Overlapping(c.query) =>
                     SumOf([row \in request.rows |-> row.absolute]) = request.totals.change
        /\ request.kind = "quality" => \A x \in request.rows :
              /\ "one_page" \in x.indicators => x.row.missing = 0
              /\ request.stored = 0 => x.row.values["pageviews"] <= request.totals["pageviews"]

=============================================================================
