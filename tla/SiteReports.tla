---------------------------- MODULE SiteReports ----------------------------
(* What the dashboard reads (core/mantecato_core/queries, filters.py): the      *)
(* rows of website_event of one site, the filters, and every report over them.  *)
(* Pageviews are counted in SQL with build_filter_sql, visitors and visits      *)
(* through the ORM with apply_filters_to_qs: two translations of one filter,    *)
(* whose answers stand side by side on a page.  A tick is a part of a second.   *)
EXTENDS Integers, FiniteSets, FiniteSetsExt, Functions

CONSTANTS
    Hits,          \* the rows a table may hold
    Null,          \* SQL's NULL
    MaxRows,       \* bound: rows in the table
    Ticks,         \* ticks in a second
    SessionGap,    \* 1800, in seconds
    Bucket,        \* granularity -> its length in ticks
    EventLower,    \* the first tick whose digests retention has kept
    StoredDays,    \* visitor_daily: day -> totals of the days before
    StoredScopes,  \* visitor_period: [month, scope, value, visitors, visits, bounces]
    Within, Leads, \* pairs of texts: substring of, prefix of
    Normal, Section, Channel,   \* _normalize_url, section_for_path, classify_channel
    Namespace,     \* label -> what stands before its colon, or Null
    Now,           \* NOW() of the realtime page
    FilterSets,    \* bound: the filters asked for
    Spans,         \* bound: the ranges asked for, [start, end]
    Limits, OverFetch

\* The types the queries rely on.  Rows have a primary key; months are rolled up
\* whole, and a stored day sums rows whose counts are consistent.
ASSUME SiteReportsAssumption ==
    /\ \A r \in Hits : r.id \in Int /\ r.at \in Int /\ r.bot \in BOOLEAN
    /\ \A q, r \in Hits : q.id = r.id => q = r
    /\ Ticks \in Nat \ {0} /\ SessionGap \in Nat /\ EventLower \in Int
    /\ {"day", "month"} \subseteq DOMAIN Bucket /\ \A g \in DOMAIN Bucket : Bucket[g] \in Nat \ {0}
    /\ IsFiniteSet(DOMAIN StoredDays) /\ \A d \in DOMAIN StoredDays :
          LET t == StoredDays[d]
          IN  /\ {t.bounces, t.visits, t.pageviews} \subseteq Nat
              /\ t.bounces <= t.visits /\ t.visits <= t.pageviews
    /\ IsFiniteSet(DOMAIN Namespace)
    /\ Spans \subseteq [start : Int, end : Int]
    /\ Limits \subseteq Nat /\ OverFetch \in Nat \ {0}

VARIABLES
    table,         \* website_event of the site
    report         \* the last report, with its question

reportVars == <<table, report>>
NoReport == [about |-> "nothing"]

-----------------------------------------------------------------------------
(* Filters.                                                                    *)

ScalarColumns == {"path", "country", "domain", "device", "name"}
Columns == ScalarColumns \cup {"groups"}
Positive == {"eq", "contains", "starts_with", "in"}
Negated == {"neq", "not_contains", "not_starts_with", "not_in"}
Containment == {"eq", "neq", "in", "not_in", "starts_with", "not_starts_with"}
OperatorIsValid(c, op) == op \in (IF c = "groups" THEN Containment ELSE Positive \cup Negated)

\* parse_filters_from_params drops what is not meaningful
ParseFilters(asked) == {f \in asked : f.column \in Columns /\ OperatorIsValid(f.column, f.op)}

\* whether one text answers to the positive form of a filter
Holds(f, text) ==
    CASE f.op \in {"eq", "neq", "in", "not_in"} -> text \in f.values
      [] f.op \in {"contains", "not_contains"} -> \E s \in f.values : <<s, text>> \in Within
      [] f.op \in {"starts_with", "not_starts_with"} -> \E s \in f.values : <<s, text>> \in Leads

AnyLabel(r, f) == \E g \in r.groups : Holds(f, g)

\* a clause of build_filter_sql: a comparison with NULL is not true, negated or not
SqlClause(r, f) ==
    CASE f.column = "groups" -> (f.op \in Positive) = AnyLabel(r, f)
      [] f.column # "groups" /\ f.op \in Positive -> r[f.column] # Null /\ Holds(f, r[f.column])
      [] f.column # "groups" /\ f.op = "not_in" -> r[f.column] = Null \/ ~Holds(f, r[f.column])
      [] f.column # "groups" /\ f.op \in Negated \ {"not_in"} ->
            r[f.column] # Null /\ ~Holds(f, r[f.column])

\* _filter_q: ~Q(...) keeps the rows where the column is NULL
OrmClause(r, f) ==
    CASE f.column = "groups" -> (f.op \in Positive) = AnyLabel(r, f)
      [] f.column # "groups" /\ f.op \in Positive -> r[f.column] # Null /\ Holds(f, r[f.column])
      [] f.column # "groups" /\ f.op \in Negated -> r[f.column] = Null \/ ~Holds(f, r[f.column])

\* build_bot_filter_sql, and its twin in apply_filters_to_qs
BotsExcluded(r, bots) == r.reason \notin bots.reasons /\ r.country \notin bots.countries

SqlSelects(r, F) ==
    /\ BotsExcluded(r, F.bots)
    /\ \A c \in Columns :
          LET asked == {f \in ParseFilters(F.filters) : f.column = c}
              pos == {f \in asked : f.op \in Positive}
          IN  /\ pos = {} \/ \E f \in pos : SqlClause(r, f)
              /\ \A f \in asked \ pos : SqlClause(r, f)

\* Mutant: negated filters of a column are alternatives, too.
OrmSelectsAny(r, F) ==
    /\ BotsExcluded(r, F.bots)
    /\ \A c \in Columns :
          LET asked == {f \in ParseFilters(F.filters) : f.column = c}
          IN  asked = {} \/ \E f \in asked : OrmClause(r, f)

OrmSelects(r, F) ==
    /\ BotsExcluded(r, F.bots)
    /\ \A c \in Columns :
          LET asked == {f \in ParseFilters(F.filters) : f.column = c}
              pos == {f \in asked : f.op \in Positive}
          IN  /\ pos = {} \/ \E f \in pos : OrmClause(r, f)
              /\ \A f \in asked \ pos : OrmClause(r, f)

HasOnlyBotFilter(F) == F.filters = {}

\* the rows a SQL query of a kind (1 pageviews, 2 events) reads; the same by the ORM
SqlRows(F, s, kind) == {r \in table : r.kind = kind /\ s.start <= r.at /\ r.at <= s.end /\ SqlSelects(r, F)}
EventQueryset(F, s, kind) ==
    {r \in table : r.kind = kind /\ s.start <= r.at /\ r.at <= s.end /\ OrmSelects(r, F)}
PageviewQueryset(F, s) == EventQueryset(F, s, 1)
CustomEventQueryset(F, s) == EventQueryset(F, s, 2)
Keyed(S) == {r \in S : r.key # Null}

CountBy(S, Of(_)) == [v \in {Of(r) : r \in S} |-> Cardinality({r \in S : Of(r) = v})]
Distinct(S, Of(_)) == Cardinality({Of(r) : r \in S})
\* ORDER BY ... DESC LIMIT n: ties fall either way
Tops(counts, n) ==
    {[v \in K |-> counts[v]] : K \in {K \in SUBSET DOMAIN counts :
        /\ Cardinality(K) = (IF Cardinality(DOMAIN counts) < n THEN Cardinality(DOMAIN counts) ELSE n)
        /\ \A v \in K, w \in DOMAIN counts \ K : counts[v] >= counts[w]}}

-----------------------------------------------------------------------------
(* Visits, sessionised at read time (visitor_reads.py).                        *)

Before(q, r) == q.key = r.key /\ (q.at < r.at \/ (q.at = r.at /\ q.id < r.id))
Latest(S) == CHOOSE r \in S : \A q \in S : q = r \/ Before(q, r)
Gap(S, r) == r.at - Latest({q \in S : Before(q, r)}).at
\* totals and landings truncate a gap to seconds before they compare it
Continues(S, r, floor) ==
    /\ \E q \in S : Before(q, r)
    /\ IF floor THEN Gap(S, r) \div Ticks <= SessionGap ELSE Gap(S, r) <= SessionGap * Ticks
Entries(S, floor) == {r \in S : ~Continues(S, r, floor)}
\* the session of an entry: the rows after it that start no other
SessionOf(S, e, floor) ==
    {r \in S : (r = e \/ Before(e, r)) /\
        \A x \in Entries(S, floor) : Before(e, x) => r # x /\ ~Before(x, r)}

Bounces(S) == {e \in Entries(S, TRUE) : SessionOf(S, e, TRUE) = {e}}
SessionTotals(S) ==
    [visitors |-> Distinct(S, LAMBDA r : r.key), visits |-> Cardinality(Entries(S, TRUE)),
     bounces |-> Cardinality(Bounces(S)), pageviews |-> Cardinality(S),
     duration |-> MapThenSumSet(LAMBDA r : Gap(S, r) \div Ticks, S \ Entries(S, TRUE))]
SessionLandings(S) ==
    LET visits == CountBy(Entries(S, TRUE), LAMBDA e : e.path)
    IN  [p \in DOMAIN visits |->
            [visits |-> visits[p], bounces |-> Cardinality({e \in Bounces(S) : e.path = p})]]
Trunc(t, g) == t - (t % Bucket[g])
SessionBuckets(S, g) == CountBy(Entries(S, FALSE), LAMBDA e : Trunc(e.at, g))

-----------------------------------------------------------------------------
(* Digests of the retention window, aggregates before it (queries/visitors).   *)

Kept(s) == [s EXCEPT !.start = IF @ < EventLower THEN EventLower ELSE @]
AggregatedDays(s) ==
    {d \in DOMAIN StoredDays : Trunc(s.start, "day") <= d /\ d <= Trunc(s.end, "day") /\ d < EventLower}
Stored(s, field) == MapThenSumSet(LAMBDA d : StoredDays[d][field], AggregatedDays(s))
ReadVisitStats(F, s) ==
    LET live == SessionTotals(Keyed(PageviewQueryset(F, Kept(s))))
    IN  [field \in DOMAIN live |->
            live[field] + (IF s.start < EventLower THEN Stored(s, field) ELSE 0)]

OldScopes(s, F, scope) ==
    {x \in StoredScopes : /\ s.start < EventLower /\ HasOnlyBotFilter(F) /\ x.scope = scope
                          /\ Trunc(s.start, "month") <= x.month /\ x.month <= s.end /\ x.month < EventLower}
GroupUniques(S, wanted) ==
    [g \in wanted |-> Distinct({r \in S : g \in r.groups}, LAMBDA r : r.key)]
ReadScopeVisitors(F, s, scope, wanted) ==
    LET S == Keyed(EventQueryset(F, Kept(s), IF scope = "event" THEN 2 ELSE 1))
        live == CASE scope = "page" -> [v \in wanted |-> Distinct({r \in S : r.path = v}, LAMBDA r : r.key)]
                  [] scope = "section" ->
                        [v \in wanted |-> Distinct({r \in S : Normal[Section[r.path]] = v}, LAMBDA r : r.key)]
                  [] scope = "event" -> [v \in wanted |-> Distinct({r \in S : r.name = v}, LAMBDA r : r.key)]
                  [] scope = "group" -> GroupUniques(S, wanted)
    IN  [v \in wanted |-> live[v] +
            MapThenSumSet(LAMBDA x : x.visitors, {x \in OldScopes(s, F, scope) : x.value = v})]
LandingMetrics(F, s) ==
    LET live == SessionLandings(Keyed(PageviewQueryset(F, Kept(s))))
        old == OldScopes(s, F, "landing")
    IN  [p \in DOMAIN live \cup {x.value : x \in old} |->
            [field \in {"visits", "bounces"} |->
                (IF p \in DOMAIN live THEN live[p][field] ELSE 0)
                    + MapThenSumSet(LAMBDA x : x[field], {x \in old : x.value = p})]]

\* the series reads digests only, over the whole range
VisitorsByBucket(F, s, g) ==
    LET S == Keyed(PageviewQueryset(F, s))
    IN  [b \in {Trunc(r.at, g) : r \in S} |->
            Distinct({r \in S : Trunc(r.at, g) = b}, LAMBDA r : r.key)]
VisitsByBucket(F, s, g) == SessionBuckets(Keyed(PageviewQueryset(F, s)), g)

-----------------------------------------------------------------------------
(* Site totals, series and their comparison (queries/stats, compare).          *)

PageviewCount(F, s) == Cardinality(SqlRows(F, s, 1))
ByBot(F, s) ==
    [pageviews |-> PageviewCount(F, s),
     human |-> Cardinality({r \in SqlRows(F, s, 1) : ~r.bot}),
     bot |-> Cardinality({r \in SqlRows(F, s, 1) : r.bot})]
WebsiteStats(F, s) == [events |-> ByBot(F, s), visits |-> ReadVisitStats(F, s)]
ComparisonStats(F, s, before) == [current |-> ByBot(F, s), previous |-> ByBot(F, before)]
WebsiteStatsComparison(F, s, before) ==
    [current |-> WebsiteStats(F, s), previous |-> WebsiteStats(F, before)]

Ticked(counts, b) == IF b \in DOMAIN counts THEN counts[b] ELSE 0
Buckets(s, g) == {b \in Trunc(s.start, g)..Trunc(s.end, g) : (b - Trunc(s.start, g)) % Bucket[g] = 0}
AttachVisitors(F, s, g, counts) ==
    [b \in Buckets(s, g) |->
        [pageviews |-> Ticked(counts, b), visitors |-> Ticked(VisitorsByBucket(F, s, g), b),
         visits |-> Ticked(VisitsByBucket(F, s, g), b)]]
PageviewTimeSeries(F, s, g) ==
    AttachVisitors(F, s, g, CountBy(SqlRows(F, s, 1), LAMBDA r : Trunc(r.at, g)))
TimeSeriesComparison(F, s, before, g) ==
    [current |-> PageviewTimeSeries(F, s, g), previous |-> PageviewTimeSeries(F, before, g)]

-----------------------------------------------------------------------------
(* Breakdowns.  Each is the whole count; Tops takes the rows that are shown.   *)

Known(S, c) == {r \in S : r[c] # Null}
Counted(F, s, c) == CountBy(Known(SqlRows(F, s, 1), c), LAMBDA r : r[c])
PageMetrics(F, s) == CountBy(SqlRows(F, s, 1), LAMBDA r : r.path)
PageTimeSeries(F, s, p, g) == CountBy({r \in SqlRows(F, s, 1) : r.path = p}, LAMBDA r : Trunc(r.at, g))
ReferrerMetrics(F, s) == Counted(F, s, "domain")
DeviceMetrics(F, s) == Counted(F, s, "device")
GeoMetrics(F, s) == Counted(F, s, "country")
EventMetrics(F, s) == CountBy(Known(SqlRows(F, s, 2), "name"), LAMBDA r : r.name)
EventTimeSeries(F, s, names, g) ==
    [n \in names |-> CountBy({r \in SqlRows(F, s, 2) : r.name = n}, LAMBDA r : Trunc(r.at, g))]
TrafficHeatmap(F, s) ==
    CountBy(SqlRows(F, s, 1), LAMBDA r : <<r.at \div Bucket["day"], (r.at % Bucket["day"]) \div Bucket["hour"]>>)

\* counts under other names: a merged name has the sum of its parts
Merge(counts, Of(_)) ==
    [v \in {Of(x) : x \in DOMAIN counts} |->
        SumFunctionOnSet(counts, {x \in DOMAIN counts : Of(x) = v})]
ReferrerDomainCounts(F, s) == CountBy(SqlRows(F, s, 1), LAMBDA r : r.domain)
ClassifyChannel(d) == IF d = Null THEN "Direct" ELSE Channel[d]
ChannelMetrics(F, s) == Merge(ReferrerDomainCounts(F, s), LAMBDA d : ClassifyChannel(d))

\* the slug mode and the sections read OverFetch times the rows they will show
TopMerged(counts, n, Of(_)) ==
    UNION {Tops(Merge(read, Of), n) : read \in Tops(counts, n * OverFetch)}
TopPages(F, s, n) == TopMerged(PageMetrics(F, s), n, LAMBDA p : Normal[p])
TopSections(F, s, n) ==
    TopMerged(CountBy(SqlRows(F, s, 1), LAMBDA r : Section[r.path]), n, LAMBDA p : Normal[p])

\* a pageview counts once for each of its labels; minViews is a HAVING
GroupNamespaces(F, s) == {Namespace[g] : g \in UNION {r.groups : r \in SqlRows(F, s, 1)}} \ {Null}
TopGroups(F, s, namespace, minViews) ==
    LET S == SqlRows(F, s, 1)
        wanted == {g \in DOMAIN Namespace : namespace \in {Null, Namespace[g]}}
        views == [g \in (UNION {r.groups : r \in S}) \cap wanted |-> Cardinality({r \in S : g \in r.groups})]
    IN  [g \in {g \in DOMAIN views : views[g] >= minViews} |-> views[g]]

\* the typeahead: of any row in the range, filters or not
FilterValues(c, s) ==
    LET S == {r \in table : s.start <= r.at /\ r.at <= s.end /\ r.kind = (IF c = "name" THEN 2 ELSE 1)}
    IN  IF c = "groups" THEN UNION {r.groups : r \in S} ELSE {r[c] : r \in Known(S, c)}

\* the last five minutes, up to now, and the last half minute
Active == [start |-> Now - 10, end |-> Now]
Recent == [start |-> Now - 1, end |-> Now]
ActivePageviews(F, s) ==
    [count |-> PageviewCount(F, s), visitors |-> Distinct(Keyed(SqlRows(F, s, 1)), LAMBDA r : r.key)]

FirstEventDate == CHOOSE t \in {r.at : r \in table} : \A r \in table : t <= r.at

-----------------------------------------------------------------------------
(* The pages (apps/analytics/services.py).  A limit of the page stands for the *)
(* code's 10, 50 or 100; what is read without one is shown whole.              *)

InitReports ==
    /\ table \in {T \in SUBSET Hits : IsFiniteSet(T) /\ Cardinality(T) <= MaxRows}
    /\ report = NoReport

Overview(F, s, before, g, n) ==
    \E sections \in TopSections(F, s, n), pages \in TopPages(F, s, n), devices \in Tops(DeviceMetrics(F, s), n) :
        report' = [about |-> "site", filters |-> F, span |-> [current |-> s, previous |-> before],
                   stats |-> WebsiteStatsComparison(F, s, before),
                   series |-> TimeSeriesComparison(F, s, before, g),
                   sections |-> sections, pages |-> pages, devices |-> devices,
                   visitors |-> ReadScopeVisitors(F, s, "section", DOMAIN sections),
                   active |-> ActivePageviews(F, Active), recent |-> SqlRows(F, Recent, 1),
                   heatmap |-> TrafficHeatmap(F, s)]
\* the comparison reads its pageviews, its visits and its two series apart
ComparePage(F, s, before, g) ==
    report' = [about |-> "compared", filters |-> F, span |-> [current |-> s, previous |-> before],
               events |-> ComparisonStats(F, s, before),
               visits |-> [current |-> ReadVisitStats(F, s), previous |-> ReadVisitStats(F, before)],
               series |-> [current |-> PageviewTimeSeries(F, s, g), previous |-> PageviewTimeSeries(F, before, g)]]
PagesPage(F, s, n, g) ==
    \E pages \in Tops(PageMetrics(F, s), n) :
        report' = [about |-> "pages", filters |-> F, span |-> s, limit |-> n, pages |-> pages,
                   visitors |-> ReadScopeVisitors(F, s, "page", DOMAIN pages),
                   seriesOf |-> [p \in DOMAIN pages |-> PageTimeSeries(F, s, p, g)]]
TopPagesTab(F, s, n) ==
    \E pages \in TopPages(F, s, n) :
        report' = [about |-> "tops", filters |-> F, span |-> s, limit |-> n, pages |-> pages,
                   visitors |-> ReadScopeVisitors(F, s, "page", DOMAIN pages)]
LandingPage(F, s) ==
    report' = [about |-> "landing", filters |-> F, span |-> s, landings |-> LandingMetrics(F, s)]
SourcesPage(F, s, n) ==
    \E referrers \in Tops(ReferrerMetrics(F, s), n), countries \in Tops(GeoMetrics(F, s), n) :
        report' = [about |-> "sources", filters |-> F, span |-> s, referrers |-> referrers,
                   countries |-> countries, channels |-> ChannelMetrics(F, s)]
EventsPage(F, s, n, g) ==
    \E events \in Tops(EventMetrics(F, s), n) :
        report' = [about |-> "events", filters |-> F, span |-> s, events |-> events,
                   series |-> EventTimeSeries(F, s, DOMAIN events, g),
                   visitors |-> ReadScopeVisitors(F, s, "event", DOMAIN events)]

ViewsOf(views, g) == IF g \in DOMAIN views THEN views[g] ELSE 0
\* 1000, to show a group that is gone: here every label there is
Candidates(n, compare) == IF compare THEN Cardinality(DOMAIN Namespace) ELSE n
GroupsPage(F, s, before, namespace, minViews, n, compare) ==
    \E groups \in Tops(TopGroups(F, s, namespace, minViews), Candidates(n, compare)) :
        LET previous == IF compare THEN TopGroups(F, before, namespace, minViews) ELSE << >>
            all == [g \in DOMAIN groups \cup DOMAIN previous |-> ViewsOf(groups, g)]
            visitors == ReadScopeVisitors(F, s, "group", DOMAIN groups)
        IN  \E shown \in Tops(all, n) :
                report' = [about |-> "groups", filters |-> F, span |-> s, before |-> before, limit |-> n,
                           minViews |-> minViews, compare |-> compare, groups |-> shown,
                           previous |-> [g \in DOMAIN shown |-> ViewsOf(previous, g)],
                           visitors |-> [g \in DOMAIN shown |-> ViewsOf(visitors, g)],
                           namespaces |-> GroupNamespaces(F, s)]

RealtimePage(F, n) ==
    \E pages \in Tops(PageMetrics(F, Active), n) :
        report' = [about |-> "realtime", filters |-> F, active |-> ActivePageviews(F, Active),
                   pages |-> pages, recent |-> SqlRows(F, Recent, 1)]
Typeahead(c, s) == report' = [about |-> "values", column |-> c, values |-> FilterValues(c, s)]
AllTime(g) ==
    /\ table # {}
    /\ LET s == [start |-> FirstEventDate, end |-> Now]
       IN  report' = [about |-> "all", series |-> PageviewTimeSeries(
                         [filters |-> {}, bots |-> [reasons |-> {}, countries |-> {}]], s, g)]

\* one report of a table that stays as it is
NextReports ==
    /\ report = NoReport
    /\ \/ \E F \in FilterSets, s \in Spans :
          \/ \E before \in Spans : before.end < s.start /\
                \/ \E g \in DOMAIN Bucket :
                      (\E n \in Limits : Overview(F, s, before, g, n)) \/ ComparePage(F, s, before, g)
                \/ \E namespace \in {Null} \cup Range(Namespace), minViews \in {0, 2}, n \in Limits,
                      compare \in BOOLEAN : GroupsPage(F, s, before, namespace, minViews, n, compare)
          \/ \E n \in Limits, g \in DOMAIN Bucket : PagesPage(F, s, n, g) \/ EventsPage(F, s, n, g)
          \/ \E n \in Limits : TopPagesTab(F, s, n) \/ SourcesPage(F, s, n)
          \/ LandingPage(F, s)
       \/ \E F \in FilterSets, n \in Limits : RealtimePage(F, n)
       \/ \E c \in Columns, s \in Spans : Typeahead(c, s)
       \/ \E g \in DOMAIN Bucket : AllTime(g)
    /\ UNCHANGED table

ReportsSpec == InitReports /\ [][NextReports]_reportVars

-----------------------------------------------------------------------------
(* Properties.                                                                 *)

SumOf(f) == SumFunction(f)
Sensitive(F) ==
    \E f \in ParseFilters(F.filters) :
        /\ f.op \in {"neq", "not_contains", "not_starts_with"} /\ f.column # "groups"
        /\ \E r \in table : r[f.column] = Null
Fractional(S) ==
    \E r \in S : /\ \E q \in S : Before(q, r)
                 /\ SessionGap * Ticks < Gap(S, r) /\ Gap(S, r) < (SessionGap + 1) * Ticks

SiteFigures(F, s, stats, series) ==
    LET live == s.start >= EventLower
        S == Keyed(PageviewQueryset(F, s))
        drawn == SumOf([b \in DOMAIN series |-> series[b].visits])
    IN  /\ stats.events.human + stats.events.bot = stats.events.pageviews
        /\ SumOf([b \in DOMAIN series |-> series[b].pageviews]) = stats.events.pageviews
        /\ stats.visits.bounces <= stats.visits.visits /\ stats.visits.visits <= stats.visits.pageviews
        /\ live /\ ~Sensitive(F) => stats.visits.pageviews <= stats.events.pageviews
        /\ live => drawn >= stats.visits.visits
        /\ live /\ ~Fractional(S) => drawn = stats.visits.visits
Labelled(F, s, g) == Cardinality({r \in SqlRows(F, s, 1) : g \in r.groups})
\* The parts of a page that are shown beside each other, one kind of page each.
SiteFits(r, p) == SiteFigures(r.filters, r.span[p], r.stats[p], r.series[p])
ComparisonFits(r, p) ==
    SiteFigures(r.filters, r.span[p], [events |-> r.events[p], visits |-> r.visits[p]], r.series[p])
LandingsFit(r) ==
    r.span.start >= EventLower =>
        SumOf([p \in DOMAIN r.landings |-> r.landings[p].visits]) = ReadVisitStats(r.filters, r.span).visits
PageFits(r, p) ==
    /\ SumOf(r.seriesOf[p]) = r.pages[p]
    /\ r.span.start >= EventLower /\ ~Sensitive(r.filters) => r.visitors[p] <= r.pages[p]
TopsFit(r) ==
    LET read == PageMetrics(r.filters, r.span)
    IN  Cardinality(DOMAIN read) <= r.limit * OverFetch =>
            r.pages \in Tops(Merge(read, LAMBDA p : Normal[p]), r.limit)
ChannelsFit(r) == SumOf(r.channels) = PageviewCount(r.filters, r.span)
GroupFits(r, g) ==
    /\ r.span.start >= EventLower /\ ~Sensitive(r.filters) => r.visitors[g] <= r.groups[g]
    /\ r.compare /\ r.minViews = 0 =>
          /\ r.groups[g] = Labelled(r.filters, r.span, g)
          /\ r.previous[g] = Labelled(r.filters, r.before, g)
ReportFits(r) ==
    /\ r.about = "site" => \A p \in {"current", "previous"} : SiteFits(r, p)
    /\ r.about = "compared" => \A p \in {"current", "previous"} : ComparisonFits(r, p)
    /\ r.about = "landing" => LandingsFit(r)
    /\ r.about = "pages" => \A p \in DOMAIN r.pages : PageFits(r, p)
    /\ r.about = "tops" => TopsFit(r)
    /\ r.about = "sources" => ChannelsFit(r)
    /\ r.about = "groups" => \A g \in DOMAIN r.groups : GroupFits(r, g)

(* The numbers on one page come from different queries over two translations   *)
(* of the filters, and fit together all the same: every pageview is a bot's or *)
(* a person's and in one bar of the chart; a visit bounces at most once and    *)
(* has a counted pageview; the visits of the chart and of the landing pages    *)
(* are those of the headline; a group that is compared has both its counts.    *)
(* The exceptions are exactly: a negated filter on a column that is NULL       *)
(* somewhere, digests past retention, and a gap between 1800 and 1801 seconds, *)
(* which only the chart takes for two visits.                                  *)
ReportsAddUp == ReportFits(report)
=============================================================================
