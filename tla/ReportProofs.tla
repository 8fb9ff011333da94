---------------------------- MODULE ReportProofs ----------------------------
(* What is counted is counted once, proved for every table, filter and range:   *)
(* the figures that a page of the dashboard shows beside each other            *)
(* (SiteReports), and the rows and totals of an answer of API v1 (ApiV1).      *)
EXTENDS ApiV1, SetSums

-----------------------------------------------------------------------------
(* A report reads one table, which stays: what it fits then it fits after.     *)

LEMMA QueriesStay ==
    ASSUME table' = table
    PROVE  /\ \A F, s, k : SqlRows(F, s, k)' = SqlRows(F, s, k)
           /\ \A F, s, k : EventQueryset(F, s, k)' = EventQueryset(F, s, k)
           /\ \A F, s : PageviewQueryset(F, s)' = PageviewQueryset(F, s)
           /\ \A F : Sensitive(F)' <=> Sensitive(F)
<1>1. \A F, s, k : SqlRows(F, s, k)' = SqlRows(F, s, k)
    BY DEF SqlRows
<1>2. \A F, s, k : EventQueryset(F, s, k)' = EventQueryset(F, s, k)
    BY DEF EventQueryset
<1>3. \A F : Sensitive(F)' <=> Sensitive(F)
    BY DEF Sensitive
<1> QED BY <1>1, <1>2, <1>3 DEF PageviewQueryset

LEMMA AnswersStay ==
    ASSUME table' = table
    PROVE  /\ \A F, s : PageviewCount(F, s)' = PageviewCount(F, s)
           /\ \A F, s : PageMetrics(F, s)' = PageMetrics(F, s)
           /\ \A F, s, g : Labelled(F, s, g)' = Labelled(F, s, g)
           /\ \A F, s : ReadVisitStats(F, s)' = ReadVisitStats(F, s)
<1>1. \A F, s : PageviewCount(F, s)' = PageviewCount(F, s)
    BY QueriesStay DEF PageviewCount
<1>2. \A F, s : PageMetrics(F, s)' = PageMetrics(F, s)
    <2> TAKE F, s
    <2>1. PICK A : A = SqlRows(F, s, 1) /\ A = SqlRows(F, s, 1)'
        BY QueriesStay
    <2> QED BY <2>1, Zenon DEF PageMetrics, CountBy
<1>3. \A F, s, g : Labelled(F, s, g)' = Labelled(F, s, g)
    <2> TAKE F, s, g
    <2>1. PICK A : A = SqlRows(F, s, 1) /\ A = SqlRows(F, s, 1)'
        BY QueriesStay
    <2> QED BY <2>1, Zenon DEF Labelled
<1>4. \A F, s : ReadVisitStats(F, s)' = ReadVisitStats(F, s)
    <2> TAKE F, s
    <2>1. PICK A : A = PageviewQueryset(F, Kept(s)) /\ A = PageviewQueryset(F, Kept(s))'
        BY QueriesStay
    <2> QED BY <2>1, Zenon DEF ReadVisitStats
<1> QED BY <1>1, <1>2, <1>3, <1>4

LEMMA FitsStay ==
    ASSUME table' = table, NEW rep, ReportFits(rep) PROVE ReportFits(rep)'
<1>1. \A F, s, stats, series : SiteFigures(F, s, stats, series)' <=> SiteFigures(F, s, stats, series)
    <2> TAKE F, s, stats, series
    <2>1. Keyed(PageviewQueryset(F, s))' = Keyed(PageviewQueryset(F, s))
        BY QueriesStay DEF Keyed
    <2> QED BY QueriesStay, <2>1 DEF SiteFigures
<1>2. \A p : /\ SiteFits(rep, p)' <=> SiteFits(rep, p)
             /\ ComparisonFits(rep, p)' <=> ComparisonFits(rep, p)
             /\ PageFits(rep, p)' <=> PageFits(rep, p)
             /\ GroupFits(rep, p)' <=> GroupFits(rep, p)
    BY <1>1, QueriesStay, AnswersStay DEF SiteFits, ComparisonFits, PageFits, GroupFits
<1>3. TopsFit(rep)' <=> TopsFit(rep)
    <2>1. PICK A : A = PageMetrics(rep.filters, rep.span) /\ A = PageMetrics(rep.filters, rep.span)'
        BY AnswersStay
    <2> QED BY <2>1, Zenon DEF TopsFit, Merge
<1>4. LandingsFit(rep)' <=> LandingsFit(rep)
    BY AnswersStay DEF LandingsFit
<1>5. ChannelsFit(rep)' <=> ChannelsFit(rep)
    BY AnswersStay DEF ChannelsFit
<1> QED BY <1>2, <1>3, <1>4, <1>5 DEF ReportFits

-----------------------------------------------------------------------------
(* Rows and filters.                                                           *)

TableInv == table \in SUBSET Hits /\ IsFiniteSet(table)

LEMMA PartsAreFinite ==
    ASSUME TableInv, NEW S \in SUBSET table
    PROVE  /\ IsFiniteSet(S) /\ Cardinality(S) \in Nat
           /\ \A T \in SUBSET S : /\ IsFiniteSet(T) /\ Cardinality(T) \in Nat
                                  /\ Cardinality(T) <= Cardinality(S)
           /\ \A r \in S : r \in Hits /\ r.at \in Int /\ r.id \in Int
           /\ \A q, r \in S : q.id = r.id => q = r
<1>1. IsFiniteSet(S) /\ \A T \in SUBSET S : IsFiniteSet(T) /\ Cardinality(T) <= Cardinality(S)
    BY FS_Subset DEF TableInv
<1> QED BY <1>1, FS_CardinalityType, SiteReportsAssumption DEF TableInv

LEMMA RowsAreOfTheTable ==
    \A F, s, k : /\ SqlRows(F, s, k) \in SUBSET table
                 /\ EventQueryset(F, s, k) \in SUBSET table
                 /\ Keyed(EventQueryset(F, s, k)) \in SUBSET table
                 /\ PageviewQueryset(F, s) = EventQueryset(F, s, 1)
    BY DEF SqlRows, EventQueryset, PageviewQueryset, Keyed

\* The two translations of the filters differ on rows whose column is NULL only.
LEMMA OrmClauseIsSql ==
    ASSUME NEW F, ~Sensitive(F), NEW r \in table, NEW f \in ParseFilters(F.filters), OrmClause(r, f)
    PROVE  SqlClause(r, f)
<1>1. f.op \in Positive \cup Negated
    BY DEF ParseFilters, OperatorIsValid, Containment, Positive, Negated
<1>2. CASE f.column = "groups"
    BY <1>2 DEF OrmClause, SqlClause
<1>3. CASE f.column # "groups" /\ f.op \in Positive
    BY <1>3 DEF OrmClause, SqlClause, Positive, Negated
<1>4. CASE f.column # "groups" /\ f.op \in Negated
    <2>1. r[f.column] = Null \/ ~Holds(f, r[f.column])
        BY <1>4 DEF OrmClause, Positive, Negated
    <2>2. CASE f.op = "not_in"
        BY <1>4, <2>1, <2>2 DEF SqlClause, Positive, Negated
    <2>3. CASE f.op # "not_in"
        <3>1. f.op \in {"neq", "not_contains", "not_starts_with"}
            BY <1>4, <2>3 DEF Negated
        <3>2. r[f.column] # Null
            BY <1>4, <3>1 DEF Sensitive
        <3> QED BY <1>4, <2>1, <2>3, <3>2 DEF SqlClause, Positive, Negated
    <2> QED BY <2>2, <2>3
<1> QED BY <1>1, <1>2, <1>3, <1>4

LEMMA OrmRowsAreSql ==
    ASSUME NEW F, ~Sensitive(F), NEW s, NEW k
    PROVE  EventQueryset(F, s, k) \subseteq SqlRows(F, s, k)
<1>1. ASSUME NEW r \in table, OrmSelects(r, F) PROVE SqlSelects(r, F)
    <2>1. \A f \in ParseFilters(F.filters) : OrmClause(r, f) => SqlClause(r, f)
        BY OrmClauseIsSql
    <2> QED BY <1>1, <2>1 DEF OrmSelects, SqlSelects
<1> QED BY <1>1 DEF EventQueryset, SqlRows

\* Of a range that the digests cover, every digest is read.
LEMMA LiveIsKept ==
    ASSUME NEW s \in [start : Int, end : Int], s.start >= EventLower
    PROVE  Kept(s) = s
<1>1. ~(s.start < EventLower)
    BY SiteReportsAssumption
<1> QED BY <1>1 DEF Kept

-----------------------------------------------------------------------------
(* Visits: every one has a first row, and one rule for gaps splits more than   *)
(* the other.                                                                  *)

LEMMA EndIsThere ==
    ASSUME NEW S, IsFiniteSet(S), S # {}, NEW R,
           \A q, r \in S : q = r \/ <<q, r>> \in R \/ <<r, q>> \in R,
           \A q, r, t \in S : <<q, r>> \in R /\ <<r, t>> \in R => <<q, t>> \in R
    PROVE  \E r \in S : \A q \in S : q = r \/ <<q, r>> \in R
<1> DEFINE M(T, r) == \A q \in T : q = r \/ <<q, r>> \in R
           F == {T \in SUBSET S : T # {} /\ ~\E r \in T : M(T, r)}
<1>1. ASSUME F # {} PROVE FALSE
    <2>1. \A T \in F : IsFiniteSet(T)
        BY FS_Subset
    <2>2. PICK T \in F : \A x \in T : T \ {x} \notin F
        BY <1>1, <2>1, SmallestSet
    <2>3. PICK x \in T : TRUE
        BY <2>2
    <2>4. CASE T \ {x} = {}
        BY <2>2, <2>3, <2>4
    <2>5. CASE T \ {x} # {}
        <3>1. PICK r \in T \ {x} : M(T \ {x}, r)
            BY <2>2, <2>3, <2>5
        <3>2. CASE <<x, r>> \in R
            <4>1. M(T, r)
                BY <3>1, <3>2
            <4> QED BY <2>2, <3>1, <4>1
        <3>3. CASE <<r, x>> \in R
            <4>1. M(T, x)
                BY <2>2, <2>3, <3>1, <3>3
            <4> QED BY <2>2, <2>3, <4>1
        <3> QED BY <2>2, <2>3, <3>1, <3>2, <3>3
    <2> QED BY <2>4, <2>5
<1> QED BY <1>1

\* Rows of one visitor have a first and a last.
LEMMA RowsAreOrdered ==
    ASSUME TableInv, NEW S \in SUBSET table, NEW key, \A r \in S : r.key = key
    PROVE  /\ \A q, r \in S : q = r \/ Before(q, r) \/ Before(r, q)
           /\ \A q, r, t \in S : Before(q, r) /\ Before(r, t) => Before(q, t)
           /\ \A q, r \in S : Before(q, r) => q # r /\ ~Before(r, q) /\ q.at <= r.at
<1>1. \A r \in S : r.at \in Int /\ r.id \in Int
    BY PartsAreFinite
<1>2. \A q, r \in S : q.id = r.id => q = r
    BY PartsAreFinite
<1> QED BY <1>1, <1>2 DEF Before

LEMMA EndsAreThere ==
    ASSUME TableInv, NEW S \in SUBSET table, S # {}, NEW key, \A r \in S : r.key = key
    PROVE  /\ \E r \in S : \A q \in S : q = r \/ Before(q, r)
           /\ \E r \in S : \A q \in S : q = r \/ Before(r, q)
<1> DEFINE R == {p \in S \X S : Before(p[1], p[2])}
           L == {p \in S \X S : Before(p[2], p[1])}
<1>1. IsFiniteSet(S)
    BY PartsAreFinite
<1>2. \A q, r \in S : (<<q, r>> \in R <=> Before(q, r)) /\ (<<q, r>> \in L <=> Before(r, q))
    OBVIOUS
<1>3. /\ \A q, r \in S : q = r \/ Before(q, r) \/ Before(r, q)
      /\ \A q, r, t \in S : Before(q, r) /\ Before(r, t) => Before(q, t)
    BY RowsAreOrdered
<1> HIDE DEF R, L
<1>4. \E r \in S : \A q \in S : q = r \/ <<q, r>> \in R
    <2>1. /\ \A q, r \in S : q = r \/ <<q, r>> \in R \/ <<r, q>> \in R
          /\ \A q, r, t \in S : <<q, r>> \in R /\ <<r, t>> \in R => <<q, t>> \in R
        BY <1>2, <1>3
    <2> QED BY <1>1, <2>1, EndIsThere
<1>5. \E r \in S : \A q \in S : q = r \/ <<q, r>> \in L
    <2>1. /\ \A q, r \in S : q = r \/ <<q, r>> \in L \/ <<r, q>> \in L
          /\ \A q, r, t \in S : <<q, r>> \in L /\ <<r, t>> \in L => <<q, t>> \in L
        BY <1>2, <1>3
    <2> QED BY <1>1, <2>1, EndIsThere
<1> QED BY <1>2, <1>4, <1>5

LEMMA LatestIsThere ==
    ASSUME TableInv, NEW S \in SUBSET table, S # {}, NEW key, \A r \in S : r.key = key
    PROVE  Latest(S) \in S
<1>1. \E r \in S : \A q \in S : q = r \/ Before(q, r)
    BY EndsAreThere
<1> QED BY <1>1, Zenon DEF Latest

LEMMA GapsAreInts ==
    ASSUME TableInv, NEW S \in SUBSET table, NEW r \in S, \E q \in S : Before(q, r)
    PROVE  Gap(S, r) \in Int
<1> DEFINE P == {q \in S : Before(q, r)}
<1>1. P \in SUBSET table /\ P # {} /\ \A q \in P : q.key = r.key
    BY DEF Before
<1> HIDE DEF P
<1>2. Latest(P) \in P
    BY <1>1, LatestIsThere
<1>3. Latest(P).at \in Int /\ r.at \in Int
    BY <1>1, <1>2, PartsAreFinite
<1> QED BY <1>3 DEF Gap, P

\* How whole seconds compare with the exact time.
LEMMA WholeSeconds ==
    ASSUME NEW g \in Int
    PROVE  /\ g <= SessionGap * Ticks => g \div Ticks <= SessionGap
           /\ g \div Ticks <= SessionGap => g < (SessionGap + 1) * Ticks
<1>1. Ticks \in Nat \ {0} /\ SessionGap \in Nat
    BY SiteReportsAssumption
<1> DEFINE d == g \div Ticks
           m == g % Ticks
<1>2. d \in Int /\ m \in 0..Ticks - 1 /\ g = Ticks * d + m
    BY <1>1, SMTT(30)
<1> HIDE DEF d, m
<1>3. ASSUME g <= SessionGap * Ticks PROVE d <= SessionGap
    <2> SUFFICES ASSUME d >= SessionGap + 1 PROVE FALSE
        BY <1>1, <1>2
    <2>1. Ticks * d >= Ticks * (SessionGap + 1)
        BY <1>1, <1>2, SMTT(30)
    <2>2. Ticks * (SessionGap + 1) = SessionGap * Ticks + Ticks
        BY <1>1
    <2> QED BY <1>1, <1>2, <1>3, <2>1, <2>2, SMTT(30)
<1>4. ASSUME d <= SessionGap PROVE g < (SessionGap + 1) * Ticks
    <2>1. Ticks * d <= Ticks * SessionGap
        BY <1>1, <1>2, <1>4, SMTT(30)
    <2>2. (SessionGap + 1) * Ticks = Ticks * SessionGap + Ticks
        BY <1>1
    <2> QED BY <1>1, <1>2, <2>1, <2>2, SMTT(30)
<1> QED BY <1>3, <1>4 DEF d

LEMMA EntriesCompare ==
    ASSUME TableInv, NEW S \in SUBSET table
    PROVE  /\ Entries(S, TRUE) \subseteq Entries(S, FALSE)
           /\ ~Fractional(S) => Entries(S, FALSE) = Entries(S, TRUE)
           /\ Entries(S, TRUE) \subseteq S /\ Entries(S, FALSE) \subseteq S
           /\ Bounces(S) \subseteq Entries(S, TRUE)
<1>1. ASSUME NEW r \in S, Continues(S, r, FALSE) PROVE Continues(S, r, TRUE)
    BY <1>1, GapsAreInts, WholeSeconds DEF Continues
<1>2. ASSUME ~Fractional(S), NEW r \in S, Continues(S, r, TRUE) PROVE Continues(S, r, FALSE)
    <2>1. (\E q \in S : Before(q, r)) /\ Gap(S, r) \div Ticks <= SessionGap
        BY <1>2 DEF Continues
    <2>2. Gap(S, r) \in Int /\ SessionGap * Ticks \in Int
        BY <2>1, GapsAreInts, SiteReportsAssumption
    <2>3. Gap(S, r) < (SessionGap + 1) * Ticks
        BY <2>1, <2>2, WholeSeconds
    <2>4. ~(SessionGap * Ticks < Gap(S, r))
        BY <1>2, <2>1, <2>3 DEF Fractional
    <2>5. Gap(S, r) <= SessionGap * Ticks
        BY <2>2, <2>4
    <2> QED BY <2>1, <2>5 DEF Continues
<1>3. Bounces(S) \subseteq Entries(S, TRUE)
    BY DEF Bounces
<1> QED BY <1>1, <1>2, <1>3 DEF Entries

-----------------------------------------------------------------------------
(* The chart: every row in the range falls into one of its buckets.            *)

LEMMA BucketsCover ==
    ASSUME NEW s \in [start : Int, end : Int], NEW g \in DOMAIN Bucket
    PROVE  /\ IsFiniteSet(Buckets(s, g))
           /\ \A t \in Int : s.start <= t /\ t <= s.end => Trunc(t, g) \in Buckets(s, g)
           /\ \A t \in Int : Trunc(t, g) \in Int
<1> DEFINE B == Bucket[g]
<1>1. B \in Nat \ {0} /\ s.start \in Int /\ s.end \in Int
    BY SiteReportsAssumption
<1>2. ASSUME NEW t \in Int
      PROVE  Trunc(t, g) = B * (t \div B) /\ t \div B \in Int /\ Trunc(t, g) \in Int
    <2>1. t = B * (t \div B) + (t % B) /\ t % B \in 0..B - 1 /\ t \div B \in Int
        BY <1>1, SMTT(30)
    <2> HIDE DEF B
    <2>2. t - (t % B) = B * (t \div B)
        BY <1>1, <2>1
    <2> QED BY <1>1, <2>1, <2>2 DEF Trunc, B
<1>3. ASSUME NEW t \in Int, NEW u \in Int, t <= u
      PROVE  /\ t \div B <= u \div B
             /\ Trunc(t, g) <= Trunc(u, g)
             /\ (Trunc(u, g) - Trunc(t, g)) % B = 0
    <2> HIDE DEF B
    <2>1. t \div B <= u \div B
        BY <1>1, <1>3, SMTT(30)
    <2> DEFINE a == t \div B
               c == u \div B
    <2>2. a \in Int /\ c \in Int /\ Trunc(t, g) = B * a /\ Trunc(u, g) = B * c
        BY <1>2
    <2> HIDE DEF a, c
    <2>3. B * a <= B * c /\ B * c - B * a = B * (c - a) /\ (B * (c - a)) % B = 0
        <3>1. B * a <= B * c
            BY <1>1, <2>1, <2>2, SMTT(30) DEF a, c
        <3>2. B * c - B * a = B * (c - a)
            BY <1>1, <2>2, SMTT(30)
        <3>3. \A k \in Int : (B * k) % B = 0
            BY <1>1, SMTT(30)
        <3> QED BY <2>2, <3>1, <3>2, <3>3
    <2> QED BY <2>1, <2>2, <2>3
<1>4. IsFiniteSet(Buckets(s, g))
    <2>1. Trunc(s.start, g) \in Int /\ Trunc(s.end, g) \in Int
        BY <1>1, <1>2
    <2>2. IsFiniteSet(Trunc(s.start, g)..Trunc(s.end, g))
        BY <2>1, FS_Interval
    <2>3. Buckets(s, g) \in SUBSET (Trunc(s.start, g)..Trunc(s.end, g))
        BY DEF Buckets
    <2> QED BY <2>2, <2>3, FS_Subset
<1>5. ASSUME NEW t \in Int, s.start <= t, t <= s.end PROVE Trunc(t, g) \in Buckets(s, g)
    BY <1>1, <1>2, <1>3, <1>5 DEF Buckets
<1> QED BY <1>2, <1>4, <1>5

LEMMA SeriesAddUp ==
    ASSUME TableInv, NEW s \in [start : Int, end : Int], NEW g \in DOMAIN Bucket,
           NEW S \in SUBSET table, \A r \in S : s.start <= r.at /\ r.at <= s.end,
           NEW c, \A b \in Buckets(s, g) : c[b] = Ticked(CountBy(S, LAMBDA r : Trunc(r.at, g)), b)
    PROVE  SumFunctionOnSet(c, Buckets(s, g)) = Cardinality(S)
<1> DEFINE f == [r \in S |-> Trunc(r.at, g)]
<1>1. \A r \in S : f[r] \in Buckets(s, g) /\ f[r] = Trunc(r.at, g)
    BY PartsAreFinite, BucketsCover
<1>2. ASSUME NEW b \in Buckets(s, g)
      PROVE  c[b] = Cardinality(With(S, f, b))
    <2> DEFINE counts == CountBy(S, LAMBDA r : Trunc(r.at, g))
    <2>1. With(S, f, b) = {r \in S : Trunc(r.at, g) = b}
        BY <1>1 DEF With
    <2>2. counts = [v \in {Trunc(r.at, g) : r \in S} |-> Cardinality({r \in S : Trunc(r.at, g) = v})]
        BY DEF CountBy
    <2>3. CASE b \in {Trunc(r.at, g) : r \in S}
        <3>1. counts[b] = Cardinality({r \in S : Trunc(r.at, g) = b})
            BY <2>2, <2>3
        <3>2. counts[b] = Cardinality(With(S, f, b))
            BY <2>1, <3>1, Zenon
        <3> QED BY <2>2, <2>3, <3>2 DEF Ticked
    <2>4. CASE b \notin {Trunc(r.at, g) : r \in S}
        <3>1. With(S, f, b) = {}
            BY <2>1, <2>4
        <3>2. Cardinality(With(S, f, b)) = 0
            BY <3>1, FS_EmptySet, Zenon
        <3> QED BY <2>2, <2>4, <3>2 DEF Ticked
    <2> QED BY <2>3, <2>4
<1>3. IsFiniteSet(S) /\ IsFiniteSet(Buckets(s, g))
    BY PartsAreFinite, BucketsCover
<1> HIDE DEF f
<1> QED BY <1>1, <1>2, <1>3, CountsByValue

-----------------------------------------------------------------------------
(* The headline: what is live, and the stored days before it.                  *)

LEMMA StoredIsSum ==
    ASSUME NEW s, NEW field, \A d \in AggregatedDays(s) : StoredDays[d][field] \in Int
    PROVE  LET f == [d \in AggregatedDays(s) |-> StoredDays[d][field]]
           IN  Stored(s, field) = SumFunctionOnSet(f, AggregatedDays(s))
<1> DEFINE D == AggregatedDays(s)
           f == [d \in D |-> StoredDays[d][field]]
           Gathers(g) == g = [u \in SUBSET D |->
                                IF u = {} THEN 0
                                ELSE StoredDays[CHOOSE x \in u : TRUE][field]
                                        + g[u \ {CHOOSE x \in u : TRUE}]]
<1>1. Stored(s, field) = (CHOOSE g : Gathers(g))[D]
    BY DEF Stored, MapThenSumSet, MapThenFoldSet
<1>2. IsFiniteSet(D) /\ Adds(f, D) /\ \A d \in D : StoredDays[d][field] = f[d]
    <2>1. D \in SUBSET DOMAIN StoredDays
        BY DEF AggregatedDays
    <2>2. IsFiniteSet(D)
        BY <2>1, SiteReportsAssumption, FS_Subset
    <2> QED BY <2>2 DEF Adds
<1> HIDE DEF D, f
<1>3. ASSUME NEW g PROVE Gathers(g) <=> Sums(f, D, g)
    <2>1. \A u \in SUBSET D : u # {} => StoredDays[Chosen(u)][field] = f[Chosen(u)]
        BY <1>2, ChosenIsIn
    <2>2. [u \in SUBSET D |->
              IF u = {} THEN 0 ELSE StoredDays[Chosen(u)][field] + g[u \ {Chosen(u)}]]
          = [u \in SUBSET D |-> IF u = {} THEN 0 ELSE f[Chosen(u)] + g[u \ {Chosen(u)}]]
        BY <2>1
    <2> QED BY <2>2, Zenon DEF Sums, Chosen
<1>4. Sums(f, D, CHOOSE g : Gathers(g))
    <2>1. PICK g : Sums(f, D, g)
        BY <1>2, SumsExist
    <2>2. Gathers(g)
        BY <1>3, <2>1
    <2> HIDE DEF Gathers
    <2>3. Gathers(CHOOSE h : Gathers(h))
        BY <2>2, Zenon
    <2> QED BY <1>3, <2>3
<1> HIDE DEF Gathers
<1>5. (CHOOSE g : Gathers(g))[D] = SumFunctionOnSet(f, D)
    BY <1>2, <1>4, SumIsAny
<1> QED BY <1>1, <1>5 DEF D, f

LEMMA StoredIsConsistent ==
    ASSUME NEW s
    PROVE  /\ Stored(s, "bounces") \in Nat /\ Stored(s, "visits") \in Nat
           /\ Stored(s, "pageviews") \in Nat
           /\ Stored(s, "bounces") <= Stored(s, "visits")
           /\ Stored(s, "visits") <= Stored(s, "pageviews")
<1> DEFINE D == AggregatedDays(s)
           f(field) == [d \in D |-> StoredDays[d][field]]
<1>1. D \in SUBSET DOMAIN StoredDays /\ IsFiniteSet(D)
    <2>1. D \in SUBSET DOMAIN StoredDays
        BY DEF AggregatedDays
    <2> QED BY <2>1, SiteReportsAssumption, FS_Subset
<1>2. \A d \in D : /\ StoredDays[d]["bounces"] \in Nat /\ StoredDays[d]["visits"] \in Nat
                   /\ StoredDays[d]["pageviews"] \in Nat
                   /\ StoredDays[d]["bounces"] <= StoredDays[d]["visits"]
                   /\ StoredDays[d]["visits"] <= StoredDays[d]["pageviews"]
    BY <1>1, SiteReportsAssumption
<1>3. /\ Stored(s, "bounces") = SumFunctionOnSet(f("bounces"), D)
      /\ Stored(s, "visits") = SumFunctionOnSet(f("visits"), D)
      /\ Stored(s, "pageviews") = SumFunctionOnSet(f("pageviews"), D)
    BY <1>2, StoredIsSum
<1>4. /\ \A d \in D : f("bounces")[d] \in Nat /\ f("visits")[d] \in Nat /\ f("pageviews")[d] \in Nat
      /\ \A d \in D : f("bounces")[d] <= f("visits")[d] /\ f("visits")[d] <= f("pageviews")[d]
    BY <1>2
<1> HIDE DEF f, D
<1>5. Adds(f("bounces"), D) /\ Adds(f("visits"), D) /\ Adds(f("pageviews"), D)
    BY <1>4 DEF Adds
<1>6. /\ SumFunctionOnSet(f("bounces"), D) <= SumFunctionOnSet(f("visits"), D)
      /\ SumFunctionOnSet(f("visits"), D) <= SumFunctionOnSet(f("pageviews"), D)
    BY <1>1, <1>4, <1>5, SumOfLess
<1>7. /\ SumFunctionOnSet(f("bounces"), D) \in Nat /\ SumFunctionOnSet(f("visits"), D) \in Nat
      /\ SumFunctionOnSet(f("pageviews"), D) \in Nat
    <2>1. D \in SUBSET D
        OBVIOUS
    <2> QED BY <1>1, <1>4, <2>1, SumOfPart
<1> QED BY <1>3, <1>6, <1>7

LEMMA VisitStatsRead ==
    ASSUME NEW F, NEW s
    PROVE  LET S == Keyed(PageviewQueryset(F, Kept(s)))
               old(field) == IF s.start < EventLower THEN Stored(s, field) ELSE 0
               stats == ReadVisitStats(F, s)
           IN  /\ stats.visits = Cardinality(Entries(S, TRUE)) + old("visits")
               /\ stats.bounces = Cardinality(Bounces(S)) + old("bounces")
               /\ stats.pageviews = Cardinality(S) + old("pageviews")
<1> DEFINE S == Keyed(PageviewQueryset(F, Kept(s)))
           live == SessionTotals(S)
           old(field) == IF s.start < EventLower THEN Stored(s, field) ELSE 0
<1>1. PICK v, d : live = [visitors |-> v, visits |-> Cardinality(Entries(S, TRUE)),
                          bounces |-> Cardinality(Bounces(S)), pageviews |-> Cardinality(S),
                          duration |-> d]
    BY Zenon DEF SessionTotals
<1>2. ReadVisitStats(F, s) = [field \in DOMAIN live |-> live[field] + old(field)]
    BY Zenon DEF ReadVisitStats
<1> HIDE DEF live, S, old
<1>3. /\ {"visits", "bounces", "pageviews"} \subseteq DOMAIN live
      /\ live["visits"] = Cardinality(Entries(S, TRUE))
      /\ live["bounces"] = Cardinality(Bounces(S))
      /\ live["pageviews"] = Cardinality(S)
    BY <1>1
<1>4. /\ ReadVisitStats(F, s)["visits"] = Cardinality(Entries(S, TRUE)) + old("visits")
      /\ ReadVisitStats(F, s)["bounces"] = Cardinality(Bounces(S)) + old("bounces")
      /\ ReadVisitStats(F, s)["pageviews"] = Cardinality(S) + old("pageviews")
    BY <1>2, <1>3
<1> QED BY <1>4 DEF S, old

LEMMA HeadlineFits ==
    ASSUME TableInv, NEW F, NEW s \in [start : Int, end : Int]
    PROVE  LET S == Keyed(PageviewQueryset(F, s))
               stats == ReadVisitStats(F, s)
               live == s.start >= EventLower
           IN  /\ stats.bounces <= stats.visits /\ stats.visits <= stats.pageviews
               /\ live /\ ~Sensitive(F) => stats.pageviews <= PageviewCount(F, s)
               /\ live => stats.visits = Cardinality(Entries(S, TRUE))
<1> DEFINE S == Keyed(PageviewQueryset(F, Kept(s)))
           stats == ReadVisitStats(F, s)
           visits == IF s.start < EventLower THEN Stored(s, "visits") ELSE 0
           bounces == IF s.start < EventLower THEN Stored(s, "bounces") ELSE 0
           pageviews == IF s.start < EventLower THEN Stored(s, "pageviews") ELSE 0
<1>1. /\ stats.visits = Cardinality(Entries(S, TRUE)) + visits
      /\ stats.bounces = Cardinality(Bounces(S)) + bounces
      /\ stats.pageviews = Cardinality(S) + pageviews
    BY VisitStatsRead
<1>2. S \in SUBSET table
    BY RowsAreOfTheTable
<1>3. s.start >= EventLower => S = Keyed(PageviewQueryset(F, s)) /\ ~(s.start < EventLower)
    BY LiveIsKept, SiteReportsAssumption
<1>4. /\ bounces <= visits /\ visits <= pageviews
      /\ bounces \in Nat /\ visits \in Nat /\ pageviews \in Nat
    BY StoredIsConsistent
<1>5. s.start >= EventLower => visits = 0 /\ pageviews = 0
    BY <1>3
<1> HIDE DEF S, visits, bounces, pageviews, stats
<1>6. /\ Bounces(S) \in SUBSET S /\ Entries(S, TRUE) \in SUBSET S
      /\ IsFiniteSet(Entries(S, TRUE)) /\ Bounces(S) \in SUBSET Entries(S, TRUE)
    BY <1>2, EntriesCompare, PartsAreFinite
<1>7. /\ Cardinality(Bounces(S)) <= Cardinality(Entries(S, TRUE))
      /\ Cardinality(Entries(S, TRUE)) <= Cardinality(S)
      /\ Cardinality(Bounces(S)) \in Nat /\ Cardinality(Entries(S, TRUE)) \in Nat
      /\ Cardinality(S) \in Nat
    BY <1>2, <1>6, FS_Subset, PartsAreFinite
<1>8. ASSUME s.start >= EventLower, ~Sensitive(F) PROVE Cardinality(S) <= PageviewCount(F, s)
    <2>1. SqlRows(F, s, 1) \in SUBSET table /\ IsFiniteSet(SqlRows(F, s, 1))
        BY RowsAreOfTheTable, PartsAreFinite
    <2>2. S \in SUBSET SqlRows(F, s, 1)
        BY <1>3, <1>8, OrmRowsAreSql, RowsAreOfTheTable DEF Keyed
    <2> QED BY <2>1, <2>2, FS_Subset DEF PageviewCount
<1> DEFINE nb == Cardinality(Bounces(S))
           nv == Cardinality(Entries(S, TRUE))
           np == Cardinality(S)
<1>9. nb \in Nat /\ nv \in Nat /\ np \in Nat /\ nb <= nv /\ nv <= np
    BY <1>7
<1>10. stats.visits = nv + visits /\ stats.bounces = nb + bounces /\ stats.pageviews = np + pageviews
    BY <1>1
<1> HIDE DEF nb, nv, np
<1>11. stats.bounces <= stats.visits /\ stats.visits <= stats.pageviews
    BY <1>9, <1>10, <1>4
<1>12. s.start >= EventLower =>
          stats.pageviews = np /\ stats.visits = nv
    BY <1>9, <1>10, <1>5
<1> QED BY <1>3, <1>8, <1>11, <1>12 DEF stats, nb, nv, np

LEMMA FiguresFit ==
    ASSUME TableInv, NEW F, NEW s \in [start : Int, end : Int], NEW g \in DOMAIN Bucket
    PROVE  SiteFigures(F, s, [events |-> ByBot(F, s), visits |-> ReadVisitStats(F, s)],
                       PageviewTimeSeries(F, s, g))
<1> DEFINE R == SqlRows(F, s, 1)
           S == Keyed(PageviewQueryset(F, s))
           series == PageviewTimeSeries(F, s, g)
           shown == [b \in DOMAIN series |-> series[b].pageviews]
           visits == [b \in DOMAIN series |-> series[b].visits]
           E == Entries(S, FALSE)
<1>1. /\ R \in SUBSET table /\ S \in SUBSET table /\ E \in SUBSET table
      /\ \A r \in R : s.start <= r.at /\ r.at <= s.end
      /\ \A r \in S : s.start <= r.at /\ r.at <= s.end
      /\ E \in SUBSET S
    <2>1. R \in SUBSET table /\ S \in SUBSET table
        BY RowsAreOfTheTable
    <2>2. \A r \in R : s.start <= r.at /\ r.at <= s.end
        BY DEF SqlRows
    <2>3. \A r \in S : s.start <= r.at /\ r.at <= s.end
        BY DEF Keyed, PageviewQueryset, EventQueryset
    <2> QED BY <2>1, <2>2, <2>3, EntriesCompare
<1>2. DOMAIN series = Buckets(s, g) /\ DOMAIN shown = Buckets(s, g) /\ DOMAIN visits = Buckets(s, g)
    BY DEF PageviewTimeSeries, AttachVisitors
<1>3. \A b \in Buckets(s, g) :
        /\ shown[b] = Ticked(CountBy(R, LAMBDA r : Trunc(r.at, g)), b)
        /\ visits[b] = Ticked(CountBy(E, LAMBDA e : Trunc(e.at, g)), b)
    BY <1>2 DEF PageviewTimeSeries, AttachVisitors, VisitsByBucket, SessionBuckets
<1> HIDE DEF R, S, series, shown, visits, E
<1>4. SumOf(shown) = Cardinality(R)
    <2>1. SumFunctionOnSet(shown, Buckets(s, g)) = Cardinality(R)
        BY <1>1, <1>3, SeriesAddUp
    <2> QED BY <1>2, <2>1 DEF SumOf, SumFunction
<1>5. SumOf(visits) = Cardinality(E)
    <2>1. SumFunctionOnSet(visits, Buckets(s, g)) = Cardinality(E)
        BY <1>1, <1>3, SeriesAddUp
    <2> QED BY <1>2, <2>1 DEF SumOf, SumFunction
<1>6. LET e == ByBot(F, s) IN e.human + e.bot = e.pageviews /\ e.pageviews = Cardinality(R)
    <2> DEFINE H == {r \in R : ~r.bot}
               B == {r \in R : r.bot}
    <2>1. /\ ByBot(F, s).pageviews = Cardinality(R)
          /\ ByBot(F, s).human = Cardinality(H) /\ ByBot(F, s).bot = Cardinality(B)
        BY DEF ByBot, PageviewCount, R
    <2>2. H \cap B = {} /\ H \cup B = R /\ IsFiniteSet(H) /\ IsFiniteSet(B)
        <3>1. H \in SUBSET R /\ B \in SUBSET R
            OBVIOUS
        <3>2. IsFiniteSet(H) /\ IsFiniteSet(B)
            BY <1>1, <3>1, PartsAreFinite
        <3>3. \A r \in R : r.bot \in BOOLEAN
            BY <1>1, SiteReportsAssumption DEF TableInv
        <3> QED BY <3>2, <3>3
    <2> HIDE DEF H, B
    <2>3. Cardinality(H \cup B) = Cardinality(H) + Cardinality(B)
        BY <2>2, CountOfBoth
    <2>4. Cardinality(R) = Cardinality(H) + Cardinality(B)
        BY <2>2, <2>3, Zenon
    <2> QED BY <2>1, <2>4
<1>7. /\ Cardinality(E) \in Nat /\ Cardinality(Entries(S, TRUE)) \in Nat
      /\ Cardinality(E) >= Cardinality(Entries(S, TRUE))
      /\ ~Fractional(S) => Cardinality(E) = Cardinality(Entries(S, TRUE))
    <2>1. Entries(S, TRUE) \in SUBSET E
        BY <1>1, EntriesCompare DEF E
    <2>2. ~Fractional(S) => E = Entries(S, TRUE)
        BY <1>1, EntriesCompare DEF E
    <2> QED BY <1>1, <2>1, <2>2, PartsAreFinite
<1>8. LET v == ReadVisitStats(F, s)
      IN  /\ v.bounces <= v.visits /\ v.visits <= v.pageviews
          /\ s.start >= EventLower /\ ~Sensitive(F) => v.pageviews <= Cardinality(R)
          /\ s.start >= EventLower => v.visits = Cardinality(Entries(S, TRUE))
    BY HeadlineFits DEF S, R, PageviewCount
<1> HIDE DEF SumOf
<1> QED BY <1>4, <1>5, <1>6, <1>7, <1>8 DEF SiteFigures, shown, visits, series, S

-----------------------------------------------------------------------------
(* Breakdowns: rows told apart by a value.                                     *)

LEMMA CountsOfRows ==
    ASSUME NEW S, IsFiniteSet(S), NEW f,
           NEW c, c = [v \in {f[r] : r \in S} |-> Cardinality(With(S, f, v))]
    PROVE  SumOf(c) = Cardinality(S) /\ IsFiniteSet(DOMAIN c)
           /\ \A v \in DOMAIN c : c[v] \in Nat
<1>1. DOMAIN c = {f[r] : r \in S} /\ IsFiniteSet(DOMAIN c) /\ \A r \in S : f[r] \in DOMAIN c
    BY ImageIsFinite
<1>2. \A v \in DOMAIN c : c[v] = Cardinality(With(S, f, v))
    BY <1>1
<1>3. SumFunctionOnSet(c, DOMAIN c) = Cardinality(S)
    BY <1>1, <1>2, CountsByValue
<1>4. ASSUME NEW v \in DOMAIN c PROVE c[v] \in Nat
    <2>1. With(S, f, v) \in SUBSET S
        BY DEF With
    <2> QED BY <1>2, <2>1, FS_Subset, FS_CardinalityType
<1> QED BY <1>1, <1>3, <1>4 DEF SumOf, SumFunction

LEMMA TopsAreCounts ==
    ASSUME NEW counts, NEW n, NEW top \in Tops(counts, n)
    PROVE  /\ DOMAIN top \subseteq DOMAIN counts
           /\ \A v \in DOMAIN top : top[v] = counts[v]
    BY DEF Tops

\* Of no more names than are asked for, all are shown.
LEMMA TopsAreAll ==
    ASSUME NEW counts, counts = [v \in DOMAIN counts |-> counts[v]], IsFiniteSet(DOMAIN counts),
           NEW n \in Nat, Cardinality(DOMAIN counts) <= n, NEW top \in Tops(counts, n)
    PROVE  top = counts
<1> DEFINE m == Cardinality(DOMAIN counts)
<1>1. PICK K \in SUBSET DOMAIN counts :
        /\ Cardinality(K) = (IF m < n THEN m ELSE n)
        /\ top = [v \in K |-> counts[v]]
    BY DEF Tops
<1>2. m \in Nat
    BY FS_CardinalityType
<1>3. Cardinality(K) = m
    BY <1>1, <1>2
<1>4. K = DOMAIN counts
    BY <1>3, FS_Subset
<1> QED BY <1>1, <1>4

\* Past retention nothing is asked of a range that the digests cover.
LEMMA NoOldScopes ==
    ASSUME NEW s \in [start : Int, end : Int], s.start >= EventLower, NEW F, NEW scope
    PROVE  OldScopes(s, F, scope) = {}
    BY SiteReportsAssumption DEF OldScopes

LEMMA NothingToAdd ==
    /\ MapThenSumSet(LAMBDA x : x.visitors, {}) = 0
    /\ MapThenSumSet(LAMBDA x : x["visits"], {}) = 0
<1>1. MapThenSumSet(LAMBDA x : x.visitors, {}) = 0
    <2> DEFINE P(g) == g = [u \in SUBSET {} |->
                              IF u = {} THEN 0
                              ELSE (CHOOSE x \in u : TRUE).visitors + g[u \ {CHOOSE x \in u : TRUE}]]
    <2>1. P([u \in SUBSET {} |-> 0])
        OBVIOUS
    <2>2. MapThenSumSet(LAMBDA x : x.visitors, {}) = (CHOOSE g : P(g))[{}]
        BY DEF MapThenSumSet, MapThenFoldSet
    <2>3. \A g : P(g) => g[{}] = 0
        OBVIOUS
    <2> HIDE DEF P
    <2>4. P(CHOOSE g : P(g))
        BY <2>1, Zenon
    <2> QED BY <2>2, <2>3, <2>4
<1>2. MapThenSumSet(LAMBDA x : x["visits"], {}) = 0
    <2> DEFINE P(g) == g = [u \in SUBSET {} |->
                              IF u = {} THEN 0
                              ELSE (CHOOSE x \in u : TRUE)["visits"] + g[u \ {CHOOSE x \in u : TRUE}]]
    <2>1. P([u \in SUBSET {} |-> 0])
        OBVIOUS
    <2>2. MapThenSumSet(LAMBDA x : x["visits"], {}) = (CHOOSE g : P(g))[{}]
        BY DEF MapThenSumSet, MapThenFoldSet
    <2>3. \A g : P(g) => g[{}] = 0
        OBVIOUS
    <2> HIDE DEF P
    <2>4. P(CHOOSE g : P(g))
        BY <2>1, Zenon
    <2> QED BY <2>2, <2>3, <2>4
<1> QED BY <1>1, <1>2

\* Different visitors of some rows are no more than the rows.
LEMMA VisitorsAreFewer ==
    ASSUME TableInv, NEW S \in SUBSET table, NEW T \in SUBSET S
    PROVE  /\ Distinct(T, LAMBDA r : r.key) <= Cardinality(S)
           /\ Distinct(T, LAMBDA r : r.key) \in Nat
<1> DEFINE f == [r \in T |-> r.key]
<1>1. IsFiniteSet(T) /\ Cardinality(T) <= Cardinality(S) /\ Cardinality(S) \in Nat
      /\ Cardinality(T) \in Nat
    BY PartsAreFinite
<1>2. Cardinality({f[r] : r \in T}) <= Cardinality(T) /\ Cardinality({f[r] : r \in T}) \in Nat
    BY <1>1, ImageIsFinite
<1>3. {r.key : r \in T} = {f[r] : r \in T}
    OBVIOUS
<1> HIDE DEF f
<1>4. Distinct(T, LAMBDA r : r.key) = Cardinality({f[r] : r \in T})
    BY <1>3, Zenon DEF Distinct
<1> QED BY <1>1, <1>2, <1>4

LEMMA PageIsShown ==
    ASSUME TableInv, NEW F, NEW s \in [start : Int, end : Int], NEW n, NEW g \in DOMAIN Bucket,
           NEW pages \in Tops(PageMetrics(F, s), n), NEW p \in DOMAIN pages, NEW rep,
           rep.filters = F, rep.span = s, rep.pages = pages,
           rep.visitors = ReadScopeVisitors(F, s, "page", DOMAIN pages),
           rep.seriesOf = [q \in DOMAIN pages |-> PageTimeSeries(F, s, q, g)]
    PROVE  PageFits(rep, p)
<1> DEFINE R == SqlRows(F, s, 1)
           P == {r \in R : r.path = p}
           f == [r \in P |-> Trunc(r.at, g)]
           c == CountBy(P, LAMBDA r : Trunc(r.at, g))
<1>1. R \in SUBSET table /\ P \in SUBSET table /\ IsFiniteSet(P)
    <2>1. R \in SUBSET table
        BY RowsAreOfTheTable
    <2>2. P \in SUBSET table
        BY <2>1
    <2> QED BY <2>1, <2>2, PartsAreFinite
<1>2. rep.pages[p] = Cardinality(P)
    BY TopsAreCounts DEF PageMetrics, CountBy
<1>3. rep.seriesOf[p] = c
    BY DEF PageTimeSeries
<1>4. c = [v \in {f[r] : r \in P} |-> Cardinality(With(P, f, v))]
    <2>1. c = [v \in {Trunc(r.at, g) : r \in P} |-> Cardinality({r \in P : Trunc(r.at, g) = v})]
        BY Zenon DEF CountBy
    <2>2. {Trunc(r.at, g) : r \in P} = {f[r] : r \in P}
        OBVIOUS
    <2>3. ASSUME NEW v PROVE Cardinality({r \in P : Trunc(r.at, g) = v}) = Cardinality(With(P, f, v))
        <3>1. {r \in P : Trunc(r.at, g) = v} = With(P, f, v)
            BY DEF With
        <3> QED BY <3>1, Zenon
    <2> HIDE DEF c, f, P
    <2> QED BY <2>1, <2>2, <2>3
<1>5. SumOf(rep.seriesOf[p]) = rep.pages[p]
    <2> HIDE DEF c, f, P
    <2>1. SumOf(c) = Cardinality(P)
        BY <1>1, <1>4, CountsOfRows
    <2> QED BY <1>2, <1>3, <2>1
<1>6. ASSUME s.start >= EventLower, ~Sensitive(F) PROVE rep.visitors[p] <= rep.pages[p]
    <2> DEFINE S == Keyed(EventQueryset(F, Kept(s), 1))
               T == {r \in S : r.path = p}
    <2>1. T \in SUBSET P
        BY <1>6, LiveIsKept, OrmRowsAreSql DEF Keyed
    <2>2. {x \in OldScopes(s, F, "page") : x.value = p} = {}
        BY <1>6, NoOldScopes
    <2>3. rep.visitors[p] = Distinct(T, LAMBDA r : r.key)
                            + MapThenSumSet(LAMBDA x : x.visitors, {x \in OldScopes(s, F, "page") : x.value = p})
        BY DEF ReadScopeVisitors
    <2>4. MapThenSumSet(LAMBDA x : x.visitors, {x \in OldScopes(s, F, "page") : x.value = p}) = 0
        BY <2>2, NothingToAdd, Zenon
    <2> HIDE DEF T, P
    <2>5. Distinct(T, LAMBDA r : r.key) <= Cardinality(P) /\ Distinct(T, LAMBDA r : r.key) \in Nat
        BY <1>1, <2>1, VisitorsAreFewer
    <2> QED BY <1>2, <2>3, <2>4, <2>5
<1> QED BY <1>5, <1>6 DEF PageFits

LEMMA TopsAreShown ==
    ASSUME TableInv, NEW F, NEW s, NEW n \in Limits, NEW rep,
           rep.filters = F, rep.span = s, rep.limit = n, rep.pages \in TopPages(F, s, n)
    PROVE  TopsFit(rep)
<1> DEFINE read == PageMetrics(F, s)
           R == SqlRows(F, s, 1)
           f == [r \in R |-> r.path]
<1>1. IsFiniteSet(DOMAIN read) /\ read = [v \in DOMAIN read |-> read[v]]
    <2>1. read = [v \in {r.path : r \in R} |-> Cardinality({r \in R : r.path = v})]
        BY Zenon DEF PageMetrics, CountBy
    <2>2. {r.path : r \in R} = {f[r] : r \in R}
        OBVIOUS
    <2>3. IsFiniteSet(R)
        BY RowsAreOfTheTable, PartsAreFinite
    <2> HIDE DEF read, f, R
    <2>4. IsFiniteSet({f[r] : r \in R})
        BY <2>3, ImageIsFinite
    <2>5. IsFiniteSet({r.path : r \in R})
        BY <2>2, <2>4, Zenon
    <2>6. DOMAIN read = {r.path : r \in R} /\ read = [v \in DOMAIN read |-> read[v]]
        BY <2>1
    <2> QED BY <2>5, <2>6, Zenon
<1>2. PICK some \in Tops(read, n * OverFetch) : rep.pages \in Tops(Merge(some, LAMBDA p : Normal[p]), n)
    BY DEF TopPages, TopMerged
<1>3. ASSUME Cardinality(DOMAIN read) <= n * OverFetch PROVE some = read
    <2>1. n * OverFetch \in Nat
        BY SiteReportsAssumption
    <2> HIDE DEF read
    <2> QED BY <1>1, <1>2, <1>3, <2>1, TopsAreAll
<1> HIDE DEF read
<1>4. Cardinality(DOMAIN read) <= n * OverFetch =>
          rep.pages \in Tops(Merge(read, LAMBDA p : Normal[p]), n)
    BY <1>2, <1>3, Zenon
<1> QED BY <1>4, Zenon DEF TopsFit, read

LEMMA ChannelsAreShown ==
    ASSUME TableInv, NEW F, NEW s
    PROVE  SumOf(ChannelMetrics(F, s)) = PageviewCount(F, s)
<1> DEFINE R == SqlRows(F, s, 1)
           f == [r \in R |-> r.domain]
           c == ReferrerDomainCounts(F, s)
           D == DOMAIN c
           h == [d \in D |-> ClassifyChannel(d)]
           K == {h[d] : d \in D}
           m == ChannelMetrics(F, s)
<1>1. IsFiniteSet(R)
    BY RowsAreOfTheTable, PartsAreFinite
<1>2. c = [v \in {f[r] : r \in R} |-> Cardinality(With(R, f, v))]
    <2>1. c = [v \in {r.domain : r \in R} |-> Cardinality({r \in R : r.domain = v})]
        BY Zenon DEF ReferrerDomainCounts, CountBy
    <2>2. {r.domain : r \in R} = {f[r] : r \in R}
        OBVIOUS
    <2>3. ASSUME NEW v PROVE Cardinality({r \in R : r.domain = v}) = Cardinality(With(R, f, v))
        <3>1. {r \in R : r.domain = v} = With(R, f, v)
            BY DEF With
        <3> QED BY <3>1, Zenon
    <2> HIDE DEF c, f, R
    <2> QED BY <2>1, <2>2, <2>3
<1>3. SumOf(c) = Cardinality(R) /\ IsFiniteSet(D) /\ Adds(c, D)
    <2> HIDE DEF c, f, R
    <2>1. SumOf(c) = Cardinality(R) /\ IsFiniteSet(DOMAIN c) /\ \A v \in DOMAIN c : c[v] \in Nat
        BY <1>1, <1>2, CountsOfRows
    <2> QED BY <2>1 DEF Adds
<1>4. m = [v \in {ClassifyChannel(d) : d \in D} |->
              SumFunctionOnSet(c, {d \in D : ClassifyChannel(d) = v})]
    BY Zenon DEF ChannelMetrics, Merge
<1> HIDE DEF c, D, m
<1>5. DOMAIN m = K /\ \A v \in K : m[v] = SumFunctionOnSet(c, With(D, h, v))
    <2>1. {ClassifyChannel(d) : d \in D} = K
        OBVIOUS
    <2>2. ASSUME NEW v PROVE SumFunctionOnSet(c, {d \in D : ClassifyChannel(d) = v})
                             = SumFunctionOnSet(c, With(D, h, v))
        <3>1. {d \in D : ClassifyChannel(d) = v} = With(D, h, v)
            BY DEF With
        <3> QED BY <3>1, Zenon
    <2> HIDE DEF K, h
    <2> QED BY <1>4, <2>1, <2>2
<1>6. IsFiniteSet(K) /\ \A d \in D : h[d] \in K
    BY <1>3, ImageIsFinite
<1> HIDE DEF K, h
<1>7. SumFunctionOnSet(m, K) = SumFunctionOnSet(c, D)
    BY <1>3, <1>5, <1>6, SumsByValue
<1>8. SumOf(m) = SumFunctionOnSet(m, DOMAIN m) /\ SumOf(c) = SumFunctionOnSet(c, DOMAIN c)
    BY DEF SumOf, SumFunction
<1> QED BY <1>3, <1>5, <1>7, <1>8 DEF PageviewCount, D, m, R

LEMMA LandingsAreShown ==
    ASSUME TableInv, NEW F, NEW s \in [start : Int, end : Int], s.start >= EventLower
    PROVE  LET landings == LandingMetrics(F, s)
           IN  SumOf([p \in DOMAIN landings |-> landings[p].visits]) = ReadVisitStats(F, s).visits
<1> DEFINE S == Keyed(PageviewQueryset(F, Kept(s)))
           E == Entries(S, TRUE)
           f == [e \in E |-> e.path]
           old == OldScopes(s, F, "landing")
           live == SessionLandings(S)
           landings == LandingMetrics(F, s)
           c == [p \in DOMAIN landings |-> landings[p].visits]
           counts == CountBy(E, LAMBDA e : e.path)
<1>1. S \in SUBSET table /\ IsFiniteSet(E) /\ S = Keyed(PageviewQueryset(F, s))
    <2>1. S \in SUBSET table
        BY RowsAreOfTheTable
    <2>2. E \in SUBSET table
        BY <2>1, EntriesCompare
    <2> QED BY <2>1, <2>2, PartsAreFinite, LiveIsKept
<1>2. old = {}
    BY NoOldScopes
<1>3. counts = [v \in {f[r] : r \in E} |-> Cardinality(With(E, f, v))]
    <2>1. counts = [v \in {r.path : r \in E} |-> Cardinality({r \in E : r.path = v})]
        BY Zenon DEF CountBy
    <2>2. {r.path : r \in E} = {f[r] : r \in E}
        OBVIOUS
    <2>3. ASSUME NEW v PROVE Cardinality({r \in E : r.path = v}) = Cardinality(With(E, f, v))
        <3>1. {r \in E : r.path = v} = With(E, f, v)
            BY DEF With
        <3> QED BY <3>1, Zenon
    <2> HIDE DEF counts, f, E
    <2> QED BY <2>1, <2>2, <2>3
<1>4. SumOf(counts) = Cardinality(E) /\ \A v \in DOMAIN counts : counts[v] \in Nat
    <2> HIDE DEF counts, f, E
    <2> QED BY <1>1, <1>3, CountsOfRows
<1>5. DOMAIN live = DOMAIN counts /\ \A p \in DOMAIN live : live[p]["visits"] = counts[p]
    BY DEF SessionLandings
<1>6. DOMAIN landings = DOMAIN live \cup {x.value : x \in old}
    BY DEF LandingMetrics
<1>7. ASSUME NEW p \in DOMAIN landings, p \in DOMAIN live
      PROVE  landings[p].visits = live[p]["visits"]
                + MapThenSumSet(LAMBDA x : x["visits"], {x \in old : x.value = p})
    BY <1>7 DEF LandingMetrics
<1> HIDE DEF old, live, landings, counts, E
<1>8. ASSUME NEW p \in DOMAIN counts PROVE p \in DOMAIN landings /\ landings[p].visits = counts[p]
    <2>1. p \in DOMAIN live /\ p \in DOMAIN landings
        BY <1>5, <1>6
    <2>2. {x \in old : x.value = p} = {}
        BY <1>2
    <2>3. MapThenSumSet(LAMBDA x : x["visits"], {x \in old : x.value = p}) = 0
        BY <2>2, NothingToAdd, Zenon
    <2>4. landings[p].visits = live[p]["visits"] + 0
        BY <1>7, <2>1, <2>3, Zenon
    <2> QED BY <1>4, <1>5, <2>1, <2>4
<1>9. DOMAIN c = DOMAIN counts
    BY <1>2, <1>5, <1>6
<1>10. c = counts
    <2>1. counts = [p \in DOMAIN counts |-> counts[p]]
        BY <1>3
    <2> QED BY <1>8, <1>9, <2>1
<1>11. ReadVisitStats(F, s).visits = Cardinality(E)
    BY <1>1, HeadlineFits DEF E
<1> QED BY <1>4, <1>10, <1>11, Zenon DEF c, landings

-----------------------------------------------------------------------------
(* Content groups.                                                             *)

LEMMA GroupsAreCounted ==
    ASSUME TableInv, NEW F, NEW s, NEW namespace, NEW minViews \in Int
    PROVE  LET views == TopGroups(F, s, namespace, minViews)
           IN  /\ views = [g \in DOMAIN views |-> views[g]]
               /\ IsFiniteSet(DOMAIN views) /\ Cardinality(DOMAIN views) <= Cardinality(DOMAIN Namespace)
               /\ \A g \in DOMAIN views : views[g] = Labelled(F, s, g) /\ views[g] \in Nat
               /\ minViews = 0 => \A g \in DOMAIN Namespace :
                     g \notin DOMAIN views /\ namespace \in {Null, Namespace[g]} => Labelled(F, s, g) = 0
               /\ \A g \in DOMAIN views : g \in DOMAIN Namespace /\ namespace \in {Null, Namespace[g]}
<1> DEFINE views == TopGroups(F, s, namespace, minViews)
           R == SqlRows(F, s, 1)
           wanted == {g \in DOMAIN Namespace : namespace \in {Null, Namespace[g]}}
           with == (UNION {r.groups : r \in R}) \cap wanted
           count == [g \in with |-> Cardinality({r \in R : g \in r.groups})]
<1>1. R \in SUBSET table
    BY RowsAreOfTheTable
<1>2. \A g \in with : count[g] = Labelled(F, s, g)
    BY Zenon DEF Labelled
<1>3. \A g : Labelled(F, s, g) \in Nat
    <2> TAKE g
    <2>1. {r \in R : g \in r.groups} \in SUBSET R
        OBVIOUS
    <2> QED BY <1>1, <2>1, PartsAreFinite DEF Labelled
<1>4. views = [g \in {g \in with : count[g] >= minViews} |-> count[g]]
    BY Zenon DEF TopGroups
<1> HIDE DEF count, views
<1>5. /\ DOMAIN views \in SUBSET DOMAIN Namespace
      /\ views = [g \in DOMAIN views |-> views[g]]
      /\ \A g \in DOMAIN views : g \in with /\ views[g] = Labelled(F, s, g)
      /\ \A g \in with : count[g] >= minViews => g \in DOMAIN views
    <2>1. with \in SUBSET DOMAIN Namespace
        OBVIOUS
    <2> HIDE DEF with
    <2>2. DOMAIN views = {g \in with : count[g] >= minViews}
        BY <1>4
    <2>3. views = [g \in DOMAIN views |-> views[g]] /\ \A g \in DOMAIN views : views[g] = count[g]
        BY <1>4
    <2> QED BY <1>2, <2>1, <2>2, <2>3
<1>6. IsFiniteSet(DOMAIN views) /\ Cardinality(DOMAIN views) <= Cardinality(DOMAIN Namespace)
    BY <1>5, SiteReportsAssumption, FS_Subset
<1>7. ASSUME minViews = 0, NEW g \in DOMAIN Namespace, g \notin DOMAIN views,
             namespace \in {Null, Namespace[g]}
      PROVE  Labelled(F, s, g) = 0
    <2>1. g \notin with
        <3> SUFFICES ASSUME g \in with PROVE FALSE
            OBVIOUS
        <3>1. count[g] \in Nat
            BY <1>2, <1>3
        <3>2. count[g] >= minViews
            BY <1>7, <3>1
        <3> QED BY <1>5, <1>7, <3>2
    <2>2. ASSUME NEW r \in R PROVE g \notin r.groups
        BY <1>7, <2>1, <2>2
    <2>3. {r \in R : g \in r.groups} = {}
        BY <2>2
    <2> QED BY <2>3, FS_EmptySet, Zenon DEF Labelled
<1>8. \A g \in DOMAIN views : g \in DOMAIN Namespace /\ namespace \in {Null, Namespace[g]}
    BY <1>5
<1> HIDE DEF with
<1>9. /\ views = [g \in DOMAIN views |-> views[g]]
      /\ IsFiniteSet(DOMAIN views) /\ Cardinality(DOMAIN views) <= Cardinality(DOMAIN Namespace)
      /\ \A g \in DOMAIN views : views[g] = Labelled(F, s, g) /\ views[g] \in Nat
    BY <1>3, <1>5, <1>6
<1>10. minViews = 0 => \A g \in DOMAIN Namespace :
           g \notin DOMAIN views /\ namespace \in {Null, Namespace[g]} => Labelled(F, s, g) = 0
    BY <1>7
<1> QED BY <1>8, <1>9, <1>10, Zenon DEF views

\* A group that is shown has its own counts, of both ranges when they are compared.
LEMMA GroupIsShown ==
    ASSUME TableInv, NEW F, NEW s \in [start : Int, end : Int], NEW before,
           NEW namespace, NEW minViews \in Int, NEW n,
           NEW groups \in Tops(TopGroups(F, s, namespace, minViews), n), NEW previous,
           NEW g \in DOMAIN groups \cup DOMAIN previous
    PROVE  /\ s.start >= EventLower /\ ~Sensitive(F) =>
                 ViewsOf(ReadScopeVisitors(F, s, "group", DOMAIN groups), g) <= ViewsOf(groups, g)
           /\ n = Cardinality(DOMAIN Namespace) /\ minViews = 0
                 /\ previous = TopGroups(F, before, namespace, minViews) =>
                 ViewsOf(groups, g) = Labelled(F, s, g) /\ ViewsOf(previous, g) = Labelled(F, before, g)
<1> DEFINE counted == TopGroups(F, s, namespace, minViews)
           earlier == TopGroups(F, before, namespace, minViews)
           visitors == ReadScopeVisitors(F, s, "group", DOMAIN groups)
<1>1. /\ counted = [h \in DOMAIN counted |-> counted[h]]
      /\ IsFiniteSet(DOMAIN counted) /\ Cardinality(DOMAIN counted) <= Cardinality(DOMAIN Namespace)
      /\ \A h \in DOMAIN counted : counted[h] = Labelled(F, s, h) /\ counted[h] \in Nat
      /\ minViews = 0 => \A h \in DOMAIN Namespace :
            h \notin DOMAIN counted /\ namespace \in {Null, Namespace[h]} => Labelled(F, s, h) = 0
      /\ \A h \in DOMAIN counted : h \in DOMAIN Namespace /\ namespace \in {Null, Namespace[h]}
    BY GroupsAreCounted
<1>2. /\ \A h \in DOMAIN earlier : earlier[h] = Labelled(F, before, h)
      /\ minViews = 0 => \A h \in DOMAIN Namespace :
            h \notin DOMAIN earlier /\ namespace \in {Null, Namespace[h]} => Labelled(F, before, h) = 0
      /\ \A h \in DOMAIN earlier : h \in DOMAIN Namespace /\ namespace \in {Null, Namespace[h]}
    BY GroupsAreCounted
<1> HIDE DEF counted, earlier
<1>3. DOMAIN groups \subseteq DOMAIN counted /\ \A h \in DOMAIN groups : groups[h] = counted[h]
    BY TopsAreCounts DEF counted
<1>4. ASSUME n = Cardinality(DOMAIN Namespace), minViews = 0, previous = earlier
      PROVE  /\ ViewsOf(groups, g) = Labelled(F, s, g)
             /\ ViewsOf(previous, g) = Labelled(F, before, g)
    <2>1. n \in Nat
        BY <1>4, SiteReportsAssumption, FS_CardinalityType
    <2>2. groups = counted
        BY <1>1, <1>4, <2>1, TopsAreAll DEF counted
    <2>3. g \in DOMAIN Namespace /\ namespace \in {Null, Namespace[g]}
        BY <1>1, <1>2, <1>4, <2>2
    <2> QED BY <1>1, <1>2, <1>4, <2>2, <2>3 DEF ViewsOf
<1>5. ASSUME s.start >= EventLower, ~Sensitive(F), g \in DOMAIN groups
      PROVE  visitors[g] <= groups[g]
    <2> DEFINE S == Keyed(EventQueryset(F, Kept(s), 1))
               T == {r \in S : g \in r.groups}
               P == {r \in SqlRows(F, s, 1) : g \in r.groups}
    <2>1. P \in SUBSET table /\ T \in SUBSET P
        BY <1>5, LiveIsKept, OrmRowsAreSql, RowsAreOfTheTable DEF Keyed
    <2>2. {x \in OldScopes(s, F, "group") : x.value = g} = {}
        BY <1>5, NoOldScopes
    <2>3. visitors[g] = Distinct(T, LAMBDA r : r.key)
                        + MapThenSumSet(LAMBDA x : x.visitors, {x \in OldScopes(s, F, "group") : x.value = g})
        BY <1>5 DEF ReadScopeVisitors, GroupUniques
    <2>4. MapThenSumSet(LAMBDA x : x.visitors, {x \in OldScopes(s, F, "group") : x.value = g}) = 0
        BY <2>2, NothingToAdd, Zenon
    <2>5. groups[g] = Cardinality(P)
        BY <1>1, <1>3, <1>5 DEF Labelled
    <2> HIDE DEF T, P, visitors
    <2>6. Distinct(T, LAMBDA r : r.key) <= Cardinality(P) /\ Distinct(T, LAMBDA r : r.key) \in Nat
        BY <2>1, VisitorsAreFewer
    <2> QED BY <2>3, <2>4, <2>5, <2>6
<1>6. DOMAIN visitors = DOMAIN groups
    BY DEF ReadScopeVisitors
<1> HIDE DEF visitors, earlier
<1>7. s.start >= EventLower /\ ~Sensitive(F) => ViewsOf(visitors, g) <= ViewsOf(groups, g)
    BY <1>5, <1>6 DEF ViewsOf
<1> QED BY <1>4, <1>7 DEF visitors, earlier

-----------------------------------------------------------------------------
(* Every page, and the specification.                                          *)

\* The figures of two ranges stand beside each other, read together or apart.
LEMMA SitePagesFit ==
    ASSUME TableInv, NEW F, NEW s \in Spans, NEW before \in Spans, NEW g \in DOMAIN Bucket,
           (\E n \in Limits : Overview(F, s, before, g, n)) \/ ComparePage(F, s, before, g)
    PROVE  ReportFits(report')
<1> PICK rep : rep = report'
    OBVIOUS
<1>1. s \in [start : Int, end : Int] /\ before \in [start : Int, end : Int]
    BY SiteReportsAssumption
<1>2. SiteFigures(F, s, [events |-> ByBot(F, s), visits |-> ReadVisitStats(F, s)], PageviewTimeSeries(F, s, g))
    BY <1>1, FiguresFit
<1>3. SiteFigures(F, before, [events |-> ByBot(F, before), visits |-> ReadVisitStats(F, before)],
                  PageviewTimeSeries(F, before, g))
    BY <1>1, FiguresFit
<1>4. ASSUME NEW n \in Limits, Overview(F, s, before, g, n) PROVE ReportFits(rep)
    <2>1. /\ rep.about = "site" /\ rep.filters = F /\ rep.span = [current |-> s, previous |-> before]
          /\ rep.stats = WebsiteStatsComparison(F, s, before)
          /\ rep.series = TimeSeriesComparison(F, s, before, g)
        BY <1>4 DEF Overview
    <2>2. /\ rep.stats.current = [events |-> ByBot(F, s), visits |-> ReadVisitStats(F, s)]
          /\ rep.stats.previous = [events |-> ByBot(F, before), visits |-> ReadVisitStats(F, before)]
        BY <2>1 DEF WebsiteStatsComparison, WebsiteStats
    <2>3. /\ rep.series.current = PageviewTimeSeries(F, s, g)
          /\ rep.series.previous = PageviewTimeSeries(F, before, g)
        BY <2>1 DEF TimeSeriesComparison
    <2>4. SiteFits(rep, "current") /\ SiteFits(rep, "previous")
        BY <1>2, <1>3, <2>1, <2>2, <2>3 DEF SiteFits
    <2> QED BY <2>1, <2>4 DEF ReportFits
<1>5. ASSUME ComparePage(F, s, before, g) PROVE ReportFits(rep)
    <2>1. /\ rep.about = "compared" /\ rep.filters = F /\ rep.span = [current |-> s, previous |-> before]
          /\ rep.events = ComparisonStats(F, s, before)
          /\ rep.visits = [current |-> ReadVisitStats(F, s), previous |-> ReadVisitStats(F, before)]
          /\ rep.series = [current |-> PageviewTimeSeries(F, s, g), previous |-> PageviewTimeSeries(F, before, g)]
        BY <1>5 DEF ComparePage
    <2>2. rep.events.current = ByBot(F, s) /\ rep.events.previous = ByBot(F, before)
        BY <2>1 DEF ComparisonStats
    <2>3. ComparisonFits(rep, "current") /\ ComparisonFits(rep, "previous")
        BY <1>2, <1>3, <2>1, <2>2 DEF ComparisonFits
    <2> QED BY <2>1, <2>3 DEF ReportFits
<1> QED BY <1>4, <1>5

\* So does every other page: of one range, or without a range at all.
LEMMA OtherPagesFit ==
    ASSUME TableInv, NEW F, NEW s \in Spans, NEW n \in Limits, NEW g \in DOMAIN Bucket,
           \/ PagesPage(F, s, n, g) \/ EventsPage(F, s, n, g) \/ TopPagesTab(F, s, n)
           \/ SourcesPage(F, s, n) \/ LandingPage(F, s)
    PROVE  ReportFits(report')
<1> PICK rep : rep = report'
    OBVIOUS
<1>1. s \in [start : Int, end : Int]
    BY SiteReportsAssumption
<1>2. ASSUME PagesPage(F, s, n, g) PROVE ReportFits(rep)
    <2>1. PICK pages \in Tops(PageMetrics(F, s), n) :
            rep = [about |-> "pages", filters |-> F, span |-> s, limit |-> n, pages |-> pages,
                   visitors |-> ReadScopeVisitors(F, s, "page", DOMAIN pages),
                   seriesOf |-> [p \in DOMAIN pages |-> PageTimeSeries(F, s, p, g)]]
        BY <1>2, Zenon DEF PagesPage
    <2>2. /\ rep.about = "pages" /\ rep.filters = F /\ rep.span = s /\ rep.pages = pages
          /\ rep.visitors = ReadScopeVisitors(F, s, "page", DOMAIN pages)
          /\ rep.seriesOf = [p \in DOMAIN pages |-> PageTimeSeries(F, s, p, g)]
        BY <2>1
    <2>3. \A p \in DOMAIN rep.pages : PageFits(rep, p)
        BY <1>1, <2>2, PageIsShown
    <2> QED BY <2>2, <2>3 DEF ReportFits
<1>3. ASSUME EventsPage(F, s, n, g) PROVE ReportFits(rep)
    BY <1>3 DEF EventsPage, ReportFits
<1>4. ASSUME TopPagesTab(F, s, n) PROVE ReportFits(rep)
    <2>1. /\ rep.about = "tops" /\ rep.filters = F /\ rep.span = s /\ rep.limit = n
          /\ rep.pages \in TopPages(F, s, n)
        BY <1>4 DEF TopPagesTab
    <2>2. TopsFit(rep)
        BY <2>1, TopsAreShown
    <2> QED BY <2>1, <2>2 DEF ReportFits
<1>5. ASSUME SourcesPage(F, s, n) PROVE ReportFits(rep)
    <2>1. rep.about = "sources" /\ rep.filters = F /\ rep.span = s /\ rep.channels = ChannelMetrics(F, s)
        BY <1>5 DEF SourcesPage
    <2>2. ChannelsFit(rep)
        BY <2>1, ChannelsAreShown DEF ChannelsFit
    <2> QED BY <2>1, <2>2 DEF ReportFits
<1>6. ASSUME LandingPage(F, s) PROVE ReportFits(rep)
    <2>1. rep.about = "landing" /\ rep.filters = F /\ rep.span = s /\ rep.landings = LandingMetrics(F, s)
        BY <1>6 DEF LandingPage
    <2>2. LandingsFit(rep)
        BY <1>1, <2>1, LandingsAreShown DEF LandingsFit
    <2> QED BY <2>1, <2>2 DEF ReportFits
<1> QED BY <1>2, <1>3, <1>4, <1>5, <1>6

LEMMA GroupsPageFits ==
    ASSUME TableInv, NEW F, NEW s \in Spans, NEW before \in Spans, NEW namespace, NEW minViews \in Int,
           NEW n \in Limits, NEW compare \in BOOLEAN,
           GroupsPage(F, s, before, namespace, minViews, n, compare)
    PROVE  ReportFits(report')
<1> PICK rep : rep = report'
    OBVIOUS
<1> DEFINE previous == IF compare THEN TopGroups(F, before, namespace, minViews) ELSE << >>
           all(groups) == [g \in DOMAIN groups \cup DOMAIN previous |-> ViewsOf(groups, g)]
           visitors(groups) == ReadScopeVisitors(F, s, "group", DOMAIN groups)
<1>1. PICK groups \in Tops(TopGroups(F, s, namespace, minViews), Candidates(n, compare)) :
        \E shown \in Tops(all(groups), n) :
            rep = [about |-> "groups", filters |-> F, span |-> s, before |-> before, limit |-> n,
                   minViews |-> minViews, compare |-> compare, groups |-> shown,
                   previous |-> [g \in DOMAIN shown |-> ViewsOf(previous, g)],
                   visitors |-> [g \in DOMAIN shown |-> ViewsOf(visitors(groups), g)],
                   namespaces |-> GroupNamespaces(F, s)]
    BY Zenon DEF GroupsPage
<1>2. PICK shown \in Tops(all(groups), n) :
            rep = [about |-> "groups", filters |-> F, span |-> s, before |-> before, limit |-> n,
                   minViews |-> minViews, compare |-> compare, groups |-> shown,
                   previous |-> [g \in DOMAIN shown |-> ViewsOf(previous, g)],
                   visitors |-> [g \in DOMAIN shown |-> ViewsOf(visitors(groups), g)],
                   namespaces |-> GroupNamespaces(F, s)]
    BY <1>1, Zenon
<1>3. /\ rep.about = "groups" /\ rep.filters = F /\ rep.span = s /\ rep.before = before
      /\ rep.groups = shown /\ rep.minViews = minViews /\ rep.compare = compare
      /\ rep.previous = [g \in DOMAIN shown |-> ViewsOf(previous, g)]
      /\ rep.visitors = [g \in DOMAIN shown |-> ViewsOf(visitors(groups), g)]
    <2> HIDE DEF previous, visitors
    <2> QED BY <1>2
<1>4. s \in [start : Int, end : Int]
    BY SiteReportsAssumption
<1>5. ASSUME NEW g \in DOMAIN shown PROVE GroupFits(rep, g)
    <2>1. g \in DOMAIN all(groups) /\ shown[g] = all(groups)[g]
        <3> PICK every : every = all(groups)
            OBVIOUS
        <3>1. shown \in Tops(every, n)
            BY Zenon
        <3> QED BY <1>5, <3>1, TopsAreCounts
    <2>2. /\ rep.groups[g] = ViewsOf(groups, g)
          /\ rep.previous[g] = ViewsOf(previous, g)
          /\ rep.visitors[g] = ViewsOf(visitors(groups), g)
        <3> HIDE DEF previous, visitors
        <3> QED BY <1>3, <1>5, <2>1
    <2> PICK early : early = previous
        OBVIOUS
    <2>3. g \in DOMAIN groups \cup DOMAIN early /\ (compare => early = TopGroups(F, before, namespace, minViews))
        <3> HIDE DEF visitors
        <3> QED BY <2>1
    <2>4. /\ s.start >= EventLower /\ ~Sensitive(F) =>
                ViewsOf(ReadScopeVisitors(F, s, "group", DOMAIN groups), g) <= ViewsOf(groups, g)
          /\ Candidates(n, compare) = Cardinality(DOMAIN Namespace) /\ minViews = 0
                /\ early = TopGroups(F, before, namespace, minViews) =>
                    ViewsOf(groups, g) = Labelled(F, s, g) /\ ViewsOf(early, g) = Labelled(F, before, g)
        <3> HIDE DEF previous, all, visitors
        <3> QED BY <1>4, <2>3, GroupIsShown
    <2> HIDE DEF previous, all
    <2>5. compare => Candidates(n, compare) = Cardinality(DOMAIN Namespace)
        BY DEF Candidates
    <2> QED BY <1>3, <2>2, <2>3, <2>4, <2>5 DEF GroupFits
<1> QED BY <1>3, <1>5 DEF ReportFits

LEMMA NextReportFits ==
    ASSUME TableInv, NextReports PROVE ReportFits(report')
<1>1. PICK g \in DOMAIN Bucket : g = "day"
    BY SiteReportsAssumption
<1>2. ASSUME NEW F \in FilterSets, NEW s \in Spans, NEW before \in Spans, NEW h \in DOMAIN Bucket,
             (\E n \in Limits : Overview(F, s, before, h, n)) \/ ComparePage(F, s, before, h)
      PROVE  ReportFits(report')
    BY <1>2, SitePagesFit
<1>3. ASSUME NEW F \in FilterSets, NEW s \in Spans, NEW before \in Spans,
             NEW namespace \in {Null} \cup Range(Namespace), NEW minViews \in {0, 2}, NEW n \in Limits,
             NEW compare \in BOOLEAN, GroupsPage(F, s, before, namespace, minViews, n, compare)
      PROVE  ReportFits(report')
    BY <1>3, GroupsPageFits
<1>4. ASSUME NEW F \in FilterSets, NEW s \in Spans, NEW n \in Limits, NEW h \in DOMAIN Bucket,
             PagesPage(F, s, n, h) \/ EventsPage(F, s, n, h)
      PROVE  ReportFits(report')
    BY <1>4, OtherPagesFit
<1>5. ASSUME NEW F \in FilterSets, NEW s \in Spans, NEW n \in Limits,
             TopPagesTab(F, s, n) \/ SourcesPage(F, s, n)
      PROVE  ReportFits(report')
    BY <1>1, <1>5, OtherPagesFit
<1>6. ASSUME NEW F \in FilterSets, NEW s \in Spans, LandingPage(F, s) PROVE ReportFits(report')
    <2> PICK rep : rep = report'
        OBVIOUS
    <2>1. rep.about = "landing" /\ rep.filters = F /\ rep.span = s /\ rep.landings = LandingMetrics(F, s)
        BY <1>6 DEF LandingPage
    <2>2. LandingsFit(rep)
        BY <2>1, LandingsAreShown, SiteReportsAssumption DEF LandingsFit
    <2> QED BY <2>1, <2>2 DEF ReportFits
<1>7. ASSUME NEW F, NEW n, RealtimePage(F, n) PROVE ReportFits(report')
    BY <1>7 DEF RealtimePage, ReportFits
<1>8. ASSUME NEW c, NEW s, Typeahead(c, s) PROVE ReportFits(report')
    BY <1>8 DEF Typeahead, ReportFits
<1>9. ASSUME NEW h, AllTime(h) PROVE ReportFits(report')
    BY <1>9 DEF AllTime, ReportFits
<1>10. ASSUME NEW F \in FilterSets, NEW s \in Spans, NEW before \in Spans,
              \/ \E h \in DOMAIN Bucket :
                    (\E n \in Limits : Overview(F, s, before, h, n)) \/ ComparePage(F, s, before, h)
              \/ \E namespace \in {Null} \cup Range(Namespace), minViews \in {0, 2}, n \in Limits,
                    compare \in BOOLEAN : GroupsPage(F, s, before, namespace, minViews, n, compare)
       PROVE  ReportFits(report')
    BY <1>2, <1>3, <1>10
<1>11. ASSUME NEW F \in FilterSets, NEW s \in Spans,
              \/ \E n \in Limits, h \in DOMAIN Bucket : PagesPage(F, s, n, h) \/ EventsPage(F, s, n, h)
              \/ \E n \in Limits : TopPagesTab(F, s, n) \/ SourcesPage(F, s, n)
              \/ LandingPage(F, s)
       PROVE  ReportFits(report')
    BY <1>4, <1>5, <1>6, <1>11
<1>12. CASE \E F \in FilterSets, n \in Limits : RealtimePage(F, n)
    BY <1>7, <1>12
<1>13. CASE \E c \in Columns, s \in Spans : Typeahead(c, s)
    BY <1>8, <1>13
<1>14. CASE \E h \in DOMAIN Bucket : AllTime(h)
    BY <1>9, <1>14
<1> QED BY <1>10, <1>11, <1>12, <1>13, <1>14 DEF NextReports

(* Every page of the dashboard adds up, for every table, filter and range: the *)
(* report is built from one table, which no report changes.                    *)
THEOREM PagesAddUp == ReportsSpec => []ReportsAddUp
<1> DEFINE Inv == TableInv /\ ReportFits(report)
<1>1. InitReports => Inv
    <2> SUFFICES ASSUME InitReports PROVE Inv
        OBVIOUS
    <2>1. TableInv
        BY DEF InitReports, TableInv
    <2>2. report.about = "nothing"
        BY DEF InitReports, NoReport
    <2> QED BY <2>1, <2>2 DEF ReportFits
<1>2. Inv /\ [NextReports]_reportVars => Inv'
    <2> SUFFICES ASSUME Inv, [NextReports]_reportVars PROVE Inv'
        OBVIOUS
    <2>1. table' = table
        BY DEF NextReports, reportVars
    <2>2. TableInv'
        BY <2>1 DEF TableInv
    <2> PICK rep : rep = report'
        OBVIOUS
    <2>3. ReportFits(rep)
        BY NextReportFits DEF reportVars
    <2>4. ReportFits(rep)'
        BY <2>1, <2>3, FitsStay
    <2> QED BY <2>2, <2>4
<1>3. Inv => ReportsAddUp
    BY DEF ReportsAddUp
<1> QED BY <1>1, <1>2, <1>3, PTL DEF ReportsSpec

-----------------------------------------------------------------------------
(* API v1.  A visit of some rows opens at a row and lasts to its last one; its  *)
(* length is the number of ticks between, and the ticks of two visits differ.  *)

LEMMA VisitEnds ==
    ASSUME TableInv, NEW V \in SUBSET table, NEW e \in V
    PROVE  \E r \in VisitOf(V, e) :
              /\ \A q \in VisitOf(V, e) : q.at <= r.at
              /\ r.at = Max({q.at : q \in VisitOf(V, e)}) /\ r.at \in Int /\ e.at <= r.at
              /\ r = e \/ Before(e, r)
<1> DEFINE W == VisitOf(V, e)
           A == {q.at : q \in W}
<1>1. W \in SUBSET table /\ \A r \in W : r.key = e.key
    BY DEF VisitOf, Before
<1>2. e \in W
    <2>1. \A o \in Opens(V) : Before(e, o) => e # o /\ ~Before(o, e)
        BY PartsAreFinite DEF Opens, Before
    <2> QED BY <2>1 DEF VisitOf
<1>3. PICK r \in W : \A q \in W : q = r \/ Before(q, r)
    <2> HIDE DEF W
    <2> QED BY <1>1, <1>2, EndsAreThere
<1>4. \A q \in W : q.at \in Int
    BY <1>1, PartsAreFinite
<1>5. \A q \in W : q.at <= r.at
    BY <1>3, <1>4 DEF Before
<1>6. Max(A) = r.at
    <2>1. r.at \in A /\ \A y \in A : r.at >= y
        BY <1>3, <1>4, <1>5
    <2>2. A \subseteq Int
        BY <1>4
    <2> DEFINE P(x) == x \in A /\ \A y \in A : x >= y
    <2>3. P(CHOOSE x : P(x))
        BY <2>1, Zenon
    <2>4. Max(A) = CHOOSE x : P(x)
        BY Zenon DEF Max
    <2> HIDE DEF A
    <2>5. \A x, y : P(x) /\ P(y) => x = y
        BY <2>2
    <2> QED BY <2>1, <2>3, <2>4, <2>5
<1>7. r = e \/ Before(e, r)
    BY <1>3 DEF VisitOf
<1> QED BY <1>2, <1>3, <1>4, <1>5, <1>6, <1>7

\* The ticks between a visit's first row and its last.
Lasting(V, e) == {<<e.key, t>> : t \in e.at..(e.at + Length(V, e) - 1)}
Lasted(V) == [e \in Opens(V) |-> Lasting(V, e)]

LEMMA LengthIsLasting ==
    ASSUME TableInv, NEW V \in SUBSET table, NEW e \in V
    PROVE  /\ IsFiniteSet(Lasting(V, e)) /\ Cardinality(Lasting(V, e)) = Length(V, e)
           /\ Length(V, e) \in Nat
<1> DEFINE n == Length(V, e)
           I == e.at..(e.at + n - 1)
           f == [t \in I |-> <<e.key, t>>]
           L == Lasting(V, e)
<1>1. n \in Nat /\ e.at \in Int
    BY VisitEnds, PartsAreFinite DEF Length
<1> HIDE DEF n
<1>2. IsFiniteSet(I) /\ Cardinality(I) = n
    BY <1>1, FS_Interval
<1>3. L = {<<e.key, t>> : t \in I}
    BY DEF Lasting, n
<1> HIDE DEF I, L
<1>4. f \in Bijection(I, L)
    <2>1. f \in [I -> L] /\ \A x \in L : \E t \in I : f[t] = x
        BY <1>3
    <2>2. \A t, u \in I : f[t] = f[u] => t = u
        OBVIOUS
    <2> HIDE DEF f
    <2> QED BY <2>1, <2>2 DEF Bijection, Injection, Surjection, IsInjective
<1>5. ExistsBijection(I, L)
    BY <1>4 DEF ExistsBijection
<1>6. IsFiniteSet(L) /\ Cardinality(L) = Cardinality(I)
    BY <1>2, <1>5, FS_Bijection
<1> QED BY <1>1, <1>2, <1>6 DEF L, n

LEMMA VisitsAreApart ==
    ASSUME TableInv, NEW V \in SUBSET table
    PROVE  Disjoint(Lasted(V), Opens(V))
<1>1. ASSUME NEW e \in Opens(V), NEW f \in Opens(V), Before(e, f), NEW t \in Int,
             <<e.key, t>> \in Lasting(V, e), <<e.key, t>> \in Lasting(V, f)
      PROVE  FALSE
    <2>1. e \in V /\ f \in V /\ e \in table /\ f \in table
        BY DEF Opens
    <2>2. PICK r \in VisitOf(V, e) : r.at = Max({q.at : q \in VisitOf(V, e)}) /\ r.at \in Int
        BY <2>1, VisitEnds
    <2>3. r \in V /\ (r = e \/ Before(e, r)) /\ r # f /\ ~Before(f, r)
        BY <1>1 DEF VisitOf
    <2>4. r.at <= f.at
        BY <1>1, <2>1, <2>3, PartsAreFinite DEF Before
    <2>5. f.at <= t
        BY <1>1 DEF Lasting
    <2>6. t <= e.at + Length(V, e) - 1
        BY <1>1 DEF Lasting
    <2>7. e.at \in Int /\ f.at \in Int
        BY <2>1, PartsAreFinite
    <2> QED BY <2>2, <2>4, <2>5, <2>6, <2>7 DEF Length
<1> SUFFICES ASSUME NEW e \in Opens(V), NEW f \in Opens(V), e # f, NEW x \in Lasting(V, e), x \in Lasting(V, f)
             PROVE  FALSE
    <2>1. \A e \in Opens(V) : Lasted(V)[e] = Lasting(V, e)
        BY DEF Lasted
    <2> QED BY <2>1 DEF Disjoint
<1>2. PICK t \in e.at..(e.at + Length(V, e) - 1) : x = <<e.key, t>>
    BY DEF Lasting
<1>3. e.key = f.key
    BY <1>2 DEF Lasting
<1>4. e \in table /\ f \in table
    BY DEF Opens
<1>5. Before(e, f) \/ Before(f, e)
    <2>1. table \in SUBSET table
        OBVIOUS
    <2>2. e.at \in Int /\ f.at \in Int /\ e.id \in Int /\ f.id \in Int /\ e.id # f.id
        BY <1>4, <2>1, PartsAreFinite
    <2> QED BY <1>3, <2>2 DEF Before
<1>6. t \in Int
    BY <1>2
<1> QED BY <1>1, <1>2, <1>3, <1>5, <1>6

LEMMA LengthsAddUp ==
    ASSUME TableInv, NEW V \in SUBSET table
    PROVE  /\ SumOf([e \in Opens(V) |-> Length(V, e)]) = Cardinality(Rows(Lasted(V), Opens(V)))
           /\ IsFiniteSet(Rows(Lasted(V), Opens(V)))
<1> DEFINE c == [e \in Opens(V) |-> Length(V, e)]
           D == Lasted(V)
           K == Opens(V)
<1>1. K \in SUBSET V /\ K \in SUBSET table /\ IsFiniteSet(K)
    <2>1. K \in SUBSET V
        BY DEF Opens
    <2> HIDE DEF K
    <2> QED BY <2>1, PartsAreFinite
<1>2. \A k \in K : IsFiniteSet(D[k]) /\ c[k] = Cardinality(D[k])
    BY <1>1, LengthIsLasting DEF Lasted
<1>3. Disjoint(D, K)
    BY VisitsAreApart
<1>4. SumOf(c) = SumFunctionOnSet(c, K)
    <2>1. DOMAIN c = K
        OBVIOUS
    <2> HIDE DEF c, K
    <2> QED BY <2>1, Zenon DEF SumOf, SumFunction
<1> HIDE DEF c, D, K
<1>5. SumFunctionOnSet(c, K) = Cardinality(Rows(D, K))
    BY <1>1, <1>2, <1>3, CountsAddUp
<1>6. IsFiniteSet(Rows(D, K))
    BY <1>1, <1>2, RowsAreFinite
<1> QED BY <1>4, <1>5, <1>6, Zenon DEF c, D, K

\* A visit of fewer rows lies within one visit of all.
LEMMA VisitIsWithin ==
    ASSUME TableInv, NEW S \in SUBSET table, NEW T \in SUBSET S, NEW e \in Opens(T), NEW r \in VisitOf(T, e)
    PROVE  \E o \in Opens(S) : /\ o.key = e.key /\ o.at <= e.at
                               /\ r \in VisitOf(S, o)
<1> DEFINE C == {q \in S : q.key = e.key}
           P == {q \in Opens(S) : q.key = e.key /\ (q = e \/ Before(q, e))}
<1>1. /\ e \in T /\ e \in C /\ r \in T /\ r \in C /\ C \in SUBSET table
      /\ \A q \in C : q.at \in Int /\ q.key = e.key
    BY PartsAreFinite DEF Opens, VisitOf, Before
<1>2. /\ \A p, q \in C : q = p \/ Before(q, p) \/ Before(p, q)
      /\ \A p, q, t \in C : Before(q, p) /\ Before(p, t) => Before(q, t)
      /\ \A q, p \in C : Before(q, p) => q # p /\ ~Before(p, q) /\ q.at <= p.at
    <2> HIDE DEF C
    <2> QED BY <1>1, RowsAreOrdered
<1>3. PICK first \in C : \A q \in C : q = first \/ Before(first, q)
    <2> HIDE DEF C
    <2> QED BY <1>1, EndsAreThere
<1>4. first \in P
    <2>1. \A q \in S : ~Before(q, first)
        BY <1>2, <1>3 DEF Before
    <2> QED BY <1>1, <1>3, <2>1 DEF Opens, Continued
<1>5. P \in SUBSET table /\ P \subseteq C /\ \A q \in P : q.key = e.key
    BY DEF Opens
<1>6. PICK o \in P : \A q \in P : q = o \/ Before(q, o)
    <2> HIDE DEF P, C
    <2> QED BY <1>4, <1>5, EndsAreThere
<1>7. o \in C /\ o.at <= e.at /\ (o = e \/ Before(o, e)) /\ o \in Opens(S)
    BY <1>1, <1>2, <1>5, <1>6
<1>8. r = e \/ Before(e, r)
    BY DEF VisitOf
<1>9. ASSUME NEW x \in Opens(S), Before(o, x), x = r \/ Before(x, r) PROVE FALSE
    <2> DEFINE Y == {y \in T : y \in C /\ Before(e, y) /\ (y = x \/ Before(x, y)) /\ (y = r \/ Before(y, r))}
    <2>1. x \in C
        BY <1>7, <1>9 DEF Opens, Before
    <2>2. Before(e, x)
        BY <1>1, <1>2, <1>6, <1>7, <1>9, <2>1
    <2>3. r \in Y
        BY <1>1, <1>2, <1>9, <2>1, <2>2
    <2>4. Y \in SUBSET table /\ \A y \in Y : y.key = e.key
        BY <1>1
    <2> HIDE DEF C, P
    <2>5. PICK y \in Y : \A q \in Y : q = y \/ Before(y, q)
        <3> HIDE DEF Y
        <3> QED BY <2>3, <2>4, EndsAreThere
    <2>6. y \notin Opens(T)
        BY <2>5 DEF VisitOf
    <2>7. PICK q \in T : Before(q, y) /\ y.at - q.at <= Visits30
        BY <2>5, <2>6 DEF Opens, Continued
    <2>8. q \in C
        BY <2>5, <2>7 DEF Before, C
    <2>9. Before(q, x)
        <3> SUFFICES ASSUME ~Before(q, x) PROVE FALSE
            OBVIOUS
        <3>1. q = x \/ Before(x, q)
            BY <1>2, <2>1, <2>8
        <3>2. Before(e, q) /\ Before(q, r)
            BY <1>1, <1>2, <2>1, <2>2, <2>5, <2>7, <2>8, <3>1
        <3>3. q \in Y
            BY <2>7, <2>8, <3>1, <3>2
        <3> QED BY <1>2, <2>5, <2>7, <2>8, <3>3
    <2>10. x.at <= y.at
        BY <1>1, <1>2, <2>1, <2>5
    <2>11. x.at - q.at <= Visits30
        <3>1. x.at \in Int /\ y.at \in Int /\ q.at \in Int /\ Visits30 \in Int
            BY <1>1, <2>1, <2>5, <2>8, ApiV1Assumption
        <3> QED BY <2>7, <2>10, <3>1
    <2> QED BY <1>9, <2>7, <2>9, <2>11 DEF Opens, Continued
<1>10. r \in VisitOf(S, o)
    BY <1>1, <1>2, <1>7, <1>8, <1>9 DEF VisitOf
<1> QED BY <1>1, <1>7, <1>10

LEMMA FewerLastNoLonger ==
    ASSUME TableInv, NEW S \in SUBSET table, NEW T \in SUBSET S
    PROVE  SumOf([e \in Opens(T) |-> Length(T, e)]) <= SumOf([e \in Opens(S) |-> Length(S, e)])
<1> DEFINE A == Rows(Lasted(T), Opens(T))
           B == Rows(Lasted(S), Opens(S))
<1>1. ASSUME NEW x \in A PROVE x \in B
    <2>1. PICK e \in Opens(T) : x \in Lasting(T, e)
        BY DEF Rows, Lasted
    <2>2. PICK t \in e.at..(e.at + Length(T, e) - 1) : x = <<e.key, t>>
        BY <2>1 DEF Lasting
    <2>3. e \in T /\ e.at \in Int
        BY PartsAreFinite DEF Opens
    <2>4. PICK r \in VisitOf(T, e) : r.at = Max({q.at : q \in VisitOf(T, e)}) /\ r.at \in Int
        BY <2>3, VisitEnds
    <2>5. t \in Int /\ e.at <= t /\ t < r.at
        BY <2>2, <2>3, <2>4 DEF Length
    <2>6. PICK o \in Opens(S) : o.key = e.key /\ o.at <= e.at /\ r \in VisitOf(S, o)
        BY VisitIsWithin
    <2>7. o \in S /\ o.at \in Int
        BY PartsAreFinite DEF Opens
    <2>8. PICK z \in VisitOf(S, o) : /\ \A q \in VisitOf(S, o) : q.at <= z.at
                                     /\ z.at = Max({q.at : q \in VisitOf(S, o)}) /\ z.at \in Int
        BY <2>7, VisitEnds
    <2>9. t \in o.at..(o.at + Length(S, o) - 1)
        BY <2>3, <2>4, <2>5, <2>6, <2>7, <2>8 DEF Length
    <2>10. x \in Lasting(S, o)
        BY <2>2, <2>6, <2>9 DEF Lasting
    <2> QED BY <2>10 DEF Rows, Lasted
<1>2. T \in SUBSET table
    OBVIOUS
<1>3. /\ SumOf([e \in Opens(T) |-> Length(T, e)]) = Cardinality(A)
      /\ SumOf([e \in Opens(S) |-> Length(S, e)]) = Cardinality(B) /\ IsFiniteSet(B)
    BY <1>2, LengthsAddUp
<1>4. A \subseteq B
    BY <1>1
<1> HIDE DEF A, B
<1>5. Cardinality(A) <= Cardinality(B)
    BY <1>3, <1>4, FS_Subset
<1> QED BY <1>3, <1>5

-----------------------------------------------------------------------------
(* The rows of a statement.  A pageview without labels has one key, so it is in *)
(* one row: what rows count of some pageviews adds up to the pageviews.        *)

SpecFields == {"dataset", "operation", "range", "granularity", "dimensions", "metrics", "groups", "limit",
               "prefix", "exact"}
GoodSpec(q) ==
    /\ DOMAIN q = SpecFields
    /\ q.dimensions \in Seq(Dimensions) /\ Len(q.dimensions) \in 0..2
    /\ q.metrics \in Seq(Metrics)
    /\ q.dataset \in {"pageviews", "events"}
    /\ ToSet(q.metrics) \cap (IF q.dataset = "events" THEN PageMetricNames ELSE {"events"}) = {}
    /\ q.operation \in {"totals", "timeseries", "breakdown"}
    /\ q.operation = "totals" => q.dimensions = << >>
    /\ q.operation # "timeseries" => q.granularity = Null
    /\ q.limit \in Nat

ValueOf(r, d) == IF d = "section" THEN Section[r.path] ELSE r[d]
KeyOf(r, q) ==
    LET d == q.dimensions
    IN  IF Len(d) = 0 THEN << >>
        ELSE IF Len(d) = 1 THEN <<ValueOf(r, d[1])>> ELSE <<ValueOf(r, d[1]), ValueOf(r, d[2])>>

\* What a row is made of: the hits of its key, those of its bucket, the visits
\* that open in it.
Of(q, k) == {r \in SourceRows(q) : k \in Keys(r, q)}
InRow(q, k, b) == {r \in Of(q, k) : BucketOf(r.at, q) = b}
OpenedIn(q, k, b) == {e \in Opens(Keyed(Of(q, k))) : BucketOf(e.at, q) = b}
Plain(q, k, b) == AggregateRow(SourceRows(q), k, b, q)
Printed(q, k, b) == Shaped(Plain(q, k, b), q)
PrintedFor(q) == [r \in SourceRows(q) |-> Printed(q, KeyOf(r, q), BucketOf(r.at, q))]

LEMMA KeysAreOne ==
    ASSUME NEW q, GoodSpec(q), ~Overlapping(q), NEW r
    PROVE  Keys(r, q) = {KeyOf(r, q)}
<1> DEFINE d == q.dimensions
<1>1. d \in Seq(Dimensions) /\ Len(d) \in {0, 1, 2} /\ \A i \in 1..Len(d) : d[i] # "groups"
    BY DEF GoodSpec, Overlapping, ToSet
<1>2. \A i \in 1..Len(d) : DimensionValues(r, d[i], q) = {ValueOf(r, d[i])}
    BY <1>1 DEF DimensionValues, ValueOf
<1>3. CASE Len(d) = 0
    BY <1>3 DEF Keys, KeyOf
<1>4. CASE Len(d) = 1
    BY <1>2, <1>4 DEF Keys, KeyOf
<1>5. CASE Len(d) = 2
    BY <1>2, <1>5 DEF Keys, KeyOf
<1> QED BY <1>1, <1>3, <1>4, <1>5

LEMMA SourcesAreRows ==
    ASSUME TableInv, NEW q
    PROVE  SourceRows(q) \in SUBSET table
BY DEF SourceRows

\* The figures of a row, by name.
Lost(R) == R \ Keyed(R)
People(R) == {r \in R : ~r.bot}
Robots(R) == {r \in R : r.bot}
DayKeys(R) == {<<r.at \div Bucket["day"], r.key>> : r \in Keyed(R)}
BouncedIn(q, k, b) == {e \in OpenedIn(q, k, b) : VisitOf(Keyed(Of(q, k)), e) = {e}}
LengthsIn(q, k, b) == [e \in OpenedIn(q, k, b) |-> Length(Keyed(Of(q, k)), e)]

LEMMA PlainFigures ==
    ASSUME NEW q, NEW k, NEW b
    PROVE  /\ Plain(q, k, b).key = k /\ Plain(q, k, b).bucket = b
           /\ Plain(q, k, b).count = Cardinality(InRow(q, k, b))
           /\ Plain(q, k, b).missing = (IF ToSet(q.metrics) \cap KeyMetrics = {} THEN 0
                                        ELSE Cardinality(Lost(InRow(q, k, b))))
           /\ Plain(q, k, b).values["pageviews"] =
                 IF q.dataset = "pageviews" THEN Cardinality(InRow(q, k, b)) ELSE Null
           /\ Plain(q, k, b).values["events"] =
                 IF q.dataset = "pageviews" THEN Null ELSE Cardinality(InRow(q, k, b))
           /\ Plain(q, k, b).values["human_pageviews"] = Cardinality(People(InRow(q, k, b)))
           /\ Plain(q, k, b).values["bot_pageviews"] = Cardinality(Robots(InRow(q, k, b)))
           /\ Plain(q, k, b).values["daily_unique_visitors"] = Cardinality(DayKeys(InRow(q, k, b)))
           /\ Plain(q, k, b).values["visits"] = Cardinality(OpenedIn(q, k, b))
           /\ Plain(q, k, b).values["bounces"] = Cardinality(BouncedIn(q, k, b))
           /\ Plain(q, k, b).values["total_duration"] = SumOf(LengthsIn(q, k, b))
           /\ DOMAIN Plain(q, k, b) = {"key", "bucket", "count", "direct", "missing", "values"}
<1> DEFINE R == InRow(q, k, b)
<1>1. PICK direct :
        Plain(q, k, b) =
            [key |-> k, bucket |-> b, count |-> Cardinality(R), direct |-> direct,
             missing |-> IF ToSet(q.metrics) \cap KeyMetrics = {} THEN 0 ELSE Cardinality(Lost(R)),
             values |-> [pageviews |-> IF q.dataset = "pageviews" THEN Cardinality(R) ELSE Null,
                     events |-> IF q.dataset = "pageviews" THEN Null ELSE Cardinality(R),
                     human_pageviews |-> Cardinality(People(R)),
                     bot_pageviews |-> Cardinality(Robots(R)),
                     daily_unique_visitors |-> Cardinality(DayKeys(R)),
                     visits |-> Cardinality(OpenedIn(q, k, b)),
                     bounces |-> Cardinality(BouncedIn(q, k, b)),
                     total_duration |-> SumOf(LengthsIn(q, k, b))]]
    BY Zenon DEF Plain, AggregateRow, InRow, OpenedIn, Of, Lost, People, Robots, DayKeys, BouncedIn, LengthsIn
<1> HIDE DEF R
<1> QED BY <1>1 DEF R

LEMMA PrintedFigures ==
    ASSUME TableInv, NEW q, NEW k, NEW b
    PROVE  LET row == Printed(q, k, b)
               R == InRow(q, k, b)
           IN  /\ row.key = k /\ row.bucket = b /\ row.count = Cardinality(R)
               /\ row.missing \in Nat
               /\ ToSet(q.metrics) \cap KeyMetrics # {} => row.missing = Cardinality(Lost(R))
               /\ DOMAIN row.values = ToSet(q.metrics)
               /\ \A m \in ToSet(q.metrics) :
                     row.values[m] = IF row.missing > 0 /\ m \in KeyMetrics THEN Null ELSE Plain(q, k, b).values[m]
<1> DEFINE row == Printed(q, k, b)
           plain == Plain(q, k, b)
           R == InRow(q, k, b)
           M == ToSet(q.metrics)
           values == [m \in M |-> IF plain.missing > 0 /\ m \in KeyMetrics THEN Null ELSE plain.values[m]]
<1>1. /\ plain.key = k /\ plain.bucket = b /\ plain.count = Cardinality(R)
      /\ plain.missing = (IF M \cap KeyMetrics = {} THEN 0 ELSE Cardinality(Lost(R)))
      /\ DOMAIN plain = {"key", "bucket", "count", "direct", "missing", "values"}
    BY PlainFigures
<1>2. row = [plain EXCEPT !.values = values]
    BY Zenon DEF Printed, Shaped
<1> HIDE DEF plain, values
<1>3. /\ row.key = plain.key /\ row.bucket = plain.bucket /\ row.count = plain.count
      /\ row.missing = plain.missing /\ row.values = values
    <2> HIDE DEF row
    <2> QED BY <1>1, <1>2
<1>4. Lost(R) \in SUBSET table
    BY DEF Lost, InRow, Of, SourceRows
<1> HIDE DEF row, R
<1>5. Cardinality(Lost(R)) \in Nat
    BY <1>4, PartsAreFinite
<1>6. DOMAIN values = M /\ \A m \in M : values[m] =
          IF plain.missing > 0 /\ m \in KeyMetrics THEN Null ELSE plain.values[m]
    BY DEF values
<1> SUFFICES /\ row.key = k /\ row.bucket = b /\ row.count = Cardinality(R)
             /\ row.missing \in Nat
             /\ M \cap KeyMetrics # {} => row.missing = Cardinality(Lost(R))
             /\ DOMAIN row.values = M
             /\ \A m \in M : row.values[m] = IF row.missing > 0 /\ m \in KeyMetrics THEN Null ELSE plain.values[m]
    BY Zenon DEF row, R, plain
<1> QED BY <1>1, <1>3, <1>5, <1>6

LEMMA RowsArePrinted ==
    ASSUME TableInv, NEW q, GoodSpec(q), ~Overlapping(q), q.operation # "totals"
    PROVE  LET S == SourceRows(q)
               f == PrintedFor(q)
           IN  /\ Aggregate(q).rows = {f[r] : r \in S}
               /\ IsFiniteSet(Aggregate(q).rows) /\ Cardinality(Aggregate(q).rows) \in Nat
               /\ \A r \in S : f[r] = Printed(q, KeyOf(r, q), BucketOf(r.at, q))
               /\ \A r, s \in S : f[r] = f[s] <=>
                     KeyOf(r, q) = KeyOf(s, q) /\ BucketOf(r.at, q) = BucketOf(s.at, q)
<1> DEFINE S == SourceRows(q)
           f == PrintedFor(q)
           at == UNION {{<<k, BucketOf(r.at, q)>> : k \in Keys(r, q)} : r \in S}
           rows == {AggregateRow(S, p[1], p[2], q) : p \in at}
<1>1. at = {<<KeyOf(r, q), BucketOf(r.at, q)>> : r \in S}
    <2>1. \A r \in S : {<<k, BucketOf(r.at, q)>> : k \in Keys(r, q)} = {<<KeyOf(r, q), BucketOf(r.at, q)>>}
        BY KeysAreOne
    <2> QED BY <2>1
<1>2. Aggregate(q).rows = {Shaped(row, q) : row \in rows}
    BY DEF Aggregate, AggregateRows
<1>3. \A r \in S : f[r] = Printed(q, KeyOf(r, q), BucketOf(r.at, q))
    BY DEF PrintedFor
<1>4. rows = {AggregateRow(S, KeyOf(r, q), BucketOf(r.at, q), q) : r \in S}
    <2> DEFINE k(r) == KeyOf(r, q)
               b(r) == BucketOf(r.at, q)
    <2>1. at = {<<k(r), b(r)>> : r \in S}
        BY <1>1
    <2> HIDE DEF at, k, b, S
    <2>2. \A p \in at : \E r \in S : p[1] = k(r) /\ p[2] = b(r)
        BY <2>1
    <2>3. \A r \in S : \E p \in at : p[1] = k(r) /\ p[2] = b(r)
        <3> SUFFICES ASSUME NEW r \in S PROVE <<k(r), b(r)>> \in at
            OBVIOUS
        <3> QED BY <2>1
    <2>4. rows = {AggregateRow(S, k(r), b(r), q) : r \in S}
        BY <2>2, <2>3
    <2> QED BY <2>4 DEF k, b
<1>5. Aggregate(q).rows = {f[r] : r \in S}
    <2>1. \A r \in S : f[r] = Shaped(AggregateRow(S, KeyOf(r, q), BucketOf(r.at, q), q), q)
        BY <1>3 DEF Printed, Plain
    <2> HIDE DEF f, S, rows
    <2> QED BY <1>2, <1>4, <2>1
<1>6. IsFiniteSet(S)
    BY SourcesAreRows, PartsAreFinite
<1> HIDE DEF f, S
<1>7. IsFiniteSet({f[r] : r \in S}) /\ Cardinality({f[r] : r \in S}) \in Nat
    BY <1>6, ImageIsFinite
<1>8. \A r \in S : f[r].key = KeyOf(r, q) /\ f[r].bucket = BucketOf(r.at, q)
    BY <1>3, PrintedFigures
<1>9. \A r, s \in S : f[r] = f[s] <=> KeyOf(r, q) = KeyOf(s, q) /\ BucketOf(r.at, q) = BucketOf(s.at, q)
    BY <1>3, <1>8
<1>10. IsFiniteSet(Aggregate(q).rows) /\ Cardinality(Aggregate(q).rows) \in Nat
    BY <1>5, <1>7, Zenon
<1> QED BY <1>3, <1>5, <1>9, <1>10 DEF f, S

\* Those of some hits that stand in the row of a hit.
AlikeIn(A, r, q) == {a \in A : KeyOf(a, q) = KeyOf(r, q) /\ BucketOf(a.at, q) = BucketOf(r.at, q)}

\* What the rows count of some of the hits, they count once.
LEMMA RowsCountOnce ==
    ASSUME TableInv, NEW q, GoodSpec(q), ~Overlapping(q), q.operation # "totals",
           NEW m, NEW A \in SUBSET SourceRows(q),
           \A r \in SourceRows(q) : PrintedFor(q)[r].values[m] = Cardinality(AlikeIn(A, r, q))
    PROVE  SumRows(Aggregate(q).rows, m) = Cardinality(A)
<1> DEFINE S == SourceRows(q)
           f == PrintedFor(q)
           K == Aggregate(q).rows
           c == [row \in K |-> row.values[m]]
<1>1. /\ K = {f[r] : r \in S} /\ IsFiniteSet(K)
      /\ \A r, s \in S : f[r] = f[s] <=> KeyOf(r, q) = KeyOf(s, q) /\ BucketOf(r.at, q) = BucketOf(s.at, q)
    BY RowsArePrinted
<1>2. A \subseteq S /\ IsFiniteSet(A)
    BY SourcesAreRows, PartsAreFinite
<1>3. SumRows(K, m) = SumFunctionOnSet(c, K)
    <2>1. DOMAIN c = K
        OBVIOUS
    <2>2. SumRows(K, m) = SumFunction(c)
        BY Zenon DEF SumRows, SumOf
    <2> HIDE DEF c, K
    <2> QED BY <2>1, <2>2, Zenon DEF SumFunction
<1> HIDE DEF K, f, S
<1>4. ASSUME NEW k \in K PROVE c[k] = Cardinality(With(A, f, k))
    <2>1. PICK r \in S : k = f[r]
        BY <1>1
    <2> DEFINE P == AlikeIn(A, r, q)
    <2>2. c[k] = Cardinality(P)
        BY <2>1 DEF f, S
    <2>3. P = With(A, f, k)
        BY <1>1, <1>2, <2>1 DEF With, AlikeIn
    <2> QED BY <2>2, <2>3, Zenon
<1>5. \A r \in A : f[r] \in K
    BY <1>1, <1>2
<1> HIDE DEF c
<1>6. SumFunctionOnSet(c, K) = Cardinality(A)
    BY <1>1, <1>2, <1>4, <1>5, CountsByValue
<1> QED BY <1>3, <1>6 DEF K

\* What a figure of a statement counts: all its rows, those of people, those of
\* bots, or the rows that open a visit among the rows of their key.
CountedRows(q, m) ==
    CASE m \in {"pageviews", "events"} -> SourceRows(q)
      [] m = "human_pageviews" -> People(SourceRows(q))
      [] m = "bot_pageviews" -> Robots(SourceRows(q))
      [] m = "visits" -> {e \in Keyed(SourceRows(q)) : e \in Opens(Keyed(Of(q, KeyOf(e, q))))}
Counts == Additive \cup {"visits"}

LEMMA FiguresAreOfTheDataset ==
    ASSUME NEW q, GoodSpec(q), NEW m \in ToSet(q.metrics)
    PROVE  /\ m = "pageviews" => q.dataset = "pageviews"
           /\ m = "events" => q.dataset # "pageviews"
           /\ m \in Metrics
<1>1. m \in Metrics
    BY DEF GoodSpec, ToSet
<1> QED BY <1>1 DEF GoodSpec, PageMetricNames

LEMMA RowsAlike ==
    ASSUME NEW q, GoodSpec(q), ~Overlapping(q), NEW r
    PROVE  /\ Of(q, KeyOf(r, q)) = {a \in SourceRows(q) : KeyOf(a, q) = KeyOf(r, q)}
           /\ InRow(q, KeyOf(r, q), BucketOf(r.at, q)) =
                 {a \in SourceRows(q) : KeyOf(a, q) = KeyOf(r, q) /\ BucketOf(a.at, q) = BucketOf(r.at, q)}
<1>1. \A a : Keys(a, q) = {KeyOf(a, q)}
    BY KeysAreOne
<1>2. Of(q, KeyOf(r, q)) = {a \in SourceRows(q) : KeyOf(a, q) = KeyOf(r, q)}
    BY <1>1 DEF Of
<1> QED BY <1>2 DEF InRow

LEMMA FiguresOfRows ==
    ASSUME TableInv, NEW q, GoodSpec(q), ~Overlapping(q), NEW r \in SourceRows(q),
           NEW m, m \in ToSet(q.metrics), m \in Counts, m # "visits" \/ Lost(SourceRows(q)) = {}
    PROVE  Printed(q, KeyOf(r, q), BucketOf(r.at, q)).values[m] = Cardinality(AlikeIn(CountedRows(q, m), r, q))
<1> DEFINE S == SourceRows(q)
           k == KeyOf(r, q)
           b == BucketOf(r.at, q)
           R == InRow(q, k, b)
           A == CountedRows(q, m)
           B == AlikeIn(A, r, q)
           row == Printed(q, k, b)
           v == Plain(q, k, b).values[m]
<1> SUFFICES row.values[m] = Cardinality(B)
    OBVIOUS
<1>1. /\ R = {a \in S : KeyOf(a, q) = k /\ BucketOf(a.at, q) = b} /\ Of(q, k) = {a \in S : KeyOf(a, q) = k}
      /\ B = {a \in A : KeyOf(a, q) = k /\ BucketOf(a.at, q) = b}
    BY RowsAlike DEF AlikeIn
<1>2. row.values[m] = v
    <2>1. ASSUME m \in KeyMetrics PROVE row.missing = 0
        <3>2. m = "visits"
            BY <2>1 DEF Counts, Additive, KeyMetrics
        <3>3. Lost(R) = {}
            BY <1>1, <3>2 DEF Lost, Keyed
        <3>4. row.missing = Cardinality(Lost(R))
            BY <2>1, PrintedFigures
        <3> QED BY <3>3, <3>4, FS_EmptySet
    <2> HIDE DEF row, k, b, v
    <2>2. row.values[m] = IF row.missing > 0 /\ m \in KeyMetrics THEN Null ELSE Plain(q, k, b).values[m]
        BY PrintedFigures DEF row
    <2> QED BY <2>1, <2>2 DEF v
<1>3. ASSUME m \in {"pageviews", "events"} PROVE v = Cardinality(B)
    <2>1. B = R
        BY <1>1, <1>3 DEF CountedRows
    <2>2. v = Cardinality(R)
        BY <1>3, FiguresAreOfTheDataset, PlainFigures
    <2> QED BY <2>1, <2>2, Zenon
<1>4. ASSUME m = "human_pageviews" PROVE v = Cardinality(B)
    <2>1. B = People(R)
        BY <1>1, <1>4 DEF CountedRows, People
    <2>2. v = Cardinality(People(R))
        BY <1>4, PlainFigures
    <2> QED BY <2>1, <2>2, Zenon
<1>5. ASSUME m = "bot_pageviews" PROVE v = Cardinality(B)
    <2>1. B = Robots(R)
        BY <1>1, <1>5 DEF CountedRows, Robots
    <2>2. v = Cardinality(Robots(R))
        BY <1>5, PlainFigures
    <2> QED BY <2>1, <2>2, Zenon
<1>6. ASSUME m = "visits" PROVE v = Cardinality(B)
    <2>1. v = Cardinality(OpenedIn(q, k, b))
        BY <1>6, PlainFigures
    <2>2. A = {e \in Keyed(S) : e \in Opens(Keyed(Of(q, KeyOf(e, q))))}
        BY <1>6 DEF CountedRows
    <2>3. B = OpenedIn(q, k, b)
        <3>1. Opens(Keyed(Of(q, k))) \subseteq Keyed(S) /\ \A e \in Opens(Keyed(Of(q, k))) : KeyOf(e, q) = k
            BY <1>1 DEF Opens, Keyed
        <3>2. B = {a \in A : KeyOf(a, q) = k /\ BucketOf(a.at, q) = b}
            BY <1>1
        <3> HIDE DEF S, k, b, A, B
        <3>3. \A e : e \in B <=> e \in Opens(Keyed(Of(q, k))) /\ BucketOf(e.at, q) = b
            BY <2>2, <3>1, <3>2
        <3> QED BY <3>3 DEF OpenedIn
    <2> QED BY <2>1, <2>3, Zenon
<1>7. v = Cardinality(B)
    BY <1>3, <1>4, <1>5, <1>6 DEF Counts, Additive
<1> QED BY <1>2, <1>7

\* What rows count adds up to what all of them count.
LEMMA CountsSumUp ==
    ASSUME TableInv, NEW q, GoodSpec(q), ~Overlapping(q), q.operation # "totals",
           NEW m, m \in ToSet(q.metrics), m \in Counts, m # "visits" \/ Lost(SourceRows(q)) = {}
    PROVE  SumRows(Aggregate(q).rows, m) = Cardinality(CountedRows(q, m))
<1>1. CountedRows(q, m) \in SUBSET SourceRows(q)
    BY DEF CountedRows, Counts, Additive, People, Robots, Keyed
<1>2. ASSUME NEW r \in SourceRows(q) PROVE PrintedFor(q)[r].values[m] = Cardinality(AlikeIn(CountedRows(q, m), r, q))
    <2>1. PrintedFor(q)[r] = Printed(q, KeyOf(r, q), BucketOf(r.at, q))
        BY RowsArePrinted
    <2>2. Printed(q, KeyOf(r, q), BucketOf(r.at, q)).values[m] = Cardinality(AlikeIn(CountedRows(q, m), r, q))
        BY FiguresOfRows, Zenon
    <2> QED BY <2>1, <2>2, Zenon
<1> DEFINE A == CountedRows(q, m)
<1>3. \A r \in SourceRows(q) : PrintedFor(q)[r].values[m] = Cardinality(AlikeIn(A, r, q))
    BY <1>2, Zenon
<1>4. A \in SUBSET SourceRows(q)
    BY <1>1
<1> HIDE DEF A
<1>5. SumRows(Aggregate(q).rows, m) = Cardinality(A)
    BY <1>3, <1>4, RowsCountOnce
<1> QED BY <1>5 DEF A

\* The one row of a total counts everything.
LEMMA TotalIsOneRow ==
    ASSUME TableInv, NEW q, GoodSpec(q), q.operation = "totals"
    PROVE  /\ Aggregate(q).rows = {Printed(q, << >>, Null)}
           /\ TotalOf(Aggregate(q)) = Printed(q, << >>, Null).values
           /\ Of(q, << >>) = SourceRows(q) /\ InRow(q, << >>, Null) = SourceRows(q)
           /\ OpenedIn(q, << >>, Null) = Opens(Keyed(SourceRows(q)))
           /\ ~Overlapping(q) /\ \A r : KeyOf(r, q) = << >> /\ BucketOf(r.at, q) = Null
<1>1. q.dimensions = << >> /\ q.granularity = Null /\ Len(q.dimensions) = 0
    BY DEF GoodSpec
<1>2. ~Overlapping(q)
    BY <1>1 DEF Overlapping, ToSet
<1>3. \A r : KeyOf(r, q) = << >> /\ BucketOf(r.at, q) = Null
    BY <1>1 DEF KeyOf, BucketOf
<1>4. \A r : Keys(r, q) = {<< >>}
    BY <1>2, <1>3, KeysAreOne
<1>5. Of(q, << >>) = SourceRows(q)
    BY <1>4 DEF Of
<1>6. InRow(q, << >>, Null) = SourceRows(q)
    BY <1>3, <1>5 DEF InRow
<1>7. OpenedIn(q, << >>, Null) = Opens(Keyed(SourceRows(q)))
    BY <1>3, <1>5 DEF OpenedIn
<1>8. AggregateRows(q) = {Plain(q, << >>, Null)}
    BY DEF AggregateRows, Plain
<1>9. Aggregate(q).rows = {Printed(q, << >>, Null)}
    <2>1. Aggregate(q).rows = {Shaped(row, q) : row \in AggregateRows(q)}
        BY DEF Aggregate
    <2> QED BY <1>8, <2>1 DEF Printed
<1>10. TotalOf(Aggregate(q)) = Printed(q, << >>, Null).values
    BY <1>9 DEF TotalOf
<1> QED BY <1>2, <1>3, <1>5, <1>6, <1>7, <1>9, <1>10

DurationOf(V) == SumOf([e \in Opens(V) |-> Length(V, e)])

LEMMA TotalFigures ==
    ASSUME TableInv, NEW q, GoodSpec(q), q.operation = "totals", NEW m \in ToSet(q.metrics)
    PROVE  LET S == SourceRows(q)
               v == TotalOf(Aggregate(q))[m]
           IN  /\ m \in Additive => v = Cardinality(CountedRows(q, m))
               /\ m \in KeyMetrics /\ v # Null => Lost(S) = {}
               /\ m = "visits" /\ v # Null => v = Cardinality(Opens(Keyed(S)))
               /\ m = "total_duration" /\ v # Null => v = DurationOf(Keyed(S))
<1> DEFINE S == SourceRows(q)
           row == Printed(q, << >>, Null)
           p == Plain(q, << >>, Null).values[m]
           v == TotalOf(Aggregate(q))[m]
<1> SUFFICES /\ m \in Additive => v = Cardinality(CountedRows(q, m))
             /\ m \in KeyMetrics /\ v # Null => Lost(S) = {}
             /\ m = "visits" /\ v # Null => v = Cardinality(Opens(Keyed(S)))
             /\ m = "total_duration" /\ v # Null => v = DurationOf(Keyed(S))
    OBVIOUS
<1>1. v = row.values[m] /\ InRow(q, << >>, Null) = S /\ Of(q, << >>) = S
      /\ OpenedIn(q, << >>, Null) = Opens(Keyed(S))
    BY TotalIsOneRow
<1>2. /\ row.missing \in Nat
      /\ row.values[m] = IF row.missing > 0 /\ m \in KeyMetrics THEN Null ELSE p
    BY PrintedFigures
<1>3. m \in KeyMetrics => row.missing = Cardinality(Lost(S))
    <2>1. m \in KeyMetrics => row.missing = Cardinality(Lost(InRow(q, << >>, Null)))
        BY PrintedFigures
    <2> QED BY <1>1, <2>1
<1>4. IsFiniteSet(Lost(S))
    <2>1. Lost(S) \in SUBSET table
        BY DEF Lost, SourceRows
    <2> QED BY <2>1, PartsAreFinite
<1> HIDE DEF row, v
<1>5. m \in KeyMetrics /\ v # Null => Lost(S) = {} /\ v = p
    <2> HIDE DEF p, S
    <2> QED BY <1>1, <1>2, <1>3, <1>4, FS_EmptySet
<1>6. m = "visits" => p = Cardinality(Opens(Keyed(S)))
    BY <1>1, PlainFigures
<1>7. m = "total_duration" => p = DurationOf(Keyed(S))
    <2>1. m = "total_duration" => p = SumOf(LengthsIn(q, << >>, Null))
        BY PlainFigures
    <2>2. LengthsIn(q, << >>, Null) = [e \in Opens(Keyed(S)) |-> Length(Keyed(S), e)]
        BY <1>1 DEF LengthsIn
    <2> QED BY <2>1, <2>2 DEF DurationOf
<1>8. m \in Additive => v = Cardinality(CountedRows(q, m))
    <2>1. m \in Additive => v = p
        BY <1>1, <1>2 DEF Additive, KeyMetrics
    <2>2. m \in {"pageviews", "events"} => p = Cardinality(S) /\ CountedRows(q, m) = S
        <3>1. m \in {"pageviews", "events"} => p = Cardinality(InRow(q, << >>, Null))
            BY FiguresAreOfTheDataset, PlainFigures
        <3>2. m \in {"pageviews", "events"} => CountedRows(q, m) = S
            BY DEF CountedRows
        <3> QED BY <1>1, <3>1, <3>2
    <2>3. m = "human_pageviews" => p = Cardinality(People(S)) /\ CountedRows(q, m) = People(S)
        BY <1>1, PlainFigures DEF CountedRows
    <2>4. m = "bot_pageviews" => p = Cardinality(Robots(S)) /\ CountedRows(q, m) = Robots(S)
        BY <1>1, PlainFigures DEF CountedRows
    <2> HIDE DEF p, S
    <2> QED BY <2>1, <2>2, <2>3, <2>4 DEF Additive
<1> QED BY <1>5, <1>6, <1>7, <1>8 DEF KeyMetrics

LEMMA TotalsOfASpec ==
    ASSUME NEW q, GoodSpec(q)
    PROVE  /\ GoodSpec(TotalsSpec(q)) /\ TotalsSpec(q).operation = "totals"
           /\ SourceRows(TotalsSpec(q)) = SourceRows(q) /\ TotalsSpec(q).metrics = q.metrics
<1>1. /\ GoodSpec(TotalsSpec(q)) /\ TotalsSpec(q).operation = "totals" /\ TotalsSpec(q).metrics = q.metrics
      /\ TotalsSpec(q).range = q.range /\ TotalsSpec(q).dataset = q.dataset /\ TotalsSpec(q).groups = q.groups
    BY DEF GoodSpec, TotalsSpec, SpecFields
<1> QED BY <1>1 DEF SourceRows

LEMMA TotalsOfAMetric ==
    ASSUME NEW q, GoodSpec(q), NEW m, q.metrics = <<m>>, NEW range
    PROVE  /\ GoodSpec(MetricTotal(q, range, m)) /\ MetricTotal(q, range, m).operation = "totals"
           /\ SourceRows(MetricTotal(q, range, m)) = SourceRows([q EXCEPT !.range = range])
           /\ MetricTotal(q, range, m).metrics = <<m>>
           /\ GoodSpec([q EXCEPT !.range = range])
<1> DEFINE t == MetricTotal(q, range, m)
           p == [q EXCEPT !.range = range]
<1>1. GoodSpec(TotalsSpec(q)) /\ TotalsSpec(q).operation = "totals" /\ TotalsSpec(q).metrics = q.metrics
      /\ TotalsSpec(q).dataset = q.dataset /\ TotalsSpec(q).groups = q.groups
    BY TotalsOfASpec DEF GoodSpec, TotalsSpec, SpecFields
<1>2. /\ GoodSpec(t) /\ t.operation = "totals" /\ t.metrics = <<m>>
      /\ t.range = range /\ t.dataset = q.dataset /\ t.groups = q.groups
    BY <1>1 DEF GoodSpec, MetricTotal, SpecFields
<1>3. GoodSpec(p) /\ p.range = range /\ p.dataset = q.dataset /\ p.groups = q.groups
    BY DEF GoodSpec, SpecFields
<1> HIDE DEF t, p
<1>4. SourceRows(t) = SourceRows(p)
    BY <1>2, <1>3 DEF SourceRows
<1> QED BY <1>2, <1>3, <1>4 DEF t, p

\* Every figure of a row is a number before those that need keys are withheld.
LEMMA OpenedLengths ==
    ASSUME TableInv, NEW q, NEW k, NEW b
    PROVE  LET V == Keyed(Of(q, k))
               E == OpenedIn(q, k, b)
               L == [e \in Opens(V) |-> Length(V, e)]
           IN  /\ SumOf(LengthsIn(q, k, b)) = SumFunctionOnSet(L, E)
               /\ SumOf(LengthsIn(q, k, b)) \in Nat
               /\ SumOf(LengthsIn(q, k, b)) <= DurationOf(V)
<1> DEFINE V == Keyed(Of(q, k))
           E == OpenedIn(q, k, b)
           L == [e \in Opens(V) |-> Length(V, e)]
           l == LengthsIn(q, k, b)
           O == Opens(V)
<1> SUFFICES SumOf(l) = SumFunctionOnSet(L, E) /\ SumOf(l) \in Nat /\ SumOf(l) <= DurationOf(V)
    OBVIOUS
<1>1. V \in SUBSET table /\ O \in SUBSET V /\ E \in SUBSET O
    BY DEF Of, Keyed, SourceRows, Opens, OpenedIn
<1>2. IsFiniteSet(O) /\ IsFiniteSet(E)
    <2> HIDE DEF V, O, E
    <2>1. O \in SUBSET table /\ E \in SUBSET table
        BY <1>1
    <2> QED BY <2>1, PartsAreFinite
<1>3. \A e \in O : L[e] = Length(V, e) /\ L[e] \in Nat
    <2>1. \A e \in V : Length(V, e) \in Nat
        BY <1>1, LengthIsLasting
    <2> QED BY <1>1, <2>1
<1>4. DOMAIN l = E /\ \A e \in E : l[e] = L[e]
    BY <1>1 DEF LengthsIn
<1>5. DurationOf(V) = SumFunctionOnSet(L, O)
    <2>1. DOMAIN L = O
        OBVIOUS
    <2>2. DurationOf(V) = SumFunction(L)
        BY Zenon DEF DurationOf, SumOf
    <2> HIDE DEF L, O
    <2> QED BY <2>1, <2>2, Zenon DEF SumFunction
<1>6. SumOf(l) = SumFunctionOnSet(l, E)
    <2> HIDE DEF l, E
    <2> QED BY <1>4, Zenon DEF SumFunction, SumOf
<1> HIDE DEF L, O, E, l, V
<1>7. SumFunctionOnSet(l, E) = SumFunctionOnSet(L, E)
    <2>1. Adds(l, E)
        BY <1>1, <1>3, <1>4 DEF Adds
    <2> QED BY <1>2, <1>4, <2>1, SumOfSame
<1>8. SumFunctionOnSet(L, E) <= SumFunctionOnSet(L, O) /\ SumFunctionOnSet(L, E) \in Nat
    BY <1>1, <1>2, <1>3, SumOfPart
<1> QED BY <1>5, <1>6, <1>7, <1>8

LEMMA PlainNumbers ==
    ASSUME TableInv, NEW q, GoodSpec(q), NEW m \in ToSet(q.metrics), NEW k, NEW b
    PROVE  Plain(q, k, b).values[m] \in Nat
<1> DEFINE R == InRow(q, k, b)
           p == Plain(q, k, b).values[m]
<1>1. \A A \in SUBSET table : Cardinality(A) \in Nat /\ IsFiniteSet(A)
    BY PartsAreFinite
<1>2. /\ R \in SUBSET table /\ People(R) \in SUBSET table /\ Robots(R) \in SUBSET table
      /\ OpenedIn(q, k, b) \in SUBSET table /\ BouncedIn(q, k, b) \in SUBSET table /\ Keyed(R) \in SUBSET table
    BY DEF InRow, Of, Keyed, SourceRows, Opens, OpenedIn, BouncedIn, People, Robots
<1>3. Cardinality(DayKeys(R)) \in Nat
    <2> DEFINE K == Keyed(R)
               g == [r \in K |-> <<r.at \div Bucket["day"], r.key>>]
    <2>1. DayKeys(R) = {g[r] : r \in K}
        BY DEF DayKeys
    <2>2. IsFiniteSet(K)
        BY <1>1, <1>2
    <2> HIDE DEF g, K
    <2>3. Cardinality({g[r] : r \in K}) \in Nat
        BY <2>2, ImageIsFinite
    <2> QED BY <2>1, <2>3, Zenon
<1>4. SumOf(LengthsIn(q, k, b)) \in Nat
    BY OpenedLengths
<1>5. m \in {"pageviews", "events"} => p = Cardinality(R)
    BY FiguresAreOfTheDataset, PlainFigures
<1>6. /\ m = "human_pageviews" => p = Cardinality(People(R))
      /\ m = "bot_pageviews" => p = Cardinality(Robots(R))
      /\ m = "daily_unique_visitors" => p = Cardinality(DayKeys(R))
      /\ m = "visits" => p = Cardinality(OpenedIn(q, k, b))
      /\ m = "bounces" => p = Cardinality(BouncedIn(q, k, b))
      /\ m = "total_duration" => p = SumOf(LengthsIn(q, k, b))
    BY PlainFigures
<1>7. m \in {"pageviews", "events", "human_pageviews", "bot_pageviews", "daily_unique_visitors", "visits",
             "bounces", "total_duration"}
    BY FiguresAreOfTheDataset DEF Metrics, PageMetricNames, KeyMetrics
<1> HIDE DEF p, R
<1>8. p \in Nat
    BY <1>1, <1>2, <1>3, <1>4, <1>5, <1>6, <1>7
<1> QED BY <1>8 DEF p

\* When no key is lost all figures of all rows are shown.
LEMMA RowsShow ==
    ASSUME TableInv, NEW q, GoodSpec(q), NEW m \in ToSet(q.metrics), NEW k, NEW b,
           m \notin KeyMetrics \/ Lost(SourceRows(q)) = {}
    PROVE  /\ Printed(q, k, b).values[m] = Plain(q, k, b).values[m]
           /\ Printed(q, k, b).values[m] \in Nat
<1>1. Printed(q, k, b).values[m] =
        IF Printed(q, k, b).missing > 0 /\ m \in KeyMetrics THEN Null ELSE Plain(q, k, b).values[m]
    BY PrintedFigures
<1>2. m \in KeyMetrics => Printed(q, k, b).missing = Cardinality(Lost(InRow(q, k, b)))
    BY PrintedFigures
<1>3. InRow(q, k, b) \subseteq SourceRows(q)
    BY DEF InRow, Of
<1>4. m \in KeyMetrics => Lost(InRow(q, k, b)) = {}
    BY <1>3 DEF Lost, Keyed
<1>5. m \in KeyMetrics => Printed(q, k, b).missing = 0
    BY <1>2, <1>4, FS_EmptySet
<1> QED BY <1>1, <1>5, PlainNumbers

LEMMA DurationsFit ==
    ASSUME TableInv, NEW q, GoodSpec(q), "total_duration" \in ToSet(q.metrics), NEW k, NEW b,
           Lost(SourceRows(q)) = {}
    PROVE  Printed(q, k, b).values["total_duration"] <= DurationOf(Keyed(SourceRows(q)))
<1> DEFINE V == Keyed(Of(q, k))
           W == Keyed(SourceRows(q))
<1>1. Printed(q, k, b).values["total_duration"] = SumOf(LengthsIn(q, k, b))
    BY RowsShow, PlainFigures
<1>2. SumOf(LengthsIn(q, k, b)) \in Nat /\ SumOf(LengthsIn(q, k, b)) <= DurationOf(V)
    BY OpenedLengths
<1>3. W \in SUBSET table /\ V \in SUBSET W
    BY DEF Keyed, Of, SourceRows
<1> HIDE DEF V, W
<1>4. DurationOf(V) <= DurationOf(W)
    <2>1. SumOf([e \in Opens(V) |-> Length(V, e)]) <= SumOf([e \in Opens(W) |-> Length(W, e)])
        BY <1>3, FewerLastNoLonger
    <2> QED BY <2>1, Zenon DEF DurationOf
<1>5. DurationOf(V) \in Int /\ DurationOf(W) \in Int
    <2>1. \A X \in SUBSET table : DurationOf(X) \in Int
        <3> TAKE X \in SUBSET table
        <3>1. DurationOf(X) = Cardinality(Rows(Lasted(X), Opens(X))) /\ IsFiniteSet(Rows(Lasted(X), Opens(X)))
            BY LengthsAddUp DEF DurationOf
        <3> QED BY <3>1, FS_CardinalityType
    <2>2. V \in SUBSET table
        BY <1>3
    <2> QED BY <1>3, <2>1, <2>2
<1> QED BY <1>1, <1>2, <1>4, <1>5 DEF W

\* A sum over the rows of an answer.
LEMMA SumRowsIs ==
    ASSUME NEW K, NEW m
    PROVE  SumRows(K, m) = SumFunctionOnSet([row \in K |-> row.values[m]], K)
<1> DEFINE c == [row \in K |-> row.values[m]]
<1>1. DOMAIN c = K
    OBVIOUS
<1>2. SumRows(K, m) = SumFunction(c)
    BY Zenon DEF SumRows, SumOf
<1> HIDE DEF c
<1>3. SumRows(K, m) = SumFunctionOnSet(c, K)
    BY <1>1, <1>2, Zenon DEF SumFunction
<1> QED BY <1>3 DEF c

LEMMA SumOfOneRow ==
    ASSUME NEW row, NEW m, row.values[m] \in Int
    PROVE  SumRows({row}, m) = row.values[m]
<1> DEFINE c == [r \in {row} |-> r.values[m]]
<1>1. SumRows({row}, m) = SumFunctionOnSet(c, {row})
    BY SumRowsIs
<1>2. c[row] = row.values[m]
    OBVIOUS
<1> HIDE DEF c
<1> QED BY <1>1, <1>2, SumOfOne

\* In a series without dimensions all rows have one key, and each visit is in
\* the bucket it opens in.
LEMMA DurationsSumUp ==
    ASSUME TableInv, NEW q, GoodSpec(q), q.operation # "totals", q.dimensions = << >>,
           "total_duration" \in ToSet(q.metrics), Lost(SourceRows(q)) = {}
    PROVE  SumRows(Aggregate(q).rows, "total_duration") = DurationOf(Keyed(SourceRows(q)))
<1> DEFINE S == SourceRows(q)
           V == Keyed(S)
           O == Opens(V)
           f == PrintedFor(q)
           K == Aggregate(q).rows
           c == [row \in K |-> row.values["total_duration"]]
           w == [e \in O |-> Length(V, e)]
<1>1. ~Overlapping(q) /\ \A r : KeyOf(r, q) = << >>
    BY DEF Overlapping, ToSet, KeyOf
<1>2. /\ K = {f[r] : r \in S} /\ IsFiniteSet(K)
      /\ \A r \in S : f[r] = Printed(q, << >>, BucketOf(r.at, q))
      /\ \A r, s \in S : f[r] = f[s] <=> BucketOf(r.at, q) = BucketOf(s.at, q)
    BY <1>1, RowsArePrinted
<1>3. Of(q, << >>) = S
    <2>1. \A r : Keys(r, q) = {<< >>}
        BY <1>1, KeysAreOne
    <2> QED BY <2>1 DEF Of
<1>4. O \in SUBSET S /\ V \in SUBSET table /\ O \in SUBSET table
    BY DEF Opens, Keyed, SourceRows
<1>5. \A e \in O : w[e] = Length(V, e) /\ w[e] \in Nat
    <2>1. \A e \in V : Length(V, e) \in Nat
        BY <1>4, LengthIsLasting
    <2> QED BY <2>1 DEF Opens
<1>6. IsFiniteSet(O)
    <2> HIDE DEF O
    <2> QED BY <1>4, PartsAreFinite
<1>7. SumRows(K, "total_duration") = SumFunctionOnSet(c, K)
    BY SumRowsIs
<1>8. DurationOf(V) = SumFunctionOnSet(w, O)
    <2>1. DOMAIN w = O
        OBVIOUS
    <2>2. DurationOf(V) = SumFunction(w)
        BY Zenon DEF DurationOf, SumOf
    <2> HIDE DEF w, O
    <2> QED BY <2>1, <2>2, Zenon DEF SumFunction
<1>9. ASSUME NEW k \in K PROVE c[k] = SumFunctionOnSet(w, With(O, f, k))
    <2>1. PICK r \in S : k = f[r]
        BY <1>2
    <2> DEFINE b == BucketOf(r.at, q)
               E == OpenedIn(q, << >>, b)
    <2>2. Printed(q, << >>, b).values["total_duration"] = SumOf(LengthsIn(q, << >>, b))
        BY RowsShow, PlainFigures
    <2>3. c[k] = SumOf(LengthsIn(q, << >>, b))
        BY <1>2, <2>1, <2>2
    <2>4. E = {e \in O : BucketOf(e.at, q) = b}
        BY <1>3 DEF OpenedIn
    <2>5. With(O, f, k) = E
        BY <1>2, <1>4, <2>1, <2>4 DEF With
    <2>6. SumOf(LengthsIn(q, << >>, b)) = SumFunctionOnSet(w, E)
        <3>1. SumOf(LengthsIn(q, << >>, b)) =
                SumFunctionOnSet([e \in Opens(Keyed(Of(q, << >>))) |-> Length(Keyed(Of(q, << >>)), e)], E)
            BY OpenedLengths
        <3> QED BY <1>3, <3>1, Zenon
    <2> QED BY <2>3, <2>5, <2>6, Zenon
<1>10. Adds(w, O) /\ \A r \in O : f[r] \in K
    BY <1>2, <1>4, <1>5 DEF Adds
<1> HIDE DEF S, V, O, f, K, c, w
<1>11. SumFunctionOnSet(c, K) = SumFunctionOnSet(w, O)
    BY <1>2, <1>6, <1>9, <1>10, SumsByValue
<1> QED BY <1>7, <1>8, <1>11 DEF S, V, O, f, K, c, w

\* Splitting rows by their keys splits visits, but loses none.
LEMMA VisitsOnlySplit ==
    ASSUME TableInv, NEW q, GoodSpec(q), ~Overlapping(q)
    PROVE  /\ Cardinality(Opens(Keyed(SourceRows(q)))) <= Cardinality(CountedRows(q, "visits"))
           /\ Cardinality(Opens(Keyed(SourceRows(q)))) \in Nat /\ Cardinality(CountedRows(q, "visits")) \in Nat
           /\ q.dimensions = << >> => CountedRows(q, "visits") = Opens(Keyed(SourceRows(q)))
<1> DEFINE S == SourceRows(q)
           O == Opens(Keyed(S))
           A == CountedRows(q, "visits")
<1>1. A = {e \in Keyed(S) : e \in Opens(Keyed(Of(q, KeyOf(e, q))))}
    BY DEF CountedRows
<1>2. \A e \in S : e \in Of(q, KeyOf(e, q)) /\ Of(q, KeyOf(e, q)) \subseteq S
    BY RowsAlike DEF Of
<1>3. O \subseteq A
    BY <1>1, <1>2 DEF Opens, Keyed, Continued
<1>4. A \in SUBSET table /\ O \in SUBSET A
    BY <1>1, <1>3 DEF Keyed, SourceRows
<1>5. ASSUME q.dimensions = << >> PROVE A = O
    <2>1. \A r : KeyOf(r, q) = << >>
        BY <1>5 DEF KeyOf
    <2>2. \A r : Keys(r, q) = {<< >>}
        BY <2>1, KeysAreOne
    <2>3. Of(q, << >>) = S
        BY <2>2 DEF Of
    <2> QED BY <1>1, <2>1, <2>3 DEF Opens
<1> HIDE DEF A, O
<1>6. Cardinality(O) <= Cardinality(A) /\ Cardinality(O) \in Nat /\ Cardinality(A) \in Nat
    BY <1>4, PartsAreFinite
<1> QED BY <1>5, <1>6 DEF A, O

NoFilter == [filters |-> {}, bots |-> [reasons |-> {}, countries |-> {}]]

LEMMA UnfilteredIsThePages ==
    ASSUME TableInv, NEW q, q.dataset = "pageviews", q.groups = {}, q.range \in [start : Int, end : Int]
    PROVE  PageviewCount(NoFilter, [q.range EXCEPT !.end = @ - 1]) = Cardinality(SourceRows(q))
<1> DEFINE s == [q.range EXCEPT !.end = @ - 1]
           A == SqlRows(NoFilter, s, 1)
<1>1. /\ s.start = q.range.start /\ s.end = q.range.end - 1 /\ q.range.start \in Int /\ q.range.end \in Int
      /\ \A r \in table : r.at \in Int
    BY PartsAreFinite
<1>2. \A r \in table : SqlSelects(r, NoFilter)
    <2> TAKE r \in table
    <2>1. ParseFilters(NoFilter.filters) = {}
        BY DEF ParseFilters, NoFilter
    <2>2. BotsExcluded(r, NoFilter.bots)
        BY DEF BotsExcluded, NoFilter
    <2> QED BY <2>1, <2>2 DEF SqlSelects
<1> HIDE DEF s
<1>3. A = SourceRows(q)
    BY <1>1, <1>2 DEF SqlRows, SourceRows
<1> QED BY <1>3, Zenon DEF PageviewCount, s

\* What is not longer than the limit is not cut.
LEMMA WholeIsAll ==
    ASSUME NEW S, IsFiniteSet(S), NEW T \in SUBSET S, NEW n \in Nat, Cardinality(S) <= n,
           Cardinality(T) = (IF Cardinality(S) < n THEN Cardinality(S) ELSE n)
    PROVE  T = S
<1>1. Cardinality(S) \in Nat
    BY FS_CardinalityType
<1>2. Cardinality(T) = Cardinality(S)
    BY <1>1
<1> QED BY <1>2, FS_Subset

LEMMA NothingIsCut ==
    ASSUME NEW q, GoodSpec(q), NEW rows, IsFiniteSet(rows), ~Truncated(rows, q), NEW shown \in LimitRows(rows, q)
    PROVE  shown = rows
<1>1. q.limit \in Nat /\ Cardinality(rows) \in Nat
    BY FS_CardinalityType DEF GoodSpec
<1>2. CASE q.operation = "totals"
    BY <1>2 DEF LimitRows
<1>3. CASE q.operation = "breakdown"
    <2>1. /\ shown \in SUBSET rows
          /\ Cardinality(shown) = (IF Cardinality(rows) < q.limit THEN Cardinality(rows) ELSE q.limit)
        BY <1>3 DEF LimitRows, Leading
    <2>2. Cardinality(rows) <= q.limit
        BY <1>1, <1>3 DEF Truncated
    <2> QED BY <1>1, <2>1, <2>2, WholeIsAll
<1>4. CASE q.operation = "timeseries" /\ q.dimensions = << >>
    BY <1>4 DEF LimitRows
<1>5. CASE q.operation = "timeseries" /\ q.dimensions # << >>
    <2> DEFINE keys == {row.key : row \in rows}
               key == [row \in rows |-> row.key]
    <2>1. PICK K \in SUBSET (DOMAIN Ranking(rows, q)) :
             /\ shown = {row \in rows : row.key \in K}
             /\ Cardinality(K) = (IF Cardinality(DOMAIN Ranking(rows, q)) < q.limit
                                  THEN Cardinality(DOMAIN Ranking(rows, q)) ELSE q.limit)
        BY <1>5 DEF LimitRows, Leading
    <2>2. DOMAIN Ranking(rows, q) = keys
        BY DEF Ranking
    <2>3. keys = {key[row] : row \in rows}
        OBVIOUS
    <2>4. IsFiniteSet(keys) /\ Cardinality(keys) \in Nat
        <3> HIDE DEF key
        <3>1. IsFiniteSet({key[row] : row \in rows}) /\ Cardinality({key[row] : row \in rows}) \in Nat
            BY ImageIsFinite
        <3> QED BY <2>3, <3>1, Zenon
    <2>5. Cardinality(keys) <= q.limit
        BY <1>1, <1>5, <2>4 DEF Truncated
    <2>6. K \in SUBSET keys /\ Cardinality(K) = (IF Cardinality(keys) < q.limit THEN Cardinality(keys) ELSE q.limit)
        BY <2>1, <2>2, Zenon
    <2>7. K = keys
        <3> HIDE DEF keys
        <3> QED BY <1>1, <2>4, <2>5, <2>6, WholeIsAll
    <2> QED BY <2>1, <2>7
<1> QED BY <1>2, <1>3, <1>4, <1>5 DEF GoodSpec

LEMMA AnswersAreFinite ==
    ASSUME TableInv, NEW q, GoodSpec(q), ~Overlapping(q)
    PROVE  IsFiniteSet(Aggregate(q).rows)
<1>1. CASE q.operation = "totals"
    BY <1>1, TotalIsOneRow, FS_Singleton
<1>2. CASE q.operation # "totals"
    BY <1>2, RowsArePrinted
<1> QED BY <1>1, <1>2

\* The total of a query, whichever statement read it.
Overall(q) == IF q.operation = "totals" THEN q ELSE TotalsSpec(q)

LEMMA OverallIsTotal ==
    ASSUME NEW q, GoodSpec(q)
    PROVE  /\ GoodSpec(Overall(q)) /\ Overall(q).operation = "totals" /\ Overall(q).metrics = q.metrics
           /\ SourceRows(Overall(q)) = SourceRows(q)
BY TotalsOfASpec DEF Overall

LEMMA CountsDoNotSplit ==
    ASSUME NEW q, NEW t, SourceRows(t) = SourceRows(q), NEW m \in Additive
    PROVE  CountedRows(t, m) = CountedRows(q, m)
BY DEF CountedRows, Additive

LEMMA QueriesAddUp ==
    ASSUME TableInv, NEW a, NEW q, a.spec = q, GoodSpec(q), q.range \in [start : Int, end : Int],
           a.stored = 0 => /\ a.totals = TotalOf(Aggregate(Overall(q)))
                           /\ ~a.truncated /\ ~Overlapping(q) => a.rows = Aggregate(q).rows
    PROVE  QueryAddsUp(a)
<1> DEFINE S == SourceRows(q)
           t == Overall(q)
           M == ToSet(q.metrics)
<1> SUFFICES ASSUME a.stored = 0 PROVE QueryAddsUp(a)
    BY DEF QueryAddsUp, Whole
<1>1. /\ GoodSpec(t) /\ t.operation = "totals" /\ t.metrics = q.metrics /\ SourceRows(t) = S
      /\ a.totals = TotalOf(Aggregate(t))
    BY OverallIsTotal
<1>2. \A m \in M :
         /\ m \in Additive => a.totals[m] = Cardinality(CountedRows(t, m)) /\ CountedRows(t, m) = CountedRows(q, m)
         /\ m \in KeyMetrics /\ a.totals[m] # Null => Lost(S) = {}
         /\ m = "visits" /\ a.totals[m] # Null => a.totals[m] = Cardinality(Opens(Keyed(S)))
         /\ m = "total_duration" /\ a.totals[m] # Null => a.totals[m] = DurationOf(Keyed(S))
    <2> TAKE m \in M
    <2> HIDE DEF t
    <2> QED BY <1>1, TotalFigures, CountsDoNotSplit
<1>3. ASSUME q.groups = {}, "pageviews" \in M
      PROVE  a.totals["pageviews"] = PageviewCount(NoFilter, [q.range EXCEPT !.end = @ - 1])
    <2>1. q.dataset = "pageviews"
        BY <1>3, FiguresAreOfTheDataset
    <2>2. a.totals["pageviews"] = Cardinality(CountedRows(q, "pageviews")) /\ CountedRows(q, "pageviews") = S
        <3>1. "pageviews" \in Additive
            BY DEF Additive
        <3>2. a.totals["pageviews"] = Cardinality(CountedRows(t, "pageviews"))
              /\ CountedRows(t, "pageviews") = CountedRows(q, "pageviews")
            BY <1>2, <1>3, <3>1
        <3>3. CountedRows(q, "pageviews") = S
            BY DEF CountedRows
        <3> QED BY <3>2, <3>3, Zenon
    <2>3. PageviewCount(NoFilter, [q.range EXCEPT !.end = @ - 1]) = Cardinality(S)
        BY <1>3, <2>1, UnfilteredIsThePages
    <2> QED BY <2>2, <2>3, Zenon
<1>4. ASSUME ~a.truncated, ~Overlapping(q), NEW i \in 1..Len(q.metrics)
      PROVE  LET m == q.metrics[i]
             IN  /\ m \in Additive => SumRows(a.rows, m) = a.totals[m]
                 /\ a.totals[m] # Null => Shown(a.rows, m)
                 /\ m = "visits" /\ a.totals[m] # Null => SumRows(a.rows, m) >= a.totals[m]
                 /\ m = "total_duration" /\ a.totals[m] # Null => \A row \in a.rows : row.values[m] <= a.totals[m]
                 /\ m \in {"visits", "total_duration"} /\ a.totals[m] # Null /\ q.dimensions = << >> =>
                       SumRows(a.rows, m) = a.totals[m]
    <2> DEFINE m == q.metrics[i]
               v == a.totals[m]
               whole == m \notin KeyMetrics \/ Lost(S) = {}
    <2> SUFFICES /\ m \in Additive => SumRows(a.rows, m) = v
                 /\ v # Null => Shown(a.rows, m)
                 /\ m = "visits" /\ v # Null => SumRows(a.rows, m) >= v
                 /\ m = "total_duration" /\ v # Null => \A row \in a.rows : row.values[m] <= v
                 /\ m \in {"visits", "total_duration"} /\ v # Null /\ q.dimensions = << >> =>
                       SumRows(a.rows, m) = v
        OBVIOUS
    <2>1. m \in M /\ a.rows = Aggregate(q).rows /\ Null \notin Int
        BY <1>4, ApiV1Assumption DEF ToSet, GoodSpec
    <2>2. v # Null => whole
        BY <1>2, <2>1
    <2>3. /\ m \in Additive => v = Cardinality(CountedRows(q, m)) /\ whole
          /\ m = "visits" /\ v # Null => v = Cardinality(Opens(Keyed(S))) /\ Lost(S) = {}
          /\ m = "total_duration" /\ v # Null => v = DurationOf(Keyed(S)) /\ Lost(S) = {}
        <3>1. m \in Additive => m \notin KeyMetrics
            BY DEF Additive, KeyMetrics
        <3>2. {"visits", "total_duration"} \subseteq KeyMetrics
            BY DEF KeyMetrics
        <3> HIDE DEF m, M, t, S
        <3> QED BY <1>2, <2>1, <3>1, <3>2
    <2>4. \A k, b : whole => Printed(q, k, b).values[m] \in Nat
        BY <2>1, RowsShow
    <2>5. CASE q.operation = "totals"
        <3> DEFINE row == Printed(q, << >>, Null)
        <3>1. a.rows = {row} /\ v = row.values[m]
            BY <1>1, <2>1, <2>5, TotalIsOneRow DEF Overall
        <3>2. whole => v \in Nat
            BY <2>4, <3>1
        <3>3. whole => SumRows(a.rows, m) = v
            <4> HIDE DEF row, m, v
            <4>1. ASSUME v \in Nat PROVE SumRows(a.rows, m) = v
                <5>1. SumRows({row}, m) = row.values[m]
                    BY <3>1, <4>1, SumOfOneRow
                <5> QED BY <3>1, <5>1, Zenon
            <4> QED BY <3>2, <4>1
        <3> HIDE DEF row, m, v, whole
        <3> QED BY <2>1, <2>2, <2>3, <3>1, <3>2, <3>3 DEF Shown
    <2>6. CASE q.operation # "totals"
        <3>1. \A row \in a.rows : \E k, b : row = Printed(q, k, b)
            BY <1>4, <2>1, <2>6, RowsArePrinted
        <3>2. v # Null => Shown(a.rows, m)
            <4> HIDE DEF m, v, whole
            <4> QED BY <2>1, <2>2, <2>4, <3>1 DEF Shown
        <3>3. m \in Additive => SumRows(a.rows, m) = v
            <4>1. ASSUME m \in Additive PROVE SumRows(Aggregate(q).rows, m) = Cardinality(CountedRows(q, m))
                <5>1. m \in Counts /\ m # "visits"
                    BY <4>1 DEF Counts, Additive
                <5> HIDE DEF m
                <5> QED BY <1>4, <2>1, <2>6, <5>1, CountsSumUp
            <4> HIDE DEF m, v
            <4> QED BY <2>1, <2>3, <4>1
        <3>4. m = "visits" /\ v # Null => SumRows(a.rows, m) = Cardinality(CountedRows(q, m))
            <4>1. ASSUME m = "visits", Lost(S) = {}
                  PROVE  SumRows(Aggregate(q).rows, m) = Cardinality(CountedRows(q, m))
                <5>1. m \in Counts
                    BY <4>1 DEF Counts
                <5> HIDE DEF m
                <5> QED BY <1>4, <2>1, <2>6, <4>1, <5>1, CountsSumUp
            <4> HIDE DEF m, v, S
            <4> QED BY <2>1, <2>3, <4>1
        <3>5. /\ m = "visits" /\ v # Null => SumRows(a.rows, m) >= v
              /\ m = "visits" /\ v # Null /\ q.dimensions = << >> => SumRows(a.rows, m) = v
            <4> DEFINE o == Cardinality(Opens(Keyed(S)))
                       c == Cardinality(CountedRows(q, "visits"))
            <4>1. o <= c /\ o \in Nat /\ c \in Nat /\ (q.dimensions = << >> => c = o)
                BY <1>4, VisitsOnlySplit
            <4>2. m = "visits" /\ v # Null => v = o /\ SumRows(a.rows, m) = c
                BY <2>3, <3>4
            <4> HIDE DEF o, c, m, v
            <4> QED BY <4>1, <4>2
        <3>6. m = "total_duration" /\ v # Null => \A row \in a.rows : row.values[m] <= v
            <4>1. ASSUME m = "total_duration", Lost(S) = {}, NEW k, NEW b
                  PROVE  Printed(q, k, b).values[m] <= DurationOf(Keyed(S))
                <5>1. "total_duration" \in M
                    BY <2>1, <4>1
                <5> QED BY <4>1, <5>1, DurationsFit
            <4> HIDE DEF m, v, S
            <4> QED BY <2>3, <3>1, <4>1
        <3>7. m = "total_duration" /\ v # Null /\ q.dimensions = << >> => SumRows(a.rows, m) = v
            <4>1. ASSUME m = "total_duration", Lost(S) = {}, q.dimensions = << >>
                  PROVE  SumRows(Aggregate(q).rows, m) = DurationOf(Keyed(S))
                <5>1. "total_duration" \in M
                    BY <2>1, <4>1
                <5> QED BY <2>6, <4>1, <5>1, DurationsSumUp
            <4> HIDE DEF m, v, S
            <4> QED BY <2>1, <2>3, <4>1
        <3> HIDE DEF m, v, S
        <3> QED BY <3>2, <3>3, <3>5, <3>6, <3>7
    <2> QED BY <2>5, <2>6
<1>5. NoFilter = [filters |-> {}, bots |-> [reasons |-> {}, countries |-> {}]]
    BY DEF NoFilter
<1> QED BY <1>3, <1>4, <1>5 DEF QueryAddsUp, Whole

-----------------------------------------------------------------------------
(* Comparisons.                                                                *)

\* A comparison has the rows of either period by key: a key that a period does
\* not have counts nothing there.
KeyFor(q) == [r \in SourceRows(q) |-> KeyOf(r, q)]
At(rows, k) == {row \in rows : row.key = k}
Figure(rows, k, m) == IF At(rows, k) = {} THEN 0 ELSE (CHOOSE row \in At(rows, k) : TRUE).values[m]

LEMMA FiguresByKey ==
    ASSUME TableInv, NEW q, GoodSpec(q), ~Overlapping(q), q.operation = "breakdown",
           NEW m \in ToSet(q.metrics), m \in Additive
    PROVE  /\ \A k : Figure(Aggregate(q).rows, k, m) = Cardinality(With(CountedRows(q, m), KeyFor(q), k))
           /\ \A k : Figure(Aggregate(q).rows, k, m) \in Nat
           /\ \A r \in CountedRows(q, m) : \E row \in Aggregate(q).rows : row.key = KeyFor(q)[r]
           /\ IsFiniteSet(CountedRows(q, m))
<1> DEFINE S == SourceRows(q)
           A == CountedRows(q, m)
           rows == Aggregate(q).rows
           f == PrintedFor(q)
<1>1. A \in SUBSET S /\ A \in SUBSET table
    BY DEF CountedRows, Additive, People, Robots, SourceRows
<1>2. \A r : BucketOf(r.at, q) = Null
    BY DEF GoodSpec, BucketOf
<1>3. /\ rows = {f[r] : r \in S}
      /\ \A r \in S : f[r] = Printed(q, KeyOf(r, q), Null)
    BY <1>2, RowsArePrinted
<1>4. \A r \in S : f[r].key = KeyOf(r, q)
    BY <1>3, PrintedFigures
<1>5. \A r \in A : \E row \in rows : row.key = KeyFor(q)[r]
    BY <1>1, <1>3, <1>4 DEF KeyFor
<1>6. IsFiniteSet(A)
    <2> HIDE DEF A
    <2> QED BY <1>1, PartsAreFinite
<1>7. ASSUME NEW k PROVE Figure(rows, k, m) = Cardinality(With(A, KeyFor(q), k))
    <2>1. CASE At(rows, k) = {}
        <3>1. \A r \in S : KeyOf(r, q) # k
            BY <1>3, <1>4, <2>1 DEF At
        <3>2. With(A, KeyFor(q), k) = {}
            BY <1>1, <3>1 DEF With, KeyFor
        <3> QED BY <2>1, <3>2, FS_EmptySet DEF Figure
    <2>2. CASE At(rows, k) # {}
        <3> DEFINE row == CHOOSE row \in At(rows, k) : TRUE
        <3>1. row \in At(rows, k)
            BY <2>2
        <3> HIDE DEF row
        <3>2. PICK r \in S : row = f[r] /\ k = KeyOf(r, q)
            BY <1>3, <1>4, <3>1 DEF At
        <3>3. Printed(q, KeyOf(r, q), BucketOf(r.at, q)).values[m] = Cardinality(AlikeIn(A, r, q))
            <4>1. m \in Counts /\ m # "visits"
                BY DEF Counts, Additive
            <4> QED BY <4>1, FiguresOfRows
        <3>4. AlikeIn(A, r, q) = With(A, KeyFor(q), k)
            BY <1>1, <1>2, <3>2 DEF AlikeIn, With, KeyFor
        <3>5. Figure(rows, k, m) = row.values[m]
            BY <2>2 DEF Figure, row
        <3>6. row = Printed(q, KeyOf(r, q), BucketOf(r.at, q))
            BY <1>2, <1>3, <3>2
        <3> QED BY <3>3, <3>4, <3>5, <3>6, Zenon
    <2> QED BY <2>1, <2>2
<1>8. ASSUME NEW k PROVE Figure(rows, k, m) \in Nat
    <2>1. With(A, KeyFor(q), k) \in SUBSET table
        BY <1>1 DEF With
    <2>2. Cardinality(With(A, KeyFor(q), k)) \in Nat
        BY <2>1, PartsAreFinite
    <2> QED BY <1>7, <2>2
<1> QED BY <1>5, <1>6, <1>7, <1>8

LEMMA KeysOfRows ==
    ASSUME NEW now, NEW before, IsFiniteSet(now), IsFiniteSet(before)
    PROVE  IsFiniteSet({row.key : row \in now \cup before})
<1> DEFINE B == now \cup before
           key == [row \in B |-> row.key]
<1>1. IsFiniteSet(B)
    BY FS_Union
<1>2. {row.key : row \in B} = {key[row] : row \in B}
    OBVIOUS
<1> HIDE DEF B, key
<1>3. IsFiniteSet({key[row] : row \in B})
    BY <1>1, ImageIsFinite
<1>4. IsFiniteSet({row.key : row \in B})
    BY <1>2, <1>3, Zenon
<1> QED BY <1>4 DEF B

LEMMA RowsCompare ==
    ASSUME NEW k, NEW now, NEW before, NEW c, NEW totals, NEW row, row = CompareRow(k, now, before, c, totals)
    PROVE  /\ row.key = k /\ row.current = Figure(now, k, c.metric) /\ row.previous = Figure(before, k, c.metric)
           /\ row.absolute = Minus(Figure(now, k, c.metric), Figure(before, k, c.metric))
    BY DEF CompareRow, Figure, At

\* A comparison that keeps every row adds up to the change of its totals.
GoodComparison(c) ==
    GoodSpec(c.query) /\ c.query.operation = "breakdown" /\ c.query.metrics = <<c.metric>>

LEMMA ComparisonsAddUp ==
    ASSUME TableInv, NEW c, GoodComparison(c), ~Overlapping(c.query), c.metric \in Additive,
           NEW p, GoodSpec(p), ~Overlapping(p), p.operation = "breakdown", p.metrics = <<c.metric>>, NEW totals,
           NEW E, E = Combined(Aggregate(c.query).rows, Aggregate(p).rows, c, totals)
    PROVE  /\ IsFiniteSet(E)
           /\ \A row \in E : row.current \in Nat /\ row.previous \in Nat
           /\ SumOf([row \in E |-> row.absolute]) =
                 Cardinality(CountedRows(c.query, c.metric)) - Cardinality(CountedRows(p, c.metric))
<1> PICK q, m, now, before :
        q = c.query /\ m = c.metric /\ now = Aggregate(q).rows /\ before = Aggregate(p).rows
    OBVIOUS
<1> DEFINE D == Combined(now, before, c, totals)
           K == {row.key : row \in now \cup before}
           f == [k \in K |-> CompareRow(k, now, before, c, totals)]
           cur == [k \in K |-> Figure(now, k, m)]
           prev == [k \in K |-> Figure(before, k, m)]
           w == [k \in K |-> Figure(now, k, m) - Figure(before, k, m)]
           abs == [row \in D |-> row.absolute]
           A == CountedRows(q, m)
           B == CountedRows(p, m)
<1>1. GoodSpec(q) /\ ~Overlapping(q) /\ q.operation = "breakdown" /\ m \in Additive /\ E = D
      /\ q.metrics = <<m>> /\ p.metrics = <<m>>
    BY DEF GoodComparison
<1> SUFFICES /\ IsFiniteSet(D)
             /\ \A row \in D : row.current \in Nat /\ row.previous \in Nat
             /\ SumOf(abs) = Cardinality(A) - Cardinality(B)
    BY <1>1
<1>2. m \in ToSet(q.metrics) /\ m \in ToSet(p.metrics)
    BY <1>1 DEF ToSet
<1>3. /\ \A k : Figure(now, k, m) = Cardinality(With(A, KeyFor(q), k))
      /\ \A k : Figure(now, k, m) \in Nat
      /\ \A r \in A : \E row \in now : row.key = KeyFor(q)[r]
      /\ IsFiniteSet(A)
    BY <1>1, <1>2, FiguresByKey
<1>4. /\ \A k : Figure(before, k, m) = Cardinality(With(B, KeyFor(p), k))
      /\ \A k : Figure(before, k, m) \in Nat
      /\ \A r \in B : \E row \in before : row.key = KeyFor(p)[r]
      /\ IsFiniteSet(B)
    BY <1>1, <1>2, FiguresByKey
<1>5. IsFiniteSet(K)
    <2>1. IsFiniteSet(Aggregate(q).rows) /\ IsFiniteSet(Aggregate(p).rows)
        <3> HIDE DEF K
        <3> QED BY <1>1, AnswersAreFinite
    <2>2. IsFiniteSet({row.key : row \in now \cup before})
        BY <2>1, KeysOfRows, Zenon
    <2> QED BY <2>2, Zenon
<1>6. D = {f[k] : k \in K}
    BY DEF Combined
<1>7. ASSUME NEW k \in K
      PROVE  f[k].key = k /\ f[k].current = Figure(now, k, m) /\ f[k].previous = Figure(before, k, m)
             /\ f[k].absolute = Figure(now, k, m) - Figure(before, k, m)
    <2>1. f[k] = CompareRow(k, now, before, c, totals) /\ c.metric = m
        OBVIOUS
    <2> HIDE DEF f, K, D, A, B, cur, prev, w, abs
    <2>2. /\ f[k].key = k /\ f[k].current = Figure(now, k, m) /\ f[k].previous = Figure(before, k, m)
          /\ f[k].absolute = Minus(Figure(now, k, m), Figure(before, k, m))
        BY <2>1, RowsCompare
    <2>3. Minus(Figure(now, k, m), Figure(before, k, m)) = Figure(now, k, m) - Figure(before, k, m)
        BY <1>3, <1>4, ApiV1Assumption DEF Minus
    <2> QED BY <2>2, <2>3
<1>8. IsFiniteSet(D)
    <2> HIDE DEF D, K, f
    <2>1. IsFiniteSet({f[k] : k \in K})
        BY <1>5, ImageIsFinite
    <2> QED BY <1>6, <2>1, Zenon
<1>9. \A row \in D : row.current \in Nat /\ row.previous \in Nat
    <2> HIDE DEF D, K, f, A, B
    <2>1. ASSUME NEW row \in D PROVE row.current \in Nat /\ row.previous \in Nat
        <3>1. PICK k \in K : row = f[k]
            BY <1>6
        <3> QED BY <1>3, <1>4, <1>7, <3>1
    <2> QED BY <2>1
<1>10. /\ \A k \in K : cur[k] = Figure(now, k, m) /\ prev[k] = Figure(before, k, m) /\ w[k] = cur[k] - prev[k]
       /\ Adds(cur, K) /\ Adds(prev, K) /\ Adds(w, K)
    BY <1>3, <1>4 DEF Adds
<1>11. SumFunctionOnSet(cur, K) = Cardinality(A)
    <2> DEFINE g == KeyFor(q)
    <2>1. \A r \in A : g[r] \in K
        BY <1>3
    <2>2. \A k \in K : cur[k] = Cardinality(With(A, g, k))
        BY <1>3, <1>10
    <2> HIDE DEF A, K, cur, g
    <2> QED BY <1>3, <1>5, <2>1, <2>2, CountsByValue
<1>12. SumFunctionOnSet(prev, K) = Cardinality(B)
    <2> DEFINE g == KeyFor(p)
    <2>1. \A r \in B : g[r] \in K
        BY <1>4
    <2>2. \A k \in K : prev[k] = Cardinality(With(B, g, k))
        BY <1>4, <1>10
    <2> HIDE DEF B, K, prev, g
    <2> QED BY <1>4, <1>5, <2>1, <2>2, CountsByValue
<1>13. ASSUME NEW d \in D PROVE abs[d] = SumFunctionOnSet(w, With(K, f, d))
    <2>1. PICK k \in K : d = f[k]
        BY <1>6
    <2>2. With(K, f, d) = {k}
        <3> HIDE DEF K, f
        <3> QED BY <1>7, <2>1 DEF With
    <2>3. abs[d] = w[k] /\ w[k] \in Int
        BY <1>7, <1>10, <2>1 DEF Adds
    <2> HIDE DEF K, f, abs, w
    <2>4. SumFunctionOnSet(w, {k}) = w[k]
        BY <2>3, SumOfOne
    <2> QED BY <2>2, <2>3, <2>4, Zenon
<1>14. \A k \in K : f[k] \in D
    BY <1>6
<1>15. SumOf(abs) = SumFunctionOnSet(abs, D)
    <2>1. DOMAIN abs = D
        OBVIOUS
    <2> HIDE DEF abs, D
    <2> QED BY <2>1, Zenon DEF SumOf, SumFunction
<1> HIDE DEF D, K, f, cur, prev, w, abs, A, B
<1>16. SumFunctionOnSet(abs, D) = SumFunctionOnSet(w, K)
    BY <1>5, <1>8, <1>10, <1>13, <1>14, SumsByValue
<1>17. SumFunctionOnSet(w, K) = SumFunctionOnSet(cur, K) - SumFunctionOnSet(prev, K)
    BY <1>5, <1>10, SumOfDifference
<1> QED BY <1>8, <1>9, <1>11, <1>12, <1>15, <1>16, <1>17

Earlier(c) == [c.query EXCEPT !.range = c.previous]
Everything(c) ==
    /\ c.minimum = [current |-> 0, previous |-> 0, total |-> 0] /\ c.direction = "both"
    /\ c.metric \in Additive

LEMMA EarlierIsGood ==
    ASSUME NEW c, GoodComparison(c)
    PROVE  /\ GoodSpec(Earlier(c)) /\ Earlier(c).operation = "breakdown" /\ Earlier(c).metrics = <<c.metric>>
           /\ Overlapping(Earlier(c)) <=> Overlapping(c.query)
<1>1. GoodSpec(Earlier(c))
    BY TotalsOfAMetric DEF GoodComparison, Earlier
<1>2. Earlier(c).operation = c.query.operation /\ Earlier(c).metrics = c.query.metrics
      /\ Earlier(c).dimensions = c.query.dimensions
    BY DEF Earlier, GoodComparison, GoodSpec, SpecFields
<1> QED BY <1>1, <1>2 DEF GoodComparison, Overlapping

LEMMA TotalOfAMetric ==
    ASSUME TableInv, NEW q, GoodSpec(q), NEW m \in Additive, q.metrics = <<m>>, NEW range,
           NEW p, p = [q EXCEPT !.range = range]
    PROVE  TotalOf(Aggregate(MetricTotal(q, range, m)))[m] = Cardinality(CountedRows(p, m))
<1> PICK t : t = MetricTotal(q, range, m)
    OBVIOUS
<1>1. /\ GoodSpec(t) /\ t.operation = "totals" /\ t.metrics = <<m>> /\ SourceRows(t) = SourceRows(p)
    BY TotalsOfAMetric
<1>2. CountedRows(t, m) = CountedRows(p, m)
    BY <1>1 DEF CountedRows, Additive
<1>3. m \in ToSet(t.metrics)
    BY <1>1 DEF ToSet
<1>4. TotalOf(Aggregate(t))[m] = Cardinality(CountedRows(t, m))
    BY <1>1, <1>3, TotalFigures
<1> QED BY <1>2, <1>4, Zenon

LEMMA ChangesAddUp ==
    ASSUME TableInv, NEW c, GoodComparison(c), ~Overlapping(c.query), Everything(c), NEW totals,
           totals.change =
              Minus(TotalOf(Aggregate(MetricTotal(c.query, c.query.range, c.metric)))[c.metric],
                    TotalOf(Aggregate(MetricTotal(c.query, c.previous, c.metric)))[c.metric]),
           NEW D, D = Combined(Aggregate(c.query).rows, Aggregate(Earlier(c)).rows, c, totals),
           NEW kept, kept = {row \in D : KeepComparisonRow(row, c)},
           ~(Cardinality(kept) > c.query.limit),
           NEW shown \in SUBSET kept,
           Cardinality(shown) = (IF Cardinality(kept) < c.query.limit THEN Cardinality(kept) ELSE c.query.limit)
    PROVE  SumOf([row \in shown |-> row.absolute]) = totals.change
<1> PICK q, p, m : q = c.query /\ p = Earlier(c) /\ m = c.metric
    OBVIOUS
<1> DEFINE A == CountedRows(q, m)
           B == CountedRows(p, m)
<1>1. GoodSpec(q) /\ q.operation = "breakdown" /\ q.metrics = <<m>> /\ m \in Additive
    BY DEF GoodComparison, Everything
<1>2. GoodSpec(p) /\ ~Overlapping(p) /\ p.operation = "breakdown" /\ p.metrics = <<m>>
    BY EarlierIsGood
<1>3. /\ IsFiniteSet(D) /\ \A row \in D : row.current \in Nat /\ row.previous \in Nat
      /\ SumOf([row \in D |-> row.absolute]) = Cardinality(A) - Cardinality(B)
    <2>1. D = Combined(Aggregate(q).rows, Aggregate(p).rows, c, totals)
        OBVIOUS
    <2> HIDE DEF A, B
    <2> QED BY <1>1, <1>2, <2>1, ComparisonsAddUp DEF A, B
<1>4. kept = D
    BY <1>3, ApiV1Assumption DEF KeepComparisonRow, Everything, Or0
<1>5. shown = kept
    <2>2. IsFiniteSet(kept) /\ Cardinality(kept) \in Nat
        BY <1>3, <1>4, FS_CardinalityType
    <2>3. q.limit \in Nat
        BY <1>1 DEF GoodSpec
    <2>4. Cardinality(kept) <= q.limit
        BY <2>2, <2>3
    <2> QED BY <2>2, <2>3, <2>4, WholeIsAll
<1>6. totals.change = Cardinality(A) - Cardinality(B)
    <2>1. PICK n : n = [q EXCEPT !.range = q.range]
        OBVIOUS
    <2>2. CountedRows(n, m) = A
        <3>1. n.range = q.range /\ n.dataset = q.dataset /\ n.groups = q.groups
            BY <1>1, <2>1 DEF GoodSpec, SpecFields
        <3>2. SourceRows(n) = SourceRows(q)
            BY <3>1 DEF SourceRows
        <3> QED BY <1>1, <3>2 DEF CountedRows, Additive
    <2>3. TotalOf(Aggregate(MetricTotal(q, q.range, m)))[m] = Cardinality(A)
        <3>1. TotalOf(Aggregate(MetricTotal(q, q.range, m)))[m] = Cardinality(CountedRows(n, m))
            BY <1>1, <2>1, TotalOfAMetric
        <3> QED BY <2>2, <3>1, Zenon
    <2>4. TotalOf(Aggregate(MetricTotal(q, c.previous, m)))[m] = Cardinality(B)
        BY <1>1, TotalOfAMetric DEF Earlier
    <2>5. Cardinality(A) \in Int /\ Cardinality(B) \in Int
        <3>1. A \in SUBSET table /\ B \in SUBSET table
            BY <1>1 DEF CountedRows, Additive, SourceRows, People, Robots
        <3> HIDE DEF A, B
        <3> QED BY <3>1, PartsAreFinite
    <2>6. totals.change = Minus(Cardinality(A), Cardinality(B))
        BY <2>3, <2>4, Zenon
    <2> HIDE DEF A, B
    <2> QED BY <2>5, <2>6, ApiV1Assumption DEF Minus
<1> QED BY <1>3, <1>4, <1>5, <1>6, Zenon

-----------------------------------------------------------------------------
(* Traffic quality.                                                            *)

\* A row of the quality report is of hits of the site, and keeps its bounces
\* only when no key is missing.
LEMMA RowsAreHonest ==
    ASSUME TableInv, NEW q, GoodSpec(q), q.metrics = QualityMetrics, NEW row \in Aggregate(q).rows
    PROVE  /\ row.missing \in Nat
           /\ row.missing > 0 => row.values["bounces"] = Null
           /\ row.values["pageviews"] <= TotalOf(Aggregate(TotalsSpec(q)))["pageviews"]
<1> DEFINE S == SourceRows(q)
           t == TotalsSpec(q)
<1>1. PICK k, b : row = Printed(q, k, b)
    BY DEF Aggregate, AggregateRows, Printed, Plain
<1>2. {"pageviews", "bounces"} \subseteq ToSet(q.metrics)
    BY DEF ToSet, QualityMetrics
<1>3. row.missing \in Nat /\ (row.missing > 0 => row.values["bounces"] = Null)
    BY <1>1, <1>2, PrintedFigures DEF KeyMetrics
<1>4. row.values["pageviews"] = Cardinality(InRow(q, k, b))
    <2>1. "pageviews" \notin KeyMetrics
        BY DEF KeyMetrics
    <2>2. row.values["pageviews"] = Plain(q, k, b).values["pageviews"]
        BY <1>1, <1>2, <2>1, PrintedFigures
    <2>3. q.dataset = "pageviews"
        BY <1>2, FiguresAreOfTheDataset
    <2> QED BY <2>2, <2>3, PlainFigures
<1>5. TotalOf(Aggregate(t))["pageviews"] = Cardinality(S)
    <2>1. GoodSpec(t) /\ t.operation = "totals" /\ SourceRows(t) = S /\ t.metrics = q.metrics
        BY TotalsOfASpec
    <2>2. CountedRows(t, "pageviews") = S
        BY <2>1 DEF CountedRows
    <2> HIDE DEF t, S
    <2>3. TotalOf(Aggregate(t))["pageviews"] = Cardinality(CountedRows(t, "pageviews"))
        BY <1>2, <2>1, TotalFigures DEF Additive
    <2> QED BY <2>2, <2>3, Zenon
<1>6. InRow(q, k, b) \in SUBSET S /\ S \in SUBSET table
    BY DEF InRow, Of, SourceRows
<1>7. Cardinality(InRow(q, k, b)) <= Cardinality(S)
    <2> HIDE DEF S
    <2> QED BY <1>6, PartsAreFinite
<1> QED BY <1>3, <1>4, <1>5, <1>7

-----------------------------------------------------------------------------
(* From a body to its statements.                                              *)

\* What is parsed is well formed.
LEMMA ListsOfTheCatalog ==
    ASSUME NEW S, NEW d \in Seq(S), NEW T, ToSet(d) \subseteq T
    PROVE  d \in Seq(T)
    BY DEF ToSet

LEMMA TwoAtMost ==
    ASSUME NEW n \in Nat, n <= MaxDimensions
    PROVE  n \in 0..2
    BY ApiV1Assumption

LEMMA ParsedIsGood ==
    ASSUME NEW b, b.dimensions \in Seq(STRING), b.limit \in Int,
           NEW S, b.metrics \in Seq(S), NEW q, q = ParseQuery(b), q # Invalid
    PROVE  /\ GoodSpec(q) /\ q.range = b.range /\ q.operation = b.operation /\ q.metrics = b.metrics
           /\ q.limit \in Nat
<1>1. ValidBody(b)
    BY DEF ParseQuery
<1>2. q = [dataset |-> DatasetOf(b), operation |-> b.operation, range |-> b.range,
           granularity |-> GranularityOf(b), dimensions |-> b.dimensions, metrics |-> b.metrics,
           groups |-> FilterGroups(b), limit |-> b.limit, prefix |-> b.prefix, exact |-> b.exact]
    BY <1>1 DEF ParseQuery
<1>3. DOMAIN q = SpecFields
    BY <1>2 DEF SpecFields
<1>4. /\ q.range = b.range /\ q.operation = b.operation /\ q.metrics = b.metrics /\ q.dimensions = b.dimensions
      /\ q.limit = b.limit /\ q.dataset = DatasetOf(b) /\ q.granularity = GranularityOf(b)
    BY <1>2
<1> HIDE <1>2
<1>5. /\ Len(b.dimensions) <= MaxDimensions /\ ToSet(b.dimensions) \subseteq Dimensions
      /\ ToSet(b.metrics) \subseteq Metrics
      /\ ValidDataset(DatasetOf(b), b) /\ b.operation \in {"totals", "timeseries", "breakdown"}
      /\ b.operation # "timeseries" => b.granularity = Null
      /\ b.operation = "totals" => b.dimensions = <<>>
      /\ 1 <= b.limit
    <2>1. b.operation \in {"totals", "timeseries", "breakdown"} /\ Len(b.dimensions) <= MaxDimensions
        BY <1>1, Zenon DEF ValidBody
    <2>2. /\ ToSet(b.dimensions) \subseteq Dimensions /\ ToSet(b.metrics) \subseteq Metrics
          /\ ValidDataset(DatasetOf(b), b)
        BY <1>1, Zenon DEF ValidBody
    <2>3. b.operation # "timeseries" => b.granularity = Null
        BY <1>1, Zenon DEF ValidBody
    <2>4. b.operation = "totals" => b.dimensions = <<>>
        BY <1>1, Zenon DEF ValidBody
    <2>5. 1 <= b.limit
        BY <1>1, Zenon DEF ValidBody, BoundedInt
    <2> QED BY <2>1, <2>2, <2>3, <2>4, <2>5
<1>6. Len(q.dimensions) \in 0..2 /\ q.limit \in Nat
    <2>1. Len(b.dimensions) \in Nat
        OBVIOUS
    <2>2. Len(b.dimensions) <= MaxDimensions /\ 1 <= b.limit
        BY <1>5, Zenon
    <2>3. \A n \in Nat : n <= MaxDimensions => n \in 0..2
        BY TwoAtMost
    <2>4. Len(b.dimensions) \in 0..2
        BY <2>1, <2>2, <2>3, Zenon
    <2>5. Len(q.dimensions) \in 0..2
        BY <1>4, <2>4, Zenon
    <2>6. q.limit \in Nat
        BY <1>4, <2>2
    <2> QED BY <2>5, <2>6
<1>7. q.dataset \in {"pageviews", "events"}
      /\ ToSet(q.metrics) \cap (IF q.dataset = "events" THEN PageMetricNames ELSE {"events"}) = {}
    BY <1>4, <1>5 DEF ValidDataset
<1>8. q.operation # "timeseries" => q.granularity = Null
    BY <1>4, <1>5 DEF GranularityOf
<1>9. b.dimensions \in Seq(Dimensions) /\ b.metrics \in Seq(Metrics)
    BY <1>5, ListsOfTheCatalog
<1> QED BY <1>3, <1>4, <1>5, <1>6, <1>7, <1>8, <1>9 DEF GoodSpec

LEMMA BodiesAreRead ==
    ASSUME NEW b \in Bodies
    PROVE  /\ DOMAIN b = BodyFields /\ b.dimensions \in Seq(STRING) /\ b.metrics \in Seq(STRING)
           /\ b.limit \in Int /\ b.range \in [start : Int, end : Int]
    BY ApiV1Assumption

\* The metrics a client chooses are the catalog's.
LEMMA MetricIsKnown ==
    ASSUME NEW b, NEW m, b.metrics = <<m>>, ParseQuery(b) # Invalid
    PROVE  <<m>> \in Seq(Metrics)
<1>1. ToSet(<<m>>) \subseteq Metrics
    <2>1. ValidBody(b)
        BY DEF ParseQuery
    <2>2. ToSet(b.metrics) \subseteq Metrics
        BY <2>1, Zenon DEF ValidBody
    <2> QED BY <2>2
<1>2. m \in Metrics
    BY <1>1 DEF ToSet
<1> QED BY <1>2

LEMMA ComparisonIsGood ==
    ASSUME NEW b \in Bodies, NEW c, c = ParseCompare(b), c # Invalid
    PROVE  GoodComparison(c)
<1> PICK a : a = [b EXCEPT !.operation = "breakdown", !.metrics = <<b.metric>>]
    OBVIOUS
<1>1. /\ a.operation = "breakdown" /\ a.metrics = <<b.metric>> /\ a.dimensions = b.dimensions
      /\ a.limit = b.limit
    BY BodiesAreRead DEF BodyFields
<1>2. ParseQuery(a) # Invalid /\ c.query = ParseQuery(a) /\ c.metric = b.metric
    <2>1. /\ ParseQuery(a) # Invalid
          /\ c = [query |-> ParseQuery(a), previous |-> Aligned(b), metric |-> b.metric, sort |-> b.sort,
                  direction |-> b.direction, minimum |-> b.minimum]
        BY Zenon DEF ParseCompare
    <2> QED BY <2>1
<1>3. a.metrics \in Seq(Metrics)
    BY <1>1, <1>2, MetricIsKnown
<1>4. a.dimensions \in Seq(STRING) /\ a.limit \in Int
    BY <1>1, BodiesAreRead
<1>5. GoodSpec(c.query) /\ c.query.operation = "breakdown" /\ c.query.metrics = <<c.metric>>
    <2>1. GoodSpec(ParseQuery(a)) /\ ParseQuery(a).operation = a.operation /\ ParseQuery(a).metrics = a.metrics
        BY <1>2, <1>3, <1>4, ParsedIsGood, Zenon
    <2> QED BY <1>1, <1>2, <2>1, Zenon
<1> QED BY <1>5 DEF GoodComparison

GoodQuality(t) == GoodSpec(t.query) /\ t.query.operation = "breakdown" /\ t.query.metrics = QualityMetrics

LEMMA QualityIsGood ==
    ASSUME NEW b \in Bodies, NEW t, t = ParseTrafficQuality(b), t # Invalid
    PROVE  GoodQuality(t)
<1> PICK a : a = [b EXCEPT !.operation = "breakdown", !.metrics = QualityMetrics]
    OBVIOUS
<1>1. /\ a.operation = "breakdown" /\ a.metrics = QualityMetrics /\ a.dimensions = b.dimensions
      /\ a.limit = b.limit
    BY BodiesAreRead DEF BodyFields
<1>2. ParseQuery(a) # Invalid /\ t.query = ParseQuery(a)
    <2>1. /\ ParseQuery(a) # Invalid
          /\ \E p : t = [query |-> ParseQuery(a), previous |-> p, thresholds |-> b.thresholds]
        BY Zenon DEF ParseTrafficQuality
    <2> QED BY <2>1
<1>3. a.metrics \in Seq(Metrics)
    <2>1. QualityMetrics \in Seq(Metrics)
        BY DEF QualityMetrics, Metrics, PageMetricNames, KeyMetrics
    <2> QED BY <1>1, <2>1
<1>4. a.dimensions \in Seq(STRING) /\ a.limit \in Int
    BY <1>1, BodiesAreRead
<1>5. GoodSpec(t.query) /\ t.query.operation = "breakdown" /\ t.query.metrics = QualityMetrics
    <2>1. GoodSpec(ParseQuery(a)) /\ ParseQuery(a).operation = a.operation /\ ParseQuery(a).metrics = a.metrics
        BY <1>2, <1>3, <1>4, ParsedIsGood, Zenon
    <2> QED BY <1>1, <1>2, <2>1, Zenon
<1> QED BY <1>5 DEF GoodQuality

\* The statements of a request, and what is known of their answers while they
\* are read: Fresh is lost as soon as a hit arrives.
IsSeq(s) == s \in Seq(ToSet(s))
QueryAsks(q) ==
    {Statement("rows", q)} \cup (IF q.operation = "totals" THEN {} ELSE {Statement("total", TotalsSpec(q))})
CompareAsks(c) ==
    {Statement("rows", c.query), Statement("before", Earlier(c)),
     Statement("total", MetricTotal(c.query, c.query.range, c.metric)),
     Statement("totalBefore", MetricTotal(c.query, c.previous, c.metric))}
QualityMust(t) == {Statement("rows", t.query), Statement("total", TotalsSpec(t.query))}
QualityMay(t) ==
    {Statement("before", [t.query EXCEPT !.range = t.previous]),
     Statement("browser", DominanceSpec(t.query, "browser")),
     Statement("device", DominanceSpec(t.query, "device"))}
Prepared(r) ==
    \/ /\ r.kind = "query" /\ GoodSpec(r.spec) /\ r.spec.range \in [start : Int, end : Int]
       /\ ToSet(r.statements) = QueryAsks(r.spec)
    \/ /\ r.kind = "compare" /\ GoodComparison(r.spec)
       /\ ToSet(r.statements) = CompareAsks(r.spec)
    \/ /\ r.kind = "quality" /\ GoodQuality(r.spec)
       /\ ToSet(r.statements) \subseteq QualityMust(r.spec) \cup QualityMay(r.spec)
       /\ QualityMust(r.spec) \subseteq ToSet(r.statements)
Honest(row) == row.missing \in Nat /\ (row.missing > 0 => row.values["bounces"] = Null)
Settled(kind, s, a) ==
    /\ s.role \notin {"browser", "device"} => ~a.overflow
    /\ kind = "quality" /\ s.role = "rows" => \A row \in a.rows : Honest(row)
Reading(r) ==
    /\ DOMAIN r = {"phase", "kind", "spec", "statements", "got", "stored"}
    /\ Prepared(r) /\ r.stored \in Nat
    /\ IsSeq(r.statements) /\ IsSeq(r.got) /\ Len(r.got) <= Len(r.statements)
    /\ \A i \in 1..Len(r.got) : Settled(r.kind, r.statements[i], r.got[i])
Fresh(r) == r.stored = 0 => \A i \in 1..Len(r.got) : r.got[i] = Aggregate(r.statements[i].spec)

LEMMA Appended ==
    ASSUME NEW s, IsSeq(s), NEW e
    PROVE  /\ IsSeq(Append(s, e)) /\ Len(Append(s, e)) = Len(s) + 1 /\ Append(s, e)[Len(s) + 1] = e
           /\ \A i \in 1..Len(s) : Append(s, e)[i] = s[i]
    BY DEF IsSeq, ToSet

LEMMA Together ==
    ASSUME NEW s, IsSeq(s), NEW t, IsSeq(t)
    PROVE  IsSeq(s \o t) /\ ToSet(s \o t) = ToSet(s) \cup ToSet(t)
<1> PICK S, T : S = ToSet(s) /\ T = ToSet(t)
    OBVIOUS
<1>1. s \in Seq(S) /\ t \in Seq(T)
    BY DEF IsSeq
<1> PICK u : u = s \o t
    OBVIOUS
<1>2. /\ u \in Seq(S \cup T) /\ Len(u) = Len(s) + Len(t) /\ Len(s) \in Nat /\ Len(t) \in Nat
      /\ \A i \in 1..Len(u) : u[i] = IF i <= Len(s) THEN s[i] ELSE t[i - Len(s)]
    BY <1>1
<1>3. S = {s[i] : i \in 1..Len(s)} /\ T = {t[i] : i \in 1..Len(t)} /\ ToSet(u) = {u[i] : i \in 1..Len(u)}
    <2>1. DOMAIN s = 1..Len(s) /\ DOMAIN t = 1..Len(t) /\ DOMAIN u = 1..Len(u)
        BY <1>1, <1>2
    <2>2. /\ ToSet(s) = {s[i] : i \in DOMAIN s} /\ ToSet(t) = {t[i] : i \in DOMAIN t}
          /\ ToSet(u) = {u[i] : i \in DOMAIN u}
        BY Zenon DEF ToSet
    <2> QED BY <2>1, <2>2, Zenon
<1>4. ToSet(u) \subseteq S \cup T
    BY <1>2, <1>3
<1>5. ASSUME NEW x \in S PROVE x \in ToSet(u)
    <2>1. PICK i \in 1..Len(s) : x = s[i]
        BY <1>3
    <2>2. i \in 1..Len(u) /\ u[i] = x
        BY <1>2, <2>1
    <2> QED BY <1>3, <2>2
<1>6. ASSUME NEW x \in T PROVE x \in ToSet(u)
    <2>1. PICK i \in 1..Len(t) : x = t[i]
        BY <1>3
    <2>2. Len(s) + i \in 1..Len(u) /\ u[Len(s) + i] = x
        BY <1>2, <2>1
    <2> QED BY <1>3, <2>2
<1>7. ToSet(u) = S \cup T
    BY <1>4, <1>5, <1>6
<1>8. u \in Seq(ToSet(u))
    BY <1>2, <1>7
<1> QED BY <1>7, <1>8 DEF IsSeq

LEMMA Alone ==
    ASSUME NEW e
    PROVE  /\ IsSeq(<<e>>) /\ ToSet(<<e>>) = {e}
           /\ IsSeq(<<>>) /\ ToSet(<<>>) = {}
    BY DEF IsSeq, ToSet

LEMMA QueryIsPrepared ==
    ASSUME NEW q
    PROVE  IsSeq(QueryStatements(q)) /\ ToSet(QueryStatements(q)) = QueryAsks(q)
<1>1. CASE q.operation = "totals"
    <2>1. QueryStatements(q) = <<Statement("rows", q)>> \o <<>>
        BY <1>1 DEF QueryStatements
    <2> QED BY <1>1, <2>1, Alone, Together DEF QueryAsks
<1>2. CASE q.operation # "totals"
    <2>1. QueryStatements(q) = <<Statement("rows", q)>> \o <<Statement("total", TotalsSpec(q))>>
        BY <1>2 DEF QueryStatements
    <2> QED BY <1>2, <2>1, Alone, Together DEF QueryAsks
<1> QED BY <1>1, <1>2

LEMMA CompareIsPrepared ==
    ASSUME NEW c
    PROVE  IsSeq(CompareStatements(c)) /\ ToSet(CompareStatements(c)) = CompareAsks(c)
<1> PICK w, x, y, z : /\ w = Statement("rows", c.query) /\ x = Statement("before", Earlier(c))
                      /\ y = Statement("total", MetricTotal(c.query, c.query.range, c.metric))
                      /\ z = Statement("totalBefore", MetricTotal(c.query, c.previous, c.metric))
    OBVIOUS
<1>1. CompareStatements(c) = <<w, x, y, z>>
    BY DEF CompareStatements, Earlier
<1>2. IsSeq(<<w, x, y, z>>) /\ ToSet(<<w, x, y, z>>) = {w, x, y, z}
    BY DEF IsSeq, ToSet
<1>3. CompareAsks(c) = {w, x, y, z}
    BY DEF CompareAsks
<1> QED BY <1>1, <1>2, <1>3, Zenon

LEMMA QualityIsPrepared ==
    ASSUME NEW t
    PROVE  /\ IsSeq(QualityStatements(t))
           /\ ToSet(QualityStatements(t)) \subseteq QualityMust(t) \cup QualityMay(t)
           /\ QualityMust(t) \subseteq ToSet(QualityStatements(t))
<1> DEFINE q == t.query
           before == IF t.previous = Null THEN <<>> ELSE <<Statement("before", [q EXCEPT !.range = t.previous])>>
           browser == IF Dominates(q, "browser") THEN <<Statement("browser", DominanceSpec(q, "browser"))>>
                      ELSE <<>>
           device == IF Dominates(q, "device") THEN <<Statement("device", DominanceSpec(q, "device"))>> ELSE <<>>
           rows == <<Statement("rows", q)>>
           total == <<Statement("total", TotalsSpec(q))>>
<1>1. QualityStatements(t) = rows \o before \o browser \o device \o total
    BY DEF QualityStatements
<1>2. /\ IsSeq(rows) /\ ToSet(rows) = {Statement("rows", q)}
      /\ IsSeq(total) /\ ToSet(total) = {Statement("total", TotalsSpec(q))}
    BY Alone
<1>3. IsSeq(before) /\ ToSet(before) \subseteq QualityMay(t)
    <2>1. CASE t.previous = Null
        BY <2>1, Alone
    <2>2. CASE t.previous # Null
        BY <2>2, Alone DEF QualityMay
    <2> QED BY <2>1, <2>2
<1>4. IsSeq(browser) /\ ToSet(browser) \subseteq QualityMay(t)
    <2>1. CASE Dominates(q, "browser")
        BY <2>1, Alone DEF QualityMay
    <2>2. CASE ~Dominates(q, "browser")
        BY <2>2, Alone
    <2> QED BY <2>1, <2>2
<1>5. IsSeq(device) /\ ToSet(device) \subseteq QualityMay(t)
    <2>1. CASE Dominates(q, "device")
        BY <2>1, Alone DEF QualityMay
    <2>2. CASE ~Dominates(q, "device")
        BY <2>2, Alone
    <2> QED BY <2>1, <2>2
<1> HIDE DEF before, browser, device, rows, total
<1>6. /\ IsSeq(rows \o before \o browser \o device \o total)
      /\ ToSet(rows \o before \o browser \o device \o total) =
            ToSet(rows) \cup ToSet(before) \cup ToSet(browser) \cup ToSet(device) \cup ToSet(total)
    BY <1>2, <1>3, <1>4, <1>5, Together
<1> QED BY <1>1, <1>2, <1>3, <1>4, <1>5, <1>6 DEF QualityMust

LEMMA AggregatesStay ==
    ASSUME table' = table
    PROVE  \A s : Aggregate(s)' = Aggregate(s)
<1> SUFFICES ASSUME NEW s PROVE Aggregate(s)' = Aggregate(s)
    OBVIOUS
<1>1. SourceRows(s)' = SourceRows(s)
    BY DEF SourceRows
<1> QED BY <1>1, Zenon DEF Aggregate, AggregateRows

-----------------------------------------------------------------------------
(* From the statements to the answer.                                          *)

LEMMA AnswersAreRead ==
    ASSUME Reading(request), Fresh(request), AllRead, NEW s \in ToSet(request.statements),
           \A u \in ToSet(request.statements) : u.role = s.role => u = s
    PROVE  /\ Settled(request.kind, s, Got(s.role))
           /\ request.stored = 0 => Got(s.role) = Aggregate(s.spec)
           /\ s.role \notin {"browser", "device"} => RowsOf(s.role) = Got(s.role).rows
<1> DEFINE ss == request.statements
           got == request.got
           R == Role(s.role)
           i == CHOOSE j \in R : TRUE
<1>1. Len(got) = Len(ss) /\ ss \in Seq(ToSet(ss)) /\ \A j \in 1..Len(got) : Settled(request.kind, ss[j], got[j])
    BY DEF AllRead, Reading, IsSeq
<1>2. \E j \in 1..Len(got) : ss[j] = s
    BY <1>1 DEF ToSet
<1>3. R # {}
    BY <1>2 DEF Role
<1>4. i \in R
    BY <1>3
<1> HIDE DEF i
<1>5. i \in 1..Len(got) /\ ss[i].role = s.role
    BY <1>4 DEF Role
<1>6. ss[i] = s
    <2>1. ss[i] \in ToSet(ss)
        BY <1>1, <1>5
    <2> QED BY <1>5, <2>1
<1>7. Got(s.role) = got[i]
    BY DEF Got, i
<1>8. Settled(request.kind, s, got[i])
    BY <1>1, <1>5, <1>6
<1>9. request.stored = 0 => got[i] = Aggregate(s.spec)
    BY <1>5, <1>6 DEF Fresh
<1>10. s.role \notin {"browser", "device"} => RowsOf(s.role) = got[i].rows
    BY <1>3, <1>7, <1>8 DEF RowsOf, Settled
<1> QED BY <1>7, <1>8, <1>9, <1>10

LEMMA SumsStay ==
    ASSUME table' = table, NEW a, QueryAddsUp(a)
    PROVE  QueryAddsUp(a)'
    BY AnswersStay DEF QueryAddsUp

LEMMA QueryIsAnswered ==
    ASSUME TableInv, Reading(request), Fresh(request), AnswerQuery
    PROVE  AnswersAddUp'
<1> PICK q, rows, totals : /\ q = request.spec /\ rows = RowsOf("rows")
                           /\ totals = TotalOf(Got(IF q.operation = "totals" THEN "rows" ELSE "total"))
    OBVIOUS
<1>1. AllRead /\ request.kind = "query" /\ table' = table
    BY DEF AnswerQuery, Answered
<1>2. PICK shown \in LimitRows(rows, q) :
        request' = [phase |-> "done", kind |-> request.kind, status |-> 200, spec |-> request.spec,
                    stored |-> request.stored, rows |-> shown, truncated |-> Truncated(rows, q), totals |-> totals]
    BY DEF AnswerQuery, Answered
<1> PICK a : a = request'
    OBVIOUS
<1>3. /\ a.phase = "done" /\ a.kind = "query" /\ a.status = 200 /\ a.spec = q /\ a.stored = request.stored
      /\ a.rows = shown /\ a.truncated = Truncated(rows, q) /\ a.totals = totals
    BY <1>1, <1>2
<1>4. GoodSpec(q) /\ q.range \in [start : Int, end : Int] /\ ToSet(request.statements) = QueryAsks(q)
    BY <1>1 DEF Reading, Prepared
<1>5. request.stored = 0 => rows = Aggregate(q).rows /\ totals = TotalOf(Aggregate(Overall(q)))
    <2> DEFINE s == Statement("rows", q)
               t == Statement("total", TotalsSpec(q))
    <2>1. /\ s.role = "rows" /\ s.spec = q /\ t.role = "total" /\ t.spec = TotalsSpec(q)
          /\ s \in ToSet(request.statements)
          /\ q.operation # "totals" => t \in ToSet(request.statements)
          /\ ToSet(request.statements) \subseteq {s, t}
        BY <1>4 DEF QueryAsks, Statement
    <2> HIDE DEF s, t
    <2>2. request.stored = 0 => Got("rows") = Aggregate(q) /\ rows = Got("rows").rows
        BY <1>1, <2>1, AnswersAreRead
    <2>3. request.stored = 0 /\ q.operation # "totals" => Got("total") = Aggregate(TotalsSpec(q))
        BY <1>1, <2>1, AnswersAreRead
    <2> QED BY <2>2, <2>3 DEF Overall
<1>6. request.stored = 0 /\ ~a.truncated /\ ~Overlapping(q) => a.rows = Aggregate(q).rows
    <2> SUFFICES ASSUME request.stored = 0, ~a.truncated, ~Overlapping(q) PROVE a.rows = Aggregate(q).rows
        OBVIOUS
    <2>1. IsFiniteSet(rows)
        BY <1>4, <1>5, AnswersAreFinite
    <2> QED BY <1>2, <1>3, <1>4, <1>5, <2>1, NothingIsCut
<1>7. QueryAddsUp(a)
    BY <1>3, <1>4, <1>5, <1>6, QueriesAddUp
<1>8. QueryAddsUp(a)'
    BY <1>1, <1>7, SumsStay
<1> QED BY <1>3, <1>8 DEF AnswersAddUp

LEMMA CompareIsAnswered ==
    ASSUME TableInv, Reading(request), Fresh(request), AnswerCompare
    PROVE  AnswersAddUp'
<1> DEFINE c == request.spec
           current == TotalOf(Got("total"))[c.metric]
           before == TotalOf(Got("totalBefore"))[c.metric]
           totals == [current |-> current, previous |-> before, change |-> Minus(current, before)]
           D == Combined(RowsOf("rows"), RowsOf("before"), c, totals)
           kept == {row \in D : KeepComparisonRow(row, c)}
<1>1. AllRead /\ request.kind = "compare" /\ table' = table
    BY DEF AnswerCompare, Answered
<1>2. PICK shown \in SUBSET kept :
        /\ Cardinality(shown) = (IF Cardinality(kept) < c.query.limit THEN Cardinality(kept) ELSE c.query.limit)
        /\ request' = [phase |-> "done", kind |-> request.kind, status |-> 200, spec |-> request.spec,
                       stored |-> request.stored, rows |-> shown,
                       truncated |-> Cardinality(kept) > c.query.limit, totals |-> totals]
    BY Zenon DEF AnswerCompare, Answered, Leading
<1>0. totals.change = Minus(current, before)
    OBVIOUS
<1> HIDE DEF totals, D, kept
<1> PICK a : a = request'
    OBVIOUS
<1>3. /\ a.phase = "done" /\ a.kind = "compare" /\ a.status = 200 /\ a.spec = c /\ a.stored = request.stored
      /\ a.rows = shown /\ a.truncated = (Cardinality(kept) > c.query.limit) /\ a.totals = totals
    BY <1>1, <1>2
<1>4. GoodComparison(c) /\ ToSet(request.statements) = CompareAsks(c)
    BY <1>1 DEF Reading, Prepared
<1>5. ASSUME request.stored = 0
      PROVE  /\ RowsOf("rows") = Aggregate(c.query).rows /\ RowsOf("before") = Aggregate(Earlier(c)).rows
             /\ Got("total") = Aggregate(MetricTotal(c.query, c.query.range, c.metric))
             /\ Got("totalBefore") = Aggregate(MetricTotal(c.query, c.previous, c.metric))
    <2> DEFINE w == Statement("rows", c.query)
               x == Statement("before", Earlier(c))
               y == Statement("total", MetricTotal(c.query, c.query.range, c.metric))
               z == Statement("totalBefore", MetricTotal(c.query, c.previous, c.metric))
    <2>1. /\ w.role = "rows" /\ w.spec = c.query /\ x.role = "before" /\ x.spec = Earlier(c)
          /\ y.role = "total" /\ y.spec = MetricTotal(c.query, c.query.range, c.metric)
          /\ z.role = "totalBefore" /\ z.spec = MetricTotal(c.query, c.previous, c.metric)
          /\ ToSet(request.statements) = {w, x, y, z}
        BY <1>4 DEF CompareAsks, Statement
    <2> HIDE DEF w, x, y, z
    <2>2. \A s \in {w, x, y, z} : /\ Got(s.role) = Aggregate(s.spec)
                                  /\ s.role \notin {"browser", "device"} => RowsOf(s.role) = Got(s.role).rows
        BY <1>1, <1>5, <2>1, AnswersAreRead
    <2> QED BY <2>1, <2>2
<1>6. ASSUME a.stored = 0, ~a.truncated, ~Overlapping(c.query), Everything(c)
      PROVE  SumOf([row \in a.rows |-> row.absolute]) = a.totals.change
    <2>1. totals.change = Minus(TotalOf(Aggregate(MetricTotal(c.query, c.query.range, c.metric)))[c.metric],
                                TotalOf(Aggregate(MetricTotal(c.query, c.previous, c.metric)))[c.metric])
        BY <1>0, <1>3, <1>5, <1>6
    <2>2. D = Combined(Aggregate(c.query).rows, Aggregate(Earlier(c)).rows, c, totals)
        BY <1>3, <1>5, <1>6 DEF D
    <2>3. ~(Cardinality(kept) > c.query.limit)
        BY <1>3, <1>6
    <2>4. SumOf([row \in shown |-> row.absolute]) = totals.change
        BY <1>2, <1>4, <1>6, <2>1, <2>2, <2>3, ChangesAddUp DEF kept
    <2> QED BY <1>3, <2>4, Zenon
<1> QED BY <1>3, <1>6 DEF AnswersAddUp, Whole, Everything

LEMMA QualityIsAnswered ==
    ASSUME TableInv, Reading(request), Fresh(request), AnswerQuality
    PROVE  AnswersAddUp'
<1> DEFINE t == request.spec
           totals == TotalOf(Got("total"))
           rows == RowsOf("rows")
           marks(row) == Indicators(row, RowsOf("before"), Dominant(RowsOf("browser"), row.key),
                                    Dominant(RowsOf("device"), row.key), t.thresholds)
           diagnosed(row) == [row |-> row, indicators |-> marks(row)]
<1>1. AllRead /\ request.kind = "quality" /\ table' = table
    BY DEF AnswerQuality, Answered
<1>2. PICK shown \in SUBSET rows :
        request' = [phase |-> "done", kind |-> request.kind, status |-> 200, spec |-> request.spec,
                    stored |-> request.stored, rows |-> {diagnosed(row) : row \in shown},
                    truncated |-> Cardinality(rows) > t.query.limit, totals |-> totals]
    BY Zenon DEF AnswerQuality, Answered, Leading
<1> PICK a : a = request'
    OBVIOUS
<1>3. /\ a.phase = "done" /\ a.kind = "quality" /\ a.status = 200 /\ a.spec = t /\ a.stored = request.stored
      /\ a.rows = {diagnosed(row) : row \in shown} /\ a.totals = totals
    BY <1>1, <1>2
<1>4. /\ GoodSpec(t.query) /\ t.query.metrics = QualityMetrics
      /\ ToSet(request.statements) \subseteq QualityMust(t) \cup QualityMay(t)
      /\ QualityMust(t) \subseteq ToSet(request.statements)
    BY <1>1 DEF Reading, Prepared, GoodQuality
<1>5. /\ \A row \in rows : Honest(row)
      /\ request.stored = 0 => rows = Aggregate(t.query).rows /\ totals = TotalOf(Aggregate(TotalsSpec(t.query)))
    <2> DEFINE s == Statement("rows", t.query)
               u == Statement("total", TotalsSpec(t.query))
    <2>1. /\ s.role = "rows" /\ s.spec = t.query /\ u.role = "total" /\ u.spec = TotalsSpec(t.query)
          /\ s \in ToSet(request.statements) /\ u \in ToSet(request.statements)
          /\ \A v \in ToSet(request.statements) : /\ v.role = "rows" => v = s
                                                  /\ v.role = "total" => v = u
        BY <1>4 DEF QualityMust, QualityMay, Statement
    <2> HIDE DEF s, u
    <2>2. /\ Settled("quality", s, Got("rows")) /\ rows = Got("rows").rows
          /\ request.stored = 0 => Got("rows") = Aggregate(t.query)
        BY <1>1, <2>1, AnswersAreRead
    <2>3. request.stored = 0 => Got("total") = Aggregate(TotalsSpec(t.query))
        BY <1>1, <2>1, AnswersAreRead
    <2> QED BY <2>1, <2>2, <2>3 DEF Settled
<1> HIDE DEF rows
<1>6. ASSUME NEW x \in a.rows
      PROVE  /\ "one_page" \in x.indicators => x.row.missing = 0
             /\ a.stored = 0 => x.row.values["pageviews"] <= a.totals["pageviews"]
    <2>1. PICK row \in rows : x = diagnosed(row)
        BY <1>2, <1>3
    <2>2. x.row = row /\ x.indicators = marks(row)
        BY <2>1
    <2> HIDE DEF diagnosed, marks
    <2>3. "one_page" \in marks(row) => row.values["bounces"] # Null
        BY Zenon DEF marks, Indicators
    <2>4. "one_page" \in x.indicators => x.row.missing = 0
        BY <1>5, <2>2, <2>3 DEF Honest
    <2>5. a.stored = 0 => row.values["pageviews"] <= totals["pageviews"]
        BY <1>3, <1>4, <1>5, RowsAreHonest
    <2> QED BY <1>3, <2>2, <2>4, <2>5
<1> QED BY <1>3, <1>6 DEF AnswersAddUp

LEMMA ValuesAreListed ==
    ASSUME NEW d, NEW b, NEW search, NEW who, AskValues(d, b, search, who)
    PROVE  \/ Refuse(400) \/ Refuse(403)
           \/ \E q, rows :
                request' = [phase |-> "done", kind |-> "values", status |-> 200, spec |-> q, stored |-> 0,
                            values |-> {v \in {row.key[1] : row \in rows} :
                                            search = Null \/ (v # Null /\ <<search, v>> \in Within)},
                            truncated |-> Cardinality(AggregateRows(q)) > q.limit]
    BY Zenon DEF AskValues, Leading

LEMMA AskedIsReading ==
    ASSUME NEW b \in Bodies, NEW who, AskQuery(b, who) \/ AskCompare(b, who) \/ AskQuality(b, who)
    PROVE  \/ request'.phase = "reading" /\ Reading(request') /\ request'.got = <<>>
           \/ request'.phase = "done" /\ request'.status # 200
<1>1. ASSUME NEW kind, NEW spec, NEW statements, Accept(kind, spec, statements, who)
      PROVE  \/ request'.phase = "done" /\ request'.status # 200
             \/ spec # Invalid /\ request' = [phase |-> "reading", kind |-> kind, spec |-> spec,
                                              statements |-> statements, got |-> <<>>, stored |-> 0]
    BY <1>1 DEF Accept, Refuse
<1>2. ASSUME NEW kind, NEW spec, NEW statements, NEW r,
             r = [phase |-> "reading", kind |-> kind, spec |-> spec, statements |-> statements,
                  got |-> <<>>, stored |-> 0],
             Prepared(r), IsSeq(statements)
      PROVE  r.phase = "reading" /\ Reading(r) /\ r.got = <<>>
    <2>1. IsSeq(<<>>) /\ Len(<<>>) = 0 /\ Len(statements) \in Nat
        BY <1>2, Alone DEF IsSeq
    <2> QED BY <1>2, <2>1 DEF Reading
<1>3. CASE AskQuery(b, who)
    <2> PICK q : q = ParseQuery(b)
        OBVIOUS
    <2>1. Accept("query", q, IF q = Invalid THEN <<>> ELSE QueryStatements(q), who)
        BY <1>3, Zenon DEF AskQuery
    <2> SUFFICES ASSUME q # Invalid,
                        request' = [phase |-> "reading", kind |-> "query", spec |-> q,
                                    statements |-> QueryStatements(q), got |-> <<>>, stored |-> 0]
                 PROVE  request'.phase = "reading" /\ Reading(request') /\ request'.got = <<>>
        BY <1>1, <2>1
    <2>2. GoodSpec(q) /\ q.range \in [start : Int, end : Int]
        BY BodiesAreRead, ParsedIsGood
    <2> PICK r : r = request'
        OBVIOUS
    <2>3. IsSeq(QueryStatements(q)) /\ ToSet(QueryStatements(q)) = QueryAsks(q)
        BY QueryIsPrepared
    <2>4. r.kind = "query" /\ r.spec = q /\ r.statements = QueryStatements(q)
        OBVIOUS
    <2>5. Prepared(r)
        BY <2>2, <2>3, <2>4 DEF Prepared
    <2> QED BY <1>2, <2>3, <2>5
<1>4. CASE AskCompare(b, who)
    <2> PICK c : c = ParseCompare(b)
        OBVIOUS
    <2>1. Accept("compare", c, IF c = Invalid THEN <<>> ELSE CompareStatements(c), who)
        BY <1>4, Zenon DEF AskCompare
    <2> SUFFICES ASSUME c # Invalid,
                        request' = [phase |-> "reading", kind |-> "compare", spec |-> c,
                                    statements |-> CompareStatements(c), got |-> <<>>, stored |-> 0]
                 PROVE  request'.phase = "reading" /\ Reading(request') /\ request'.got = <<>>
        BY <1>1, <2>1
    <2>2. GoodComparison(c)
        BY ComparisonIsGood
    <2> PICK r : r = request'
        OBVIOUS
    <2>3. IsSeq(CompareStatements(c)) /\ ToSet(CompareStatements(c)) = CompareAsks(c)
        BY CompareIsPrepared
    <2>4. r.kind = "compare" /\ r.spec = c /\ r.statements = CompareStatements(c)
        OBVIOUS
    <2>5. Prepared(r)
        BY <2>2, <2>3, <2>4 DEF Prepared
    <2> QED BY <1>2, <2>3, <2>5
<1>5. CASE AskQuality(b, who)
    <2> PICK t : t = ParseTrafficQuality(b)
        OBVIOUS
    <2>1. Accept("quality", t, IF t = Invalid THEN <<>> ELSE QualityStatements(t), who)
        BY <1>5, Zenon DEF AskQuality
    <2> SUFFICES ASSUME t # Invalid,
                        request' = [phase |-> "reading", kind |-> "quality", spec |-> t,
                                    statements |-> QualityStatements(t), got |-> <<>>, stored |-> 0]
                 PROVE  request'.phase = "reading" /\ Reading(request') /\ request'.got = <<>>
        BY <1>1, <2>1
    <2>2. GoodQuality(t)
        BY QualityIsGood
    <2> PICK r : r = request'
        OBVIOUS
    <2>3. /\ IsSeq(QualityStatements(t))
          /\ ToSet(QualityStatements(t)) \subseteq QualityMust(t) \cup QualityMay(t)
          /\ QualityMust(t) \subseteq ToSet(QualityStatements(t))
        BY QualityIsPrepared
    <2>4. r.kind = "quality" /\ r.spec = t /\ r.statements = QualityStatements(t)
        OBVIOUS
    <2>5. Prepared(r)
        BY <2>2, <2>3, <2>4 DEF Prepared
    <2> QED BY <1>2, <2>3, <2>5
<1> QED BY <1>3, <1>4, <1>5

LEMMA ReadingExtends ==
    ASSUME TableInv, NEW r, Reading(r), Fresh(r), Len(r.got) # Len(r.statements), NEW r2,
           LET s == r.statements[Len(r.got) + 1]
               got == Aggregate(s.spec)
           IN  /\ ~(got.overflow /\ s.role \notin {"browser", "device"})
               /\ r2.got = Append(r.got, got),
           r2.statements = r.statements, r2.kind = r.kind, r2.spec = r.spec, r2.stored = r.stored,
           DOMAIN r2 = DOMAIN r
    PROVE  Reading(r2) /\ Fresh(r2)
<1> PICK n, s, got, t : n = Len(r.got) + 1 /\ s = r.statements[n] /\ got = Aggregate(s.spec) /\ t = r2.got
    OBVIOUS
<1>0. t = Append(r.got, got) /\ ~(got.overflow /\ s.role \notin {"browser", "device"})
    OBVIOUS
<1>1. IsSeq(r.got) /\ IsSeq(r.statements) /\ Len(r.got) <= Len(r.statements)
    BY DEF Reading
<1>2. /\ IsSeq(t) /\ Len(t) = n /\ t[n] = got
      /\ \A i \in 1..Len(r.got) : t[i] = r.got[i]
    <2> PICK g : g = r.got
        OBVIOUS
    <2>1. /\ IsSeq(Append(g, got)) /\ Len(Append(g, got)) = Len(g) + 1 /\ Append(g, got)[Len(g) + 1] = got
          /\ \A i \in 1..Len(g) : Append(g, got)[i] = g[i]
        BY <1>1, Appended
    <2> QED BY <1>0, <2>1, Zenon
<1>3. Len(r.got) \in Nat /\ Len(r.statements) \in Nat
    BY <1>1 DEF IsSeq
<1>4. n \in 1..Len(r.statements) /\ Len(t) <= Len(r.statements)
    BY <1>1, <1>2, <1>3
<1>5. \A i \in 1..Len(t) : i \in 1..Len(r.got) \/ i = n
    BY <1>2, <1>3
<1>6. s \in ToSet(r.statements)
    BY <1>1, <1>4 DEF IsSeq, ToSet
<1>7. Settled(r.kind, s, got)
    <2> SUFFICES ASSUME r.kind = "quality", s.role = "rows" PROVE \A row \in got.rows : Honest(row)
        BY <1>0 DEF Settled
    <2>1. /\ GoodSpec(r.spec.query) /\ r.spec.query.metrics = QualityMetrics
          /\ ToSet(r.statements) \subseteq QualityMust(r.spec) \cup QualityMay(r.spec)
        BY DEF Reading, Prepared, GoodQuality
    <2>2. s.spec = r.spec.query
        BY <1>6, <2>1 DEF QualityMust, QualityMay, Statement
    <2>3. got = Aggregate(r.spec.query)
        BY <2>2
    <2>4. \A row \in Aggregate(r.spec.query).rows : Honest(row)
        <3> PICK q : q = r.spec.query
            OBVIOUS
        <3> SUFFICES ASSUME NEW row \in Aggregate(q).rows PROVE Honest(row)
            OBVIOUS
        <3>1. row.missing \in Nat /\ (row.missing > 0 => row.values["bounces"] = Null)
            BY <2>1, RowsAreHonest
        <3> QED BY <3>1 DEF Honest
    <2> QED BY <2>3, <2>4, Zenon
<1>8. \A i \in 1..Len(r2.got) : Settled(r2.kind, r2.statements[i], r2.got[i])
    BY <1>2, <1>5, <1>7 DEF Reading
<1>9. Prepared(r2)
    BY DEF Reading, Prepared
<1>10. Reading(r2)
    BY <1>1, <1>2, <1>4, <1>8, <1>9 DEF Reading
<1>11. Fresh(r2)
    BY <1>2, <1>5 DEF Fresh
<1> QED BY <1>10, <1>11

LEMMA ReadingGoesOn ==
    ASSUME TableInv, Reading(request), Fresh(request), request.phase = "reading", ReadStatement
    PROVE  \/ request'.phase = "reading" /\ Reading(request') /\ Fresh(request')
           \/ request'.phase = "done" /\ request'.status # 200
<1> DEFINE next == request.statements[Len(request.got) + 1]
           read == Aggregate(next.spec)
<1>1. Len(request.got) # Len(request.statements)
    BY DEF ReadStatement, AllRead
<1>2. \/ Refuse(422)
      \/ /\ ~(read.overflow /\ next.role \notin {"browser", "device"})
         /\ request' = [request EXCEPT !.got = Append(request.got, read)]
    BY Zenon DEF ReadStatement
<1>3. Refuse(422) => request'.phase = "done" /\ request'.status # 200
    BY DEF Refuse
<1> SUFFICES ASSUME ~(read.overflow /\ next.role \notin {"browser", "device"}),
                    request' = [request EXCEPT !.got = Append(request.got, read)]
             PROVE  request'.phase = "reading" /\ Reading(request') /\ Fresh(request')
    BY <1>2, <1>3
<1> PICK r, r2 : r = request /\ r2 = request'
    OBVIOUS
<1>4. /\ Reading(r) /\ Fresh(r) /\ Len(r.got) # Len(r.statements)
      /\ next = r.statements[Len(r.got) + 1] /\ r2 = [r EXCEPT !.got = Append(r.got, read)]
    BY <1>1
<1>5. /\ r2.got = Append(r.got, read) /\ r2.statements = r.statements /\ r2.kind = r.kind /\ r2.spec = r.spec
      /\ r2.stored = r.stored /\ r2.phase = "reading" /\ DOMAIN r2 = DOMAIN r
    BY <1>4 DEF Reading
<1>6. Reading(r2) /\ Fresh(r2)
    BY <1>4, <1>5, ReadingExtends
<1> QED BY <1>5, <1>6

LEMMA HitsArrive ==
    ASSUME TableInv, Reading(request), request.phase = "reading", NEW h \in LateHits, Arrive(h)
    PROVE  TableInv' /\ request'.phase = "reading" /\ Reading(request') /\ request'.stored # 0
<1> PICK r, r2 : r = request /\ r2 = request'
    OBVIOUS
<1>1. Reading(r) /\ r.phase = "reading" /\ r2 = [r EXCEPT !.stored = r.stored + 1] /\ table' = table \cup {h}
    BY DEF Arrive
<1>2. /\ r2.got = r.got /\ r2.statements = r.statements /\ r2.kind = r.kind /\ r2.spec = r.spec
      /\ r2.stored = r.stored + 1 /\ r2.phase = "reading" /\ DOMAIN r2 = DOMAIN r
    BY <1>1 DEF Reading
<1>3. Prepared(r2)
    BY <1>1, <1>2 DEF Reading, Prepared
<1>4. Reading(r2) /\ r2.stored # 0
    BY <1>1, <1>2, <1>3 DEF Reading
<1>5. table' \in SUBSET Hits
    BY <1>1, ApiV1Assumption DEF TableInv
<1>6. IsFiniteSet(table')
    BY <1>1, FS_AddElement DEF TableInv
<1> QED BY <1>2, <1>4, <1>5, <1>6 DEF TableInv

\* Until a hit arrives, each answer is that of its statement over the table;
\* once one has, nothing is claimed of the sums.
ApiInv ==
    /\ TableInv
    /\ request.phase = "reading" => Reading(request) /\ Fresh(request)
    /\ AnswersAddUp

LEMMA ApiStepAddsUp ==
    ASSUME ApiInv, [NextApi /\ UNCHANGED report]_<<reportVars, apiVars>>
    PROVE  ApiInv'
<1> USE DEF ApiInv
<1>1. ASSUME table' = table, request'.phase = "reading", Reading(request'), Fresh(request')
      PROVE  ApiInv'
    <2> PICK r : r = request'
        OBVIOUS
    <2>1. Fresh(r)'
        <3>1. Fresh(r) /\ \A s : Aggregate(s)' = Aggregate(s)
            BY <1>1, AggregatesStay
        <3> QED BY <3>1 DEF Fresh
    <2>2. Reading(r)
        BY <1>1
    <2>3. TableInv'
        BY <1>1 DEF TableInv
    <2>4. AnswersAddUp'
        BY <1>1 DEF AnswersAddUp
    <2> QED BY <1>1, <2>1, <2>2, <2>3, <2>4
<1>2. ASSUME table' = table, request'.phase = "done", request'.status # 200
      PROVE  ApiInv'
    BY <1>2 DEF TableInv, AnswersAddUp
<1>3. CASE Ask
    <2>1. table' = table
        BY <1>3 DEF Ask
    <2>2. PICK b \in Bodies, who \in Callers :
             \/ AskQuery(b, who) \/ AskCompare(b, who) \/ AskQuality(b, who)
             \/ \E d, search : AskValues(d, b, search, who)
        BY <1>3, Zenon DEF Ask
    <2>3. CASE AskQuery(b, who) \/ AskCompare(b, who) \/ AskQuality(b, who)
        <3>1. request'.got = <<>> => Fresh(request')
            BY DEF Fresh
        <3> QED BY <1>1, <1>2, <2>1, <2>3, <3>1, AskedIsReading
    <2>4. CASE \E d, search : AskValues(d, b, search, who)
        <3>1. PICK d, search : AskValues(d, b, search, who)
            BY <2>4
        <3>2. request'.phase = "done" /\ (request'.status # 200 \/ request'.kind = "values")
            BY <3>1, ValuesAreListed DEF Refuse
        <3> QED BY <2>1, <3>2 DEF TableInv, AnswersAddUp
    <2> QED BY <2>2, <2>3, <2>4
<1>4. CASE ReadStatement
    <2>1. table' = table /\ request.phase = "reading"
        BY <1>4 DEF ReadStatement
    <2> QED BY <1>1, <1>2, <1>4, <2>1, ReadingGoesOn
<1>5. CASE StatementFails
    BY <1>2, <1>5 DEF StatementFails, Refuse
<1>6. CASE AnswerQuery \/ AnswerCompare \/ AnswerQuality
    <2>1. table' = table /\ request.phase = "reading" /\ request'.phase = "done"
        <3>1. request.phase = "reading" /\ \E rows, cut, totals : Answered(rows, cut, totals)
            BY <1>6, Zenon DEF AnswerQuery, AnswerCompare, AnswerQuality, Leading
        <3> QED BY <3>1 DEF Answered
    <2>2. AnswersAddUp'
        BY <1>6, <2>1, QueryIsAnswered, CompareIsAnswered, QualityIsAnswered
    <2> QED BY <2>1, <2>2 DEF TableInv
<1>7. ASSUME NEW h \in LateHits, Arrive(h) PROVE ApiInv'
    <2>1. request.phase = "reading"
        BY <1>7 DEF Arrive
    <2>2. TableInv' /\ request'.phase = "reading" /\ Reading(request') /\ request'.stored # 0
        BY <1>7, <2>1, HitsArrive
    <2> QED BY <2>2 DEF Fresh, AnswersAddUp
<1>8. CASE UNCHANGED <<reportVars, apiVars>>
    <2>1. table' = table /\ request' = request
        BY <1>8 DEF reportVars, apiVars
    <2> PICK r : r = request
        OBVIOUS
    <2>2. TableInv'
        BY <2>1 DEF TableInv
    <2>3. request'.phase = "reading" => Reading(request)' /\ Fresh(request)'
        <3>1. \A s : Aggregate(s)' = Aggregate(s)
            BY <2>1, AggregatesStay
        <3> QED BY <2>1, <3>1 DEF Fresh
    <2>4. AnswersAddUp'
        <3>1. QueryAddsUp(r) => QueryAddsUp(r)'
            BY <2>1, SumsStay
        <3> QED BY <2>1, <3>1 DEF AnswersAddUp
    <2> QED BY <2>2, <2>3, <2>4
<1> QED BY <1>3, <1>4, <1>5, <1>6, <1>7, <1>8 DEF NextApi

(* What API v1 answers adds up, for every table, every request it accepts and  *)
(* every hit that arrives while it reads: the rows of an answer with its total *)
(* when nothing is cut and nothing arrives, and no quality mark from bounces   *)
(* that lack a key.                                                            *)
THEOREM WhatIsAnsweredAddsUp == ApiSpec => []AnswersAddUp
<1>1. InitReports /\ InitApi => ApiInv
    BY DEF InitReports, InitApi, Waiting, ApiInv, TableInv, AnswersAddUp
<1>2. ApiInv /\ [NextApi /\ UNCHANGED report]_<<reportVars, apiVars>> => ApiInv'
    BY ApiStepAddsUp
<1>3. ApiInv => AnswersAddUp
    BY DEF ApiInv
<1> QED BY <1>1, <1>2, <1>3, PTL DEF ApiSpec
=============================================================================
