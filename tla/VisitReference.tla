--------------------------- MODULE VisitReference ---------------------------
(***************************************************************************)
(* What the fold of VisitFold promises, defined without folding: the       *)
(* read-time sessioniser (visitor_reads._session_sql / session_totals)     *)
(* over the pageviews alone, and the visits of a stream of pageviews and   *)
(* beacons.  Both read the history of the hits the fold has seen.          *)
(***************************************************************************)
EXTENDS VisitFold, FiniteSetsExt

Pageviews == {log[i] : i \in {i \in DOMAIN log : IsPageview(log[i])}}

\* ORDER BY created_at, event_id of the window functions: the i-th row is the
\* one that has i - 1 rows before it.
Before(a, b) == a.at < b.at \/ (a.at = b.at /\ a.id < b.id)
ByCreatedAt(events) ==
    [i \in 1..Cardinality(events) |->
        CHOOSE r \in events : Cardinality({q \in events : Before(q, r)}) = i - 1]

(***************************************************************************)
(* session_totals(integer_gap=True): LAG marks the starts, a running sum   *)
(* numbers the sessions, which are then grouped.                           *)
(***************************************************************************)
SessionTotals(events) ==
    LET s == ByCreatedAt(events)
        gap(i) == Gap(s[i - 1].at, s[i].at)
        starts == {i \in DOMAIN s : i = 1 \/ gap(i) > SessionTimeout}
    IN  [visits |-> Cardinality(starts),
         bounces |-> Cardinality({i \in starts : i = Len(s) \/ i + 1 \in starts}),
         pageviews |-> Len(s),
         duration |-> MapThenSumSet(gap, DOMAIN s \ starts)]

\* The folds committed in the order their requests were stamped.
InOrder == \A i \in 1..Len(log) - 1 : log[i].at <= log[i + 1].at

NoBeacons == \A i \in DOMAIN log : IsPageview(log[i])

\* active[i]: hit i kept the visit alive.  A beacon does when it comes no later
\* than the timeout after something that did; a stale one revives nothing.
Active ==
    LET active[i \in DOMAIN log] ==
            \/ IsPageview(log[i])
            \/ \E j \in 1..i - 1 :
                 active[j] /\ log[i].at - log[j].at <= SessionTimeout * TicksPerSecond
    IN  active

\* A pageview opens a visit when nothing active precedes it within the timeout.
VisitsKeptAlive ==
    Cardinality({i \in DOMAIN log :
        /\ IsPageview(log[i])
        /\ \A j \in 1..i - 1 :
             Active[j] => Gap(log[j].at, log[i].at) > SessionTimeout})

\* Without beacons, folds that commit in stamp order leave a row that reads
\* exactly as the read-time sessioniser reads the same pageviews: the live month
\* and the historical months are counted by one definition of a visit.
AgreesWithSessioniser ==
    InOrder /\ NoBeacons /\ row # NoRow =>
        LiveTotals(row) = SessionTotals(Pageviews)

\* With beacons, the visits are those of the activity stream: a beacon keeps an
\* open visit alive, and a dead visit is never revived by a stale one.
BeaconsKeepVisitsAlive ==
    InOrder /\ row # NoRow => row.visits = VisitsKeptAlive

\* "Produces exact (not estimated) metrics", with no condition on the order in
\* which the requests of one visitor commit.
VisitsAreExact ==
    NoBeacons /\ row # NoRow => LiveTotals(row).visits = SessionTotals(Pageviews).visits

=============================================================================
