------------------------------ MODULE VisitFold ------------------------------
(***************************************************************************)
(* The visit state of one visitor on one site and UTC day: the single      *)
(* visitor_day_state row that web workers fold pageviews and engagement    *)
(* beacons into (core/mantecato_core/visitor_writes.py), and the three     *)
(* places that turn such a row into visits, bounces and on-site time: the  *)
(* fold itself when it closes a visit, the live dashboard                  *)
(* (visitor_counting.aggregate_state) and the monthly rollup               *)
(* (visitor_rollup._rollup_unit).                                          *)
(*                                                                         *)
(* A request is stamped with timezone.now() when its handler starts and    *)
(* its one-statement fold commits later, so folds of one visitor commit in *)
(* any order; a fold that raises is logged and swallowed by the handler.   *)
(*                                                                         *)
(* Time is counted in ticks, TicksPerSecond of them to a second: the fold  *)
(* compares whole seconds, the beacon compares exact timestamps.           *)
(***************************************************************************)
EXTENDS Integers, Sequences, FiniteSets

CONSTANTS
    SessionTimeout,   \* SESSION_TIMEOUT_S, seconds
    TicksPerSecond,   \* resolution of the timestamps
    Thresholds,       \* values BOUNCE_ENGAGEMENT_THRESHOLD_S may be deployed with
    EngagedSeconds,   \* active seconds a beacon may carry (1.._MAX_ENGAGEMENT_S)
    LastTick,         \* bound: the clock stops here
    MaxHits,          \* bound: requests of this visitor
    MaxInFlight,      \* bound: requests of this visitor being handled at once
    MaxLatency        \* bound: ticks between a request's stamp and its fold

ASSUME VisitFoldAssumption ==
    /\ SessionTimeout \in Nat
    /\ TicksPerSecond \in Nat \ {0}
    /\ Thresholds \subseteq Nat
    /\ EngagedSeconds \subseteq Nat \ {0}
    /\ LastTick \in Nat
    /\ MaxHits \in Nat
    /\ MaxInFlight \in Nat
    /\ MaxLatency \in Nat

VARIABLES
    now,        \* timezone.now(), in ticks
    threshold,  \* _bounce_threshold() of this deployment
    pending,    \* stamped requests whose fold has not committed
    row,        \* the visitor_day_state row, or NoRow
    issued,     \* requests stamped so far
    log         \* history: the hits whose fold ran, in commit order

vars == <<now, threshold, pending, row, issued, log>>

Hit == [id : 1..MaxHits, at : 0..LastTick, secs : EngagedSeconds \cup {0}]
IsPageview(h) == h.secs = 0

Row == [visits : Nat, bounces : Nat, cur_pv : Nat, cur_dur : Nat,
        engaged : Nat, total_pv : Nat, total_dur : Nat, last_seen : Nat]
NoRow == [absent |-> TRUE]

(***************************************************************************)
(* The fold's statements.                                                  *)
(***************************************************************************)

\* GREATEST(0, FLOOR(EXTRACT(EPOCH FROM new - old))), whole seconds.
Gap(old, new) == IF new > old THEN (new - old) \div TicksPerSecond ELSE 0

Count(b) == IF b THEN 1 ELSE 0

StartsVisit(r, at) == Gap(r.last_seen, at) > SessionTimeout

\* The verdict on a visit in the fold that closes it, and in the rollup.
Bounced(r) ==
    /\ r.cur_pv <= 1
    /\ threshold = 0 \/ r.cur_dur + r.engaged < threshold

FirstVisit(at) ==
    [visits |-> 1, bounces |-> 0, cur_pv |-> 1, cur_dur |-> 0,
     engaged |-> 0, total_pv |-> 1, total_dur |-> 0, last_seen |-> at]

\* Mutant: last_seen is not refreshed inside a visit.
ContinueVisitFromItsStart(r, at) ==
    [r EXCEPT !.cur_pv = @ + 1,
              !.cur_dur = @ + (IF r.engaged > 0 THEN r.engaged ELSE Gap(r.last_seen, at)),
              !.engaged = 0,
              !.total_pv = @ + 1]

\* The ON CONFLICT branch inside the visit that is open...
ContinueVisit(r, at) ==
    [visits |-> r.visits,
     bounces |-> r.bounces,
     cur_pv |-> r.cur_pv + 1,
     cur_dur |-> r.cur_dur + (IF r.engaged > 0 THEN r.engaged ELSE Gap(r.last_seen, at)),
     engaged |-> 0,
     total_pv |-> r.total_pv + 1,
     total_dur |-> r.total_dur,
     last_seen |-> at]

\* Mutants: a new visit that keeps the old one's duration, and one that closes
\* it by the classic rule alone.
NextVisitKeepsDuration(r, at) ==
    [r EXCEPT !.visits = @ + 1, !.bounces = @ + Count(Bounced(r)), !.cur_pv = 1,
              !.engaged = 0, !.total_pv = @ + 1, !.last_seen = at]
NextVisitIgnoresThreshold(r, at) ==
    [r EXCEPT !.visits = @ + 1, !.bounces = @ + Count(r.cur_pv <= 1), !.cur_pv = 1,
              !.cur_dur = 0, !.engaged = 0, !.total_pv = @ + 1,
              !.total_dur = @ + r.cur_dur + r.engaged, !.last_seen = at]

\* ... and when the gap closes that visit and opens the next one.
NextVisit(r, at) ==
    [visits |-> r.visits + 1,
     bounces |-> r.bounces + Count(Bounced(r)),
     cur_pv |-> 1,
     cur_dur |-> 0,
     engaged |-> 0,
     total_pv |-> r.total_pv + 1,
     total_dur |-> r.total_dur + r.cur_dur + r.engaged,
     last_seen |-> at]

FoldedVisit(r, at) ==
    IF r = NoRow THEN FirstVisit(at)
    ELSE IF StartsVisit(r, at) THEN NextVisit(r, at)
    ELSE ContinueVisit(r, at)

\* Mutant: a beacon of any age is folded.
BeaconAcceptedAlways(r, h) == TRUE

\* The WHERE clause of fold_engagement.
BeaconAccepted(r, h) ==
    /\ r.last_seen >= h.at - SessionTimeout * TicksPerSecond
    /\ r.engaged < h.secs \/ r.last_seen < h.at

MaxOf(a, b) == IF a >= b THEN a ELSE b

\* Mutant: the beacon overwrites instead of taking the GREATEST.
BeaconOverwrites(r, h) == [r EXCEPT !.engaged = h.secs, !.last_seen = h.at]

Engaged(r, h) ==
    [r EXCEPT !.engaged = MaxOf(@, h.secs), !.last_seen = MaxOf(@, h.at)]

(***************************************************************************)
(* The three readings of a row.                                            *)
(***************************************************************************)

\* visitor_counting._open_bounce_filter: looks at the current page only.
OpenBounce(r) ==
    /\ r.cur_pv <= 1
    /\ threshold > 0 => r.engaged < threshold

\* visitor_counting.aggregate_state over this row.
LiveTotals(r) ==
    [visits |-> r.visits,
     bounces |-> r.bounces + Count(OpenBounce(r)),
     pageviews |-> r.total_pv,
     duration |-> r.total_dur + r.cur_dur + r.engaged]

\* The sums of visitor_rollup._rollup_unit over this row.
RollupTotals(r) ==
    [visits |-> r.visits,
     bounces |-> r.bounces + Count(Bounced(r)),
     pageviews |-> r.total_pv,
     duration |-> r.total_dur + r.cur_dur + r.engaged]

(***************************************************************************)
(* Behaviour.                                                              *)
(***************************************************************************)

Init ==
    /\ now = 0
    /\ threshold \in Thresholds
    /\ pending = {}
    /\ row = NoRow
    /\ issued = 0
    /\ log = <<>>

Tick ==
    /\ now < LastTick
    /\ \A h \in pending : now - h.at < MaxLatency
    /\ now' = now + 1
    /\ UNCHANGED <<threshold, pending, row, issued, log>>

\* A request of this visitor reaches a worker, which reads the clock.
Stamp(secs) ==
    /\ issued < MaxHits
    /\ Cardinality(pending) < MaxInFlight
    /\ issued' = issued + 1
    /\ pending' = pending \cup {[id |-> issued + 1, at |-> now, secs |-> secs]}
    /\ UNCHANGED <<now, threshold, row, log>>

FoldVisit(h) ==
    /\ IsPageview(h)
    /\ row' = FoldedVisit(row, h.at)
    /\ log' = Append(log, h)
    /\ pending' = pending \ {h}
    /\ UNCHANGED <<now, threshold, issued>>

\* A beacon with no row, or one the WHERE clause rejects, updates nothing.
FoldEngagement(h) ==
    /\ ~IsPageview(h)
    /\ row' = IF row # NoRow /\ BeaconAccepted(row, h) THEN Engaged(row, h) ELSE row
    /\ log' = Append(log, h)
    /\ pending' = pending \ {h}
    /\ UNCHANGED <<now, threshold, issued>>

\* The fold raises (lock, connection): logged, swallowed, never retried.
FoldFails(h) ==
    /\ pending' = pending \ {h}
    /\ UNCHANGED <<now, threshold, row, issued, log>>

Next ==
    \/ Tick
    \/ \E secs \in EngagedSeconds \cup {0} : Stamp(secs)
    \/ \E h \in pending : FoldVisit(h) \/ FoldEngagement(h) \/ FoldFails(h)

Spec == Init /\ [][Next]_vars

-----------------------------------------------------------------------------
(***************************************************************************)
(* Properties.                                                             *)
(***************************************************************************)

\* The type invariant.
TypeOK ==
    /\ now \in 0..LastTick
    /\ threshold \in Thresholds
    /\ pending \subseteq Hit
    /\ row \in Row \cup {NoRow}
    /\ issued \in 0..MaxHits
    /\ log \in Seq(Hit)

\* The inductive invariant of a row, whatever order the folds commit in.  Its
\* counters speak of visits - 1 closed visits, which hold total_pv - cur_pv
\* pageviews, and of the open one.  An open visit of a single pageview has no
\* folded duration: _open_bounce_filter relies on that to look at one column.
RowSound(r) ==
    /\ r.cur_pv >= 1
    /\ r.cur_pv = 1 => r.cur_dur = 0
    /\ r.bounces <= r.visits - 1
    /\ r.total_pv - r.cur_pv >= r.visits - 1
    /\ threshold = 0 => r.total_pv - r.cur_pv >= 2 * (r.visits - 1) - r.bounces

RowInv == row # NoRow => RowSound(row)

\* The dashboard of the open month and the rollup of the finished month read the
\* same row with two different SQL formulas: they must report the same numbers,
\* or totals would jump when a month is finalised.
ReadingsAgree ==
    row # NoRow => LiveTotals(row) = RollupTotals(row)

\* Every visit holds at least one pageview and bounces at most once, whatever
\* order the folds commit in: a bounce rate never exceeds 100 %, and under the
\* classic rule (threshold 0) a visit that did not bounce holds two pageviews.
CountsAreConsistent ==
    row # NoRow =>
        LET t == LiveTotals(row)
        IN  /\ 0 <= t.bounces /\ t.bounces <= t.visits
            /\ t.visits <= t.pageviews
            /\ threshold = 0 => t.pageviews >= 2 * t.visits - t.bounces

\* On-site time shown for a visitor never goes down, whichever pageview or
\* beacon commits next and however late: closing a page or a visit moves
\* seconds between columns of the row and loses none of them.
ReportedTimeNeverShrinks ==
    [][row # NoRow => LiveTotals(row').duration >= LiveTotals(row).duration]_vars

\* A pageview that opens a new visit does not revise the verdict the dashboard
\* already showed for the visit it closes: the bounces grow by the new visit only.
ClosingKeepsTheVerdict ==
    [][row # NoRow /\ row'.visits > row.visits =>
         LiveTotals(row').bounces - Count(OpenBounce(row')) = LiveTotals(row).bounces]_vars

=============================================================================
