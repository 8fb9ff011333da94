--------------------------- MODULE VisitorBackfill ---------------------------
(***************************************************************************)
(* Imported Umami pageviews and the backfill that turns their digests into *)
(* permanent aggregates (visitor_counting.aggregate_events_into_daily), on *)
(* one site, beside live ingestion, the rollup and retention.              *)
(*                                                                         *)
(* Live pageviews reach the permanent tables through visitor_day_state and *)
(* the rollup, imported ones through the backfill; both keep their digest  *)
(* on the event row, where the backfill finds them.  It works out which    *)
(* days are accounted for already, attributes every digest to the day of   *)
(* its first pageview, and skips the digest when that day is accounted     *)
(* for.  Its statements are separate actions under READ COMMITTED; rollup  *)
(* and retention batches are one action each: they take the same advisory  *)
(* lock and VisitorRollup shows what their transactions guarantee.         *)
(***************************************************************************)
EXTENDS Integers, FiniteSets

CONSTANTS
    Visitors,
    Source,         \* pageviews of the Umami database: [id, day, session]
    DaysPerPeriod,  \* length of a calendar month
    RetentionDays,  \* VISITOR_KEY_RETENTION_DAYS
    LastDay,        \* bound: the clock stops in this day
    MaxHits,        \* bound: live pageviews
    MaxImports,     \* bound: imports started
    MaxTraffic      \* bound: both together

Days == 0..LastDay
Hits == 1..MaxHits
ImportedIds == {r.id : r \in Source}
Ids == Hits \cup ImportedIds
Period(d) == d \div DaysPerPeriod
Periods == {Period(d) : d \in Days}

ASSUME VisitorBackfillAssumption ==
    /\ DaysPerPeriod \in Nat \ {0}
    /\ RetentionDays \in Nat
    /\ LastDay \in Nat
    /\ MaxHits \in Nat
    /\ MaxImports \in Nat /\ MaxTraffic \in Nat
    /\ \A r \in Source : r.day \in Days /\ r.id \in Nat \ Hits
    /\ \A r, s \in Source : r.id = s.id => r = s

VARIABLES
    today,
    hits,        \* live pageviews received so far
    events,      \* website_event: the pageviews stored
    unfolded,    \* live pageviews whose fold has not run yet
    state,       \* visitor_day_state, by pageview
    dailyDays,   \* days that have a site row in visitor_daily
    rolledUp,    \* times the rollup added each pageview to the aggregates
    backfilled,  \* times the backfill did
    import,      \* days the running import still has to copy, or NoImport
    imports,     \* imports started so far
    tx,          \* the open backfill transaction, or NoTx
    copies,      \* history: times each pageview was inserted
    visits,      \* history: pageviews ever folded, with their digest
    doubtful     \* history: digests a backfill took up too early

backfillVars == <<today, hits, events, unfolded, state, dailyDays, rolledUp,
                  backfilled, import, imports, tx, copies, visits, doubtful>>

\* A live digest is one visitor's for a month, an imported one a session's.
LiveKey == [visitor : Visitors, period : Periods]
ImportedKey == [session : {r.session : r \in Source}]
Keys == LiveKey \cup ImportedKey
NoKey == [absent |-> TRUE]

Pageview == [id : Ids, day : Days, key : Keys]
Event == [id : Ids, day : Days, key : Keys \cup {NoKey}]

NoImport == [idle |-> TRUE]
NoTx == [idle |-> TRUE]
Tx == [accounted : SUBSET Days, folded : SUBSET Ids,
       counted : SUBSET Pageview, days : SUBSET Days, scanned : BOOLEAN]

LockFree == tx = NoTx

InitBackfill ==
    /\ today = 0
    /\ hits = 0
    /\ events = {}
    /\ unfolded = {}
    /\ state = {}
    /\ dailyDays = {}
    /\ rolledUp = [i \in Ids |-> 0]
    /\ backfilled = [i \in Ids |-> 0]
    /\ import = NoImport
    /\ imports = 0
    /\ tx = NoTx
    /\ copies = [i \in Ids |-> 0]
    /\ visits = {}
    /\ doubtful = {}

NextDay ==
    /\ today < LastDay
    /\ today' = today + 1
    /\ UNCHANGED <<hits, events, unfolded, state, dailyDays, rolledUp,
                   backfilled, import, imports, tx, copies, visits, doubtful>>

(***************************************************************************)
(* Live traffic (VisitorIngest) and maintenance (VisitorRollup).           *)
(***************************************************************************)

\* ingest_pageview's INSERT; its own digest may have failed.
StorePageview(v) ==
    /\ hits < MaxHits /\ hits + imports < MaxTraffic
    /\ LET k == [visitor |-> v, period |-> Period(today)]
           p == [id |-> hits + 1, day |-> today, key |-> k]
       IN  /\ unfolded' = unfolded \cup {p}
           /\ \E stored \in {k, NoKey} :
                 events' = events \cup {[p EXCEPT !.key = stored]}
           /\ copies' = [copies EXCEPT ![p.id] = @ + 1]
    /\ hits' = hits + 1
    /\ UNCHANGED <<today, state, dailyDays, rolledUp, backfilled, import,
                   imports, tx, visits, doubtful>>

Fold(p) ==
    /\ unfolded' = unfolded \ {p}
    /\ state' = state \cup {p}
    /\ visits' = visits \cup {p}
    /\ UNCHANGED <<today, hits, events, dailyDays, rolledUp, backfilled,
                   import, imports, tx, copies, doubtful>>

\* Swallowed with a warning, never retried.
FoldFails(p) ==
    /\ unfolded' = unfolded \ {p}
    /\ UNCHANGED <<today, hits, events, state, dailyDays, rolledUp, backfilled,
                   import, imports, tx, copies, visits, doubtful>>

\* The rollup of one finished month.
Rollup(m) ==
    LET unit == {p \in state : Period(p.day) = m} IN
    /\ LockFree
    /\ m < Period(today)
    /\ unit # {}
    /\ state' = state \ unit
    /\ dailyDays' = dailyDays \cup {p.day : p \in unit}
    /\ rolledUp' = [i \in Ids |->
                      rolledUp[i] + (IF \E p \in unit : p.id = i THEN 1 ELSE 0)]
    /\ UNCHANGED <<today, hits, events, unfolded, backfilled, import, imports,
                   tx, copies, visits, doubtful>>

\* The cutoff is an instant in the day `today - RetentionDays`; which pageviews
\* of that day are past it, their times of day decide.
Expired == {e \in events : e.key # NoKey /\ e.day <= today - RetentionDays}

\* Mutant: retention does not take the maintenance lock.
ExpireDigestsUnlocked ==
    \E B \in SUBSET Expired \ {{}} :
        /\ events' = (events \ B) \cup {[e EXCEPT !.key = NoKey] : e \in B}
        /\ UNCHANGED <<today, hits, unfolded, state, dailyDays, rolledUp,
                       backfilled, import, imports, tx, copies, visits,
                       doubtful>>

\* A batch of expire_digests: any of the expired rows, since it skips the ones
\* another transaction holds.  Whether a digest was ever aggregated does not
\* matter to it.
ExpireDigests ==
    /\ LockFree
    /\ \E B \in SUBSET Expired \ {{}} :
          events' = (events \ B) \cup {[e EXCEPT !.key = NoKey] : e \in B}
    /\ UNCHANGED <<today, hits, unfolded, state, dailyDays, rolledUp,
                   backfilled, import, imports, tx, copies, visits, doubtful>>

(***************************************************************************)
(* The importer (core.services.UmamiImporter): no lock, one transaction    *)
(* per table.                                                              *)
(***************************************************************************)

\* Umami's pageviews so far, from the --since day.
Rows(since) == {r \in Source : since <= r.day /\ r.day <= today}

\* --replace first deletes everything in the time range of the rows to come,
\* in a statement of its own.
StartImport(since, replace) ==
    /\ import = NoImport
    /\ imports < MaxImports /\ hits + imports < MaxTraffic
    /\ import' = [since |-> since]
    /\ imports' = imports + 1
    /\ events' = IF replace
                 THEN {e \in events : \A r, s \in Rows(since) :
                          e.day < r.day \/ s.day < e.day}
                 ELSE events
    /\ UNCHANGED <<today, hits, unfolded, state, dailyDays, rolledUp,
                   backfilled, tx, copies, visits, doubtful>>

\* ON CONFLICT (event_id) DO NOTHING: rows that are there stay as they are.
CopyEvents ==
    /\ import # NoImport
    /\ LET new == {r \in Rows(import.since) : \A e \in events : e.id # r.id}
       IN  /\ events' = events \cup
                {[id |-> r.id, day |-> r.day, key |-> [session |-> r.session]] :
                    r \in new}
           /\ copies' = [i \in Ids |->
                           copies[i] + (IF \E r \in new : r.id = i THEN 1 ELSE 0)]
    /\ import' = NoImport
    /\ UNCHANGED <<today, hits, unfolded, state, dailyDays, rolledUp,
                   backfilled, imports, tx, visits, doubtful>>

\* The process dies or the copy raises; what --replace deleted stays deleted.
ImportFails ==
    /\ import # NoImport
    /\ import' = NoImport
    /\ UNCHANGED <<today, hits, events, unfolded, state, dailyDays, rolledUp,
                   backfilled, imports, tx, copies, visits, doubtful>>

(***************************************************************************)
(* aggregate_events_into_daily.                                            *)
(***************************************************************************)

\* Mutant: days the rollup has emptied count as not accounted for.
BeginBackfillOnLiveState ==
    /\ LockFree
    /\ tx' = [accounted |-> {p.day : p \in state},
              folded |-> {v.id : v \in visits}, counted |-> {}, days |-> {},
              scanned |-> FALSE]
    /\ UNCHANGED <<today, hits, events, unfolded, state, dailyDays, rolledUp,
                   backfilled, import, imports, copies, visits, doubtful>>

\* The lock, which it waits for, and accounted_days.
BeginBackfill ==
    /\ LockFree
    /\ tx' = [accounted |-> {p.day : p \in state} \cup dailyDays,
              folded |-> {v.id : v \in visits}, counted |-> {}, days |-> {},
              scanned |-> FALSE]
    /\ UNCHANGED <<today, hits, events, unfolded, state, dailyDays, rolledUp,
                   backfilled, import, imports, copies, visits, doubtful>>

WithDigest == {e \in events : e.key # NoKey}

\* utc_day(times[0]) of a digest's group of rows.
FirstDay(k) ==
    CHOOSE d \in Days :
        /\ \E e \in WithDigest : e.key = k /\ e.day = d
        /\ \A e \in WithDigest : e.key = k => d <= e.day

\* The scan and the sessions, in memory; without any, the transaction ends.
ScanDigests ==
    /\ ~LockFree
    /\ ~tx.scanned
    /\ LET keys == {k \in {e.key : e \in WithDigest} :
                       FirstDay(k) \notin tx.accounted}
           counted == {e \in WithDigest : e.key \in keys}
       IN  /\ tx' = IF keys = {} THEN NoTx
                    ELSE [tx EXCEPT !.counted = counted,
                                    !.days = {FirstDay(k) : k \in keys},
                                    !.scanned = TRUE]
           /\ doubtful' = doubtful \cup
                {e.key : e \in {c \in counted : c.id \in Hits \ tx.folded}}
    /\ UNCHANGED <<today, hits, events, unfolded, state, dailyDays, rolledUp,
                   backfilled, import, imports, copies, visits>>

\* The upserts, the erasure of every row with a processed digest - also one
\* inserted since the scan - and the commit.
FinishBackfill ==
    /\ ~LockFree
    /\ tx.scanned
    /\ backfilled' = [i \in Ids |->
           backfilled[i] + (IF \E e \in tx.counted : e.id = i THEN 1 ELSE 0)]
    /\ dailyDays' = dailyDays \cup tx.days
    /\ events' = {IF \E c \in tx.counted : c.key = e.key
                  THEN [e EXCEPT !.key = NoKey] ELSE e : e \in events}
    /\ tx' = NoTx
    /\ UNCHANGED <<today, hits, unfolded, state, rolledUp, import, imports,
                   copies, visits, doubtful>>

\* A statement raises or the process dies: everything is rolled back.
BackfillFails ==
    /\ ~LockFree
    /\ tx' = NoTx
    /\ UNCHANGED <<today, hits, events, unfolded, state, dailyDays, rolledUp,
                   backfilled, import, imports, copies, visits, doubtful>>

NextBackfill ==
    \/ NextDay
    \/ \E v \in Visitors : StorePageview(v)
    \/ \E p \in unfolded : Fold(p) \/ FoldFails(p)
    \/ \E m \in Periods : Rollup(m)
    \/ ExpireDigests
    \/ \E since \in Days, replace \in BOOLEAN : StartImport(since, replace)
    \/ CopyEvents \/ ImportFails
    \/ BeginBackfill \/ ScanDigests \/ FinishBackfill \/ BackfillFails

BackfillSpec == InitBackfill /\ [][NextBackfill]_backfillVars

(***************************************************************************)
(* Properties.                                                             *)
(***************************************************************************)

\* Every variable keeps its type; a visit always has its digest.
TypeOK ==
    /\ today \in Days
    /\ hits \in 0..MaxHits
    /\ events \subseteq Event
    /\ unfolded \subseteq Pageview
    /\ state \subseteq Pageview
    /\ dailyDays \subseteq Days
    /\ rolledUp \in [Ids -> Nat]
    /\ backfilled \in [Ids -> Nat]
    /\ import = NoImport \/ import \in [since : Days]
    /\ imports \in 0..MaxImports
    /\ tx = NoTx \/ tx \in Tx
    /\ copies \in [Ids -> Nat]
    /\ visits \subseteq Pageview
    /\ doubtful \subseteq Keys

\* A pageview that the visit state counts is not counted by a backfill as
\* well, before or after its month is rolled up and its oldest digests have
\* expired, unless a pageview of its digest had no visit state yet when that
\* backfill worked out the accounted days.
CountedByOneSide ==
    \A v \in visits : backfilled[v.id] > 0 => v.key \in doubtful

\* "Retention must never erase its inputs" (expire_digests): what a backfill
\* has read keeps its digest until the backfill ends.
InputsSurvive ==
    ~LockFree =>
        \A c \in tx.counted, e \in events : e.id = c.id => e.key = c.key

\* The first day that read_visit_stats reads from digests: the month after the
\* one of the retention cutoff (_retention_split); days before come from
\* visitor_daily.
EventLower == DaysPerPeriod * (Period(today - RetentionDays) + 1)
ReadFromDigests == {e \in WithDigest : EventLower <= e.day}
ReadFromAggregates == {d \in dailyDays : d < EventLower}

\* "Avoids both a gap (nulled-key events counted nowhere) and a double count":
\* a pageview whose digest a backfill aggregated and erased is read from the
\* aggregates, those of the first day of its digest.
AggregatedIsRead ==
    \A e \in events :
        backfilled[e.id] > 0 =>
            e \in ReadFromDigests \/ \E d \in ReadFromAggregates : d <= e.day

\* "(site, day) pairs that already have live state are skipped to avoid double
\* counting": no pageview reaches the aggregates on both ways, or twice.
NeverCountedTwice ==
    \A i \in Ids :
        rolledUp[i] + backfilled[i]
            + (IF \E p \in state : p.id = i THEN 1 ELSE 0) <= 1

\* "The scheduled rollup folds [imported pageviews] into the anonymous
\* aggregates and discards the digests only once they age past the retention
\* window": no imported digest is erased before it has been aggregated.
ImportedDigestsAreFolded ==
    \A e \in events :
        e.id \in ImportedIds /\ e.key = NoKey => backfilled[e.id] > 0

(***************************************************************************)
(* The inductive invariant behind CountedByOneSide and InputsSurvive.      *)
(***************************************************************************)

\* An event is one row, of the site's own traffic or of one Umami row.
EventInv ==
    /\ \A e, f \in events : e.id = f.id => e = f
    /\ \A e \in events :
          /\ e.id \in Hits => e.id <= hits /\ e.key \in LiveKey \cup {NoKey}
          /\ \A r \in Source :
                r.id = e.id => e.key \in {[session |-> r.session], NoKey}

\* Live pageviews keep their day and digest from the event to the fold, and
\* once folded are in the visit state or of a day with aggregates.
PageviewInv ==
    /\ state \subseteq visits /\ unfolded \cap visits = {}
    /\ \A p, q \in unfolded \cup visits : p.id = q.id => p = q
    /\ \A p \in unfolded \cup visits :
          /\ p.id \in Hits /\ p.id <= hits
          /\ \A e \in events :
                e.id = p.id => e.day = p.day /\ e.key \in {p.key, NoKey}
    /\ \A v \in visits : v \in state \/ v.day \in dailyDays

\* What the open transaction has read is still there: the folds that make a
\* day accounted for, and the digests of the pageviews it counts.
BackfillTxInv ==
    ~LockFree =>
        /\ tx.folded \subseteq {v.id : v \in visits}
        /\ \A v \in visits : v.id \in tx.folded => v.day \in tx.accounted
        /\ \A c \in tx.counted :
              /\ c.key # NoKey
              /\ c.id \in Hits => c.id <= hits
              /\ \A r \in Source : r.id = c.id => c.key = [session |-> r.session]
              /\ \A e \in events : e.id = c.id => e.key = c.key
              /\ \A p \in unfolded \cup visits : c.id = p.id => p.key \in doubtful

\* A live pageview that a backfill counted, folded or not, has a digest that
\* was taken up too early.
DoubtInv ==
    /\ \A i \in Hits : i > hits => backfilled[i] = 0
    /\ \A p \in unfolded \cup visits : backfilled[p.id] > 0 => p.key \in doubtful

BackfillInv == EventInv /\ PageviewInv /\ BackfillTxInv /\ DoubtInv
=============================================================================
