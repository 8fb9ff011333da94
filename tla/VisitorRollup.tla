---------------------------- MODULE VisitorRollup ----------------------------
(***************************************************************************)
(* Offline maintenance (core/mantecato_core/visitor_rollup.py) running     *)
(* beside ingestion: retention of event digests, the rollup of finished    *)
(* months into visitor_daily and visitor_period, and the destruction of    *)
(* salts.                                                                  *)
(*                                                                         *)
(* Several invocations may overlap (cron, an operator).  They share a      *)
(* nonblocking advisory lock per transaction; ingestion takes no lock, and *)
(* PostgreSQL runs READ COMMITTED, so every statement of a unit's          *)
(* transaction reads what is committed when that statement starts.         *)
(*                                                                         *)
(* The permanent tables are kept by provenance: how often each pageview,   *)
(* and each visitor, went into the counters that are stored.               *)
(***************************************************************************)
EXTENDS VisitorIngest

CONSTANTS
    Runners,        \* bound: maintenance invocations at once
    Selections,     \* --website / --period filters they are started with
    Retention,      \* VISITOR_KEY_RETENTION_DAYS, in ticks
    BatchSize       \* expire_digests' batch_size

Nobody == [nobody |-> TRUE]

ASSUME VisitorRollupAssumption ==
    /\ Selections \subseteq [sites : SUBSET Sites, periods : SUBSET Periods]
    /\ Retention \in Nat /\ MaxLateness <= Retention
    /\ BatchSize \in Nat \ {0}
    /\ Nobody \notin Runners

VARIABLES
    daily,          \* visitor_daily: times each pageview was added
    monthly,        \* visitor_period, site scope: likewise
    landings,       \* visitor_period, landing scope: likewise
    monthVisitors,  \* visitor_period: times each visitor was added
    scopeVisitors,  \* visitor_period, other scopes: likewise
    job,            \* the invocation each runner is executing
    lock,           \* holder of the advisory lock, or Nobody
    tx,             \* what the lock holder's transaction did so far
    straggled,      \* history: pageviews folded into a unit being rolled up
    due             \* history: pageviews ripe when the invocation started

permanentVars == <<daily, monthly, landings, monthVisitors, scopeVisitors>>
rollupVars == <<permanentVars, job, lock, tx, straggled, due>>
vars == <<ingestVars, rollupVars>>

NoUnit == [none |-> TRUE]
NoTx == [unit |-> NoUnit, daily |-> {}, monthly |-> {}, landings |-> {},
         scopes |-> {}, salts |-> {}]

Tx == [unit : Units \cup {NoUnit}, daily : SUBSET Visit,
       monthly : SUBSET Visit, landings : SUBSET Visit,
       scopes : SUBSET Presence, salts : SUBSET Periods]

InTransaction == {"daily", "monthly", "landings", "scopes", "erase_scopes",
                  "erase", "salts", "commit"}
Phases == InTransaction \cup {"idle", "expire", "units", "post", "tail",
                              "verdict"}
Statuses == {"none", "completed", "dry_run", "busy", "budget_exhausted",
             "error"}

NoSelection == [sites |-> {}, periods |-> {}]

Job == [pc : Phases, now : Times, sel : Selections \cup {NoSelection},
        todo : SUBSET Units, over : BOOLEAN, status : Statuses,
        behind : BOOLEAN]

Goto(r, phase) == job' = [job EXCEPT ![r].pc = phase]
Conclude(r, st) == job' = [job EXCEPT ![r].pc = "tail", ![r].status = st]

(***************************************************************************)
(* What an invocation works on.                                            *)
(***************************************************************************)

ScopeUnit(n) == [site |-> n.site, period |-> n.period]

\* Mutant: a unit is found by its scope state only.
PendingUnitsByScope(j) ==
    {u \in {ScopeUnit(n) : n \in presence} :
        /\ u.site \in j.sel.sites
        /\ u.period \in j.sel.periods
        /\ Ended(u.period, j.now)}

\* _units: the finished (site, period) pairs with day or scope state.
PendingUnits(j) ==
    {u \in ({UnitOf(v) : v \in visits}
            \cup {ScopeUnit(n) : n \in presence}) :
        /\ u.site \in j.sel.sites
        /\ u.period \in j.sel.periods
        /\ Ended(u.period, j.now)}

\* Mutant: digests expire by whole months, like salts.
ExpiredByMonth(j) ==
    {e \in events : /\ e.key # NoKey
                    /\ e.site \in j.sel.sites
                    /\ Period(e.at) + 1 < Period(j.now - Retention)}

\* Event digests past the retention cutoff; --period does not apply to them.
Expired(j) ==
    {e \in events : /\ e.key # NoKey
                    /\ e.site \in j.sel.sites
                    /\ e.at < j.now - Retention}

\* ORDER BY created_at LIMIT batch_size FOR UPDATE SKIP LOCKED: rows that
\* another transaction is deleting are passed over.
Batches(j) ==
    LET free == Expired(j) \ lockedEvents IN
    {B \in SUBSET free :
        /\ Cardinality(B) = IF Cardinality(free) < BatchSize
                            THEN Cardinality(free) ELSE BatchSize
        /\ \A e \in B, f \in free \ B : e.at <= f.at}

\* Mutant: a site's last unit takes the salt all sites share.
DeadSaltsOfSite(j, P) ==
    {p \in P \cap Periods : salt[p] # 0 /\ Ended(p, j.now)}

\* _cleanup_salts: the given ended periods that no site has state of.
DeadSalts(j, P) ==
    {p \in P \cap Periods :
        /\ salt[p] # 0
        /\ Ended(p, j.now)
        /\ \A v \in visits \ lockedVisits : Period(v.at) # p
        /\ \A n \in presence \ lockedPresence : n.period # p}

RollupInit ==
    /\ daily = [h \in Hits |-> 0]
    /\ monthly = [h \in Hits |-> 0]
    /\ landings = [h \in Hits |-> 0]
    /\ monthVisitors = [u \in Units |-> [v \in Visitors |-> 0]]
    /\ scopeVisitors = [u \in Units |-> [v \in Visitors |-> 0]]
    /\ job = [r \in Runners |->
                [pc |-> "idle", now |-> 0, sel |-> NoSelection,
                 todo |-> {}, over |-> FALSE, status |-> "none",
                 behind |-> FALSE]]
    /\ lock = Nobody
    /\ tx = NoTx
    /\ straggled = {}
    /\ due = [r \in Runners |-> {}]

(***************************************************************************)
(* run_rollup.                                                             *)
(***************************************************************************)

\* The first transaction lists the units; a dry run stops there.
Start(r) ==
    /\ job[r].pc = "idle"
    /\ \E sel \in Selections, dry \in BOOLEAN :
          LET j == [pc |-> IF dry THEN "verdict" ELSE "expire",
                    now |-> clock, sel |-> sel, todo |-> {}, over |-> FALSE,
                    status |-> IF dry THEN "dry_run" ELSE "completed",
                    behind |-> FALSE]
          IN  /\ job' = [job EXCEPT ![r] = [j EXCEPT !.todo = PendingUnits(j)]]
              /\ due' = [due EXCEPT ![r] =
                           {v.hit : v \in {w \in visits :
                                    /\ w.site \in sel.sites
                                    /\ Period(w.at) \in sel.periods
                                    /\ Ended(Period(w.at), clock)}}]
    /\ UNCHANGED <<ingestVars, permanentVars, lock, tx, straggled>>

\* time.monotonic() passes the deadline.
DeadlinePasses(r) ==
    /\ job[r].pc \notin {"idle", "tail", "verdict"}
    /\ ~job[r].over
    /\ job' = [job EXCEPT ![r].over = TRUE]
    /\ UNCHANGED <<ingestVars, permanentVars, lock, tx, straggled, due>>

\* One batch of expire_digests, one transaction under the lock; a short batch
\* is the last, whether nothing that expired is left or the rest is locked.
ExpireBatch(r) ==
    /\ job[r].pc = "expire" /\ ~job[r].over
    /\ lock = Nobody
    /\ \E B \in Batches(job[r]) :
          /\ events' = (events \ B) \cup {[e EXCEPT !.key = NoKey] : e \in B}
          /\ IF Cardinality(B) < BatchSize
             THEN Goto(r, "units") ELSE UNCHANGED job
    /\ UNCHANGED <<clock, salt, saltsMade, cache, req, hits, visits, presence,
                   lockedVisits, lockedPresence, lockedEvents, folded, late,
                   permanentVars, lock, tx, straggled, due>>

ExpireBusy(r) ==
    /\ job[r].pc = "expire" /\ ~job[r].over
    /\ lock # Nobody
    /\ Conclude(r, "busy")
    /\ UNCHANGED <<ingestVars, permanentVars, lock, tx, straggled, due>>

ExpireOver(r) ==
    /\ job[r].pc = "expire" /\ job[r].over
    /\ Goto(r, "units")
    /\ UNCHANGED <<ingestVars, permanentVars, lock, tx, straggled, due>>

\* for site, key in units, oldest period first.
NextUnit(j) == {u \in j.todo : \A t \in j.todo : u.period <= t.period}

\* Mutant: the try-lock's answer is ignored.
BeginUnitUnlocked(r) ==
    /\ job[r].pc = "units" /\ ~job[r].over
    /\ \E u \in NextUnit(job[r]) :
          IF u \in PendingUnits(job[r])
          THEN /\ lock' = r
               /\ tx' = [NoTx EXCEPT !.unit = u]
               /\ job' = [job EXCEPT ![r].pc = "daily",
                                     ![r].todo = @ \ {u}]
          ELSE /\ job' = [job EXCEPT ![r].todo = @ \ {u}]
               /\ UNCHANGED <<lock, tx>>
    /\ UNCHANGED <<ingestVars, permanentVars, straggled, due>>

\* The unit's transaction takes the lock and checks that the unit is still
\* there.
BeginUnit(r) ==
    /\ job[r].pc = "units" /\ ~job[r].over
    /\ lock = Nobody
    /\ \E u \in NextUnit(job[r]) :
          IF u \in PendingUnits(job[r])
          THEN /\ lock' = r
               /\ tx' = [NoTx EXCEPT !.unit = u]
               /\ job' = [job EXCEPT ![r].pc = "daily",
                                     ![r].todo = @ \ {u}]
          ELSE /\ job' = [job EXCEPT ![r].todo = @ \ {u}]
               /\ UNCHANGED <<lock, tx>>
    /\ UNCHANGED <<ingestVars, permanentVars, straggled, due>>

\* The for loop stops before its next unit: the lock is held elsewhere, or
\* the budget is spent.
StopUnits(r) ==
    /\ job[r].pc = "units" /\ job[r].todo # {}
    /\ \/ job[r].over /\ Conclude(r, "budget_exhausted")
       \/ ~job[r].over /\ lock # Nobody /\ Conclude(r, "busy")
    /\ UNCHANGED <<ingestVars, permanentVars, lock, tx, straggled, due>>

EndUnits(r) ==
    /\ job[r].pc = "units" /\ job[r].todo = {}
    /\ Goto(r, "post")
    /\ UNCHANGED <<ingestVars, permanentVars, lock, tx, straggled, due>>

(***************************************************************************)
(* _rollup_unit and the unit's salt: one statement each, then COMMIT.      *)
(***************************************************************************)

OfUnit(u) == {v \in visits : UnitOf(v) = u}
PresenceOf(u) == {n \in presence : ScopeUnit(n) = u}

SumDaily(r) ==
    /\ job[r].pc = "daily"
    /\ tx' = [tx EXCEPT !.daily = OfUnit(tx.unit)]
    /\ Goto(r, "monthly")
    /\ UNCHANGED <<ingestVars, permanentVars, lock, straggled, due>>

SumMonthly(r) ==
    /\ job[r].pc = "monthly"
    /\ tx' = [tx EXCEPT !.monthly = OfUnit(tx.unit)]
    /\ Goto(r, "landings")
    /\ UNCHANGED <<ingestVars, permanentVars, lock, straggled, due>>

SumLandings(r) ==
    /\ job[r].pc = "landings"
    /\ tx' = [tx EXCEPT !.landings = OfUnit(tx.unit)]
    /\ Goto(r, "scopes")
    /\ UNCHANGED <<ingestVars, permanentVars, lock, straggled, due>>

SumScopes(r) ==
    /\ job[r].pc = "scopes"
    /\ tx' = [tx EXCEPT !.scopes = PresenceOf(tx.unit)]
    /\ Goto(r, "erase_scopes")
    /\ UNCHANGED <<ingestVars, permanentVars, lock, straggled, due>>

\* The DELETEs: the rows are gone for this transaction, locked for everybody
\* else until it ends.
EraseScopes(r) ==
    /\ job[r].pc = "erase_scopes"
    /\ lockedPresence' = PresenceOf(tx.unit)
    /\ Goto(r, "erase")
    /\ UNCHANGED <<clock, salt, saltsMade, cache, req, hits, events, visits,
                   presence, lockedVisits, lockedEvents, folded, late,
                   permanentVars, lock, tx, straggled, due>>

\* Mutant: the source rows are deleted outside the unit's transaction.
EraseVisitsAtOnce(r) ==
    /\ job[r].pc = "erase"
    /\ visits' = visits \ OfUnit(tx.unit)
    /\ Goto(r, "salts")
    /\ UNCHANGED <<clock, salt, saltsMade, cache, req, hits, events, presence,
                   lockedVisits, lockedPresence, lockedEvents, folded, late,
                   permanentVars, lock, tx, straggled, due>>

EraseVisits(r) ==
    /\ job[r].pc = "erase"
    /\ lockedVisits' = OfUnit(tx.unit)
    /\ Goto(r, "salts")
    /\ UNCHANGED <<clock, salt, saltsMade, cache, req, hits, events, visits,
                   presence, lockedPresence, lockedEvents, folded, late,
                   permanentVars, lock, tx, straggled, due>>

EraseSalts(r) ==
    /\ job[r].pc = "salts"
    /\ tx' = [tx EXCEPT !.salts = DeadSalts(job[r], {tx.unit.period})]
    /\ Goto(r, "commit")
    /\ UNCHANGED <<ingestVars, permanentVars, lock, straggled, due>>

\* Mutant: only the salt of a unit just rolled up is looked at.
BeginFinalSaltsOfUnits(r) ==
    /\ job[r].pc = "post" /\ ~job[r].over
    /\ lock = Nobody
    /\ lock' = r
    /\ tx' = NoTx
    /\ Goto(r, "commit")
    /\ UNCHANGED <<ingestVars, permanentVars, straggled, due>>

\* After the last unit: salts of ended periods that never had a unit.
BeginFinalSalts(r) ==
    /\ job[r].pc = "post" /\ ~job[r].over
    /\ lock = Nobody
    /\ lock' = r
    /\ tx' = [NoTx EXCEPT !.salts = DeadSalts(job[r], job[r].sel.periods)]
    /\ Goto(r, "commit")
    /\ UNCHANGED <<ingestVars, permanentVars, straggled, due>>

SkipFinalSalts(r) ==
    /\ job[r].pc = "post"
    /\ \/ job[r].over /\ Conclude(r, "budget_exhausted")
       \/ ~job[r].over /\ lock # Nobody /\ Conclude(r, "busy")
    /\ UNCHANGED <<ingestVars, permanentVars, lock, tx, straggled, due>>

\* ON CONFLICT DO UPDATE SET counter = counter + EXCLUDED.counter.
Added(counter, V) ==
    [h \in Hits |-> counter[h] + (IF \E v \in V : v.hit = h THEN 1 ELSE 0)]

\* COUNT(DISTINCT visitor_key), by the visitor the digest stands for.
KeysOf(R, x) == {v.key : v \in {w \in R : w.key.visitor = x}}
Counted(counter, u, R) ==
    [w \in Units |-> [x \in Visitors |->
        counter[w][x] + (IF w = u THEN Cardinality(KeysOf(R, x)) ELSE 0)]]

\* Mutant: the aggregates commit without the deletion of their source.
CommitWithoutErase(r) ==
    /\ job[r].pc = "commit"
    /\ daily' = Added(daily, tx.daily)
    /\ monthly' = Added(monthly, tx.monthly)
    /\ landings' = Added(landings, tx.landings)
    /\ monthVisitors' = Counted(monthVisitors, tx.unit, tx.monthly)
    /\ scopeVisitors' = Counted(scopeVisitors, tx.unit, tx.scopes)
    /\ salt' = [p \in Periods |-> IF p \in tx.salts THEN 0 ELSE salt[p]]
    /\ lockedVisits' = {}
    /\ lockedPresence' = {}
    /\ lock' = Nobody
    /\ tx' = NoTx
    /\ Goto(r, IF tx.unit = NoUnit THEN "tail" ELSE "units")
    /\ UNCHANGED <<clock, saltsMade, cache, req, hits, events, visits,
                   presence, lockedEvents, folded, late, straggled, due>>

Commit(r) ==
    /\ job[r].pc = "commit"
    /\ daily' = Added(daily, tx.daily)
    /\ monthly' = Added(monthly, tx.monthly)
    /\ landings' = Added(landings, tx.landings)
    /\ monthVisitors' = Counted(monthVisitors, tx.unit, tx.monthly)
    /\ scopeVisitors' = Counted(scopeVisitors, tx.unit, tx.scopes)
    /\ visits' = visits \ lockedVisits
    /\ presence' = presence \ lockedPresence
    /\ salt' = [p \in Periods |-> IF p \in tx.salts THEN 0 ELSE salt[p]]
    /\ lockedVisits' = {}
    /\ lockedPresence' = {}
    /\ lock' = Nobody
    /\ tx' = NoTx
    /\ Goto(r, IF tx.unit = NoUnit THEN "tail" ELSE "units")
    /\ UNCHANGED <<clock, saltsMade, cache, req, hits, events, lockedEvents,
                   folded, late, straggled, due>>

(***************************************************************************)
(* The tail: what is left, each check in a transaction of its own.         *)
(***************************************************************************)

CountRemaining(r) ==
    /\ job[r].pc = "tail"
    /\ job' = [job EXCEPT ![r].pc = "verdict",
                          ![r].behind = PendingUnits(job[r]) # {}]
    /\ UNCHANGED <<ingestVars, permanentVars, lock, tx, straggled, due>>

\* Mutant: a short batch is taken for an empty backlog.
VerdictOfUnits(r) ==
    /\ job[r].pc = "verdict"
    /\ job' = [job EXCEPT
                 ![r].pc = "idle",
                 ![r].status =
                    IF @ = "completed" /\ job[r].behind
                    THEN "budget_exhausted" ELSE @]
    /\ UNCHANGED <<ingestVars, permanentVars, lock, tx, straggled, due>>

Verdict(r) ==
    /\ job[r].pc = "verdict"
    /\ job' = [job EXCEPT
                 ![r].pc = "idle",
                 ![r].status =
                    IF @ = "completed"
                       /\ (job[r].behind \/ Expired(job[r]) # {})
                    THEN "budget_exhausted" ELSE @]
    /\ UNCHANGED <<ingestVars, permanentVars, lock, tx, straggled, due>>

\* A statement raises or the process dies: the open transaction, if any, is
\* rolled back and its lock released.
Crash(r) ==
    /\ job[r].pc # "idle"
    /\ job' = [job EXCEPT ![r].pc = "idle", ![r].status = "error"]
    /\ IF lock = r
       THEN /\ lock' = Nobody
            /\ tx' = NoTx
            /\ lockedVisits' = {}
            /\ lockedPresence' = {}
       ELSE UNCHANGED <<lock, tx, lockedVisits, lockedPresence>>
    /\ UNCHANGED <<clock, salt, saltsMade, cache, req, hits, events, visits,
                   presence, lockedEvents, folded, late, permanentVars,
                   straggled, due>>

Work(r) ==
    \/ ExpireBatch(r) \/ ExpireBusy(r) \/ ExpireOver(r)
    \/ BeginUnit(r) \/ StopUnits(r) \/ EndUnits(r)
    \/ SumDaily(r) \/ SumMonthly(r) \/ SumLandings(r)
    \/ SumScopes(r) \/ EraseScopes(r) \/ EraseVisits(r) \/ EraseSalts(r)
    \/ BeginFinalSalts(r) \/ SkipFinalSalts(r) \/ Commit(r)
    \/ CountRemaining(r) \/ Verdict(r)

RollupNext ==
    \E r \in Runners : Start(r) \/ DeadlinePasses(r) \/ Work(r) \/ Crash(r)

\* A fold that commits between the first and the last statement to read its
\* unit's rows.
Straggling ==
    {h \in Hits :
        /\ lock # Nobody
        /\ job[lock].pc \in {"monthly", "landings", "scopes", "erase_scopes",
                             "erase"}
        /\ \E v \in visits' \ visits : v.hit = h /\ UnitOf(v) = tx.unit}

IngestStep ==
    /\ IngestNext
    /\ straggled' = straggled \cup Straggling
    /\ UNCHANGED <<permanentVars, job, lock, tx, due>>

Init == IngestInit /\ RollupInit
Next == IngestStep \/ RollupNext
Spec == Init /\ [][Next]_vars

\* The scheduler's daily invocation: every site and period, no dry run.
Unfiltered(r) == job[r].sel = [sites |-> Sites, periods |-> Periods]
DailyRun(r) == Start(r) /\ Unfiltered(r)' /\ job'[r].status = "completed"

\* Requests are handled to their end, and the scheduler keeps starting runs
\* whose statements return.  A budget may run out in every one of them, but
\* not always before its next batch, unit or salt cleanup is begun; and runs
\* do not die forever, since a unit that always raises is never rolled up.
\* The transaction of a --replace ends, and some time nobody starts another.
Fairness ==
    /\ \A s \in Slots : WF_vars(Handle(s) /\ IngestStep)
    /\ \A r \in Runners :
          /\ WF_vars(Work(r))
          /\ SF_vars(DailyRun(r))
          /\ SF_vars(Unfiltered(r) /\ ExpireBatch(r))
          /\ SF_vars(Unfiltered(r) /\ BeginUnit(r))
          /\ SF_vars(Unfiltered(r) /\ EndUnits(r) /\ ~job[r].over)
          /\ SF_vars(Unfiltered(r) /\ BeginFinalSalts(r))
    /\ WF_vars(EndReplace /\ IngestStep)
    /\ <>[][lockedEvents' \subseteq lockedEvents /\ \A r \in Runners : ~Crash(r)]_vars

FairSpec == Spec /\ Fairness

(***************************************************************************)
(* Properties.                                                             *)
(***************************************************************************)

CountersTyped ==
    /\ daily \in [Hits -> Nat]
    /\ monthly \in [Hits -> Nat]
    /\ landings \in [Hits -> Nat]
    /\ monthVisitors \in [Units -> [Visitors -> Nat]]
    /\ scopeVisitors \in [Units -> [Visitors -> Nat]]

TxTyped == tx \in Tx /\ IsFiniteSet(tx.monthly) /\ IsFiniteSet(tx.scopes)

\* Every variable keeps its type.
TypeOK ==
    /\ IngestTypeOK
    /\ CountersTyped
    /\ TxTyped
    /\ job \in [Runners -> Job]
    /\ lock \in Runners \cup {Nobody}
    /\ straggled \subseteq Hits
    /\ due \in [Runners -> SUBSET Hits]

Live(h) == \E v \in visits : v.hit = h

\* "Retries cannot add the same source twice" (visitor_rollup): through
\* crashes, overlapping runs and requests that arrive during or after the
\* rollup of their month, a pageview is in each permanent table at most once,
\* and in none while its row is still live.
NeverCountedTwice ==
    \A h \in Hits :
        /\ daily[h] + (IF Live(h) THEN 1 ELSE 0) <= 1
        /\ monthly[h] + (IF Live(h) THEN 1 ELSE 0) <= 1
        /\ landings[h] + (IF Live(h) THEN 1 ELSE 0) <= 1

\* A folded pageview is live or in all three tables, unless its fold
\* committed between two statements of its unit's transaction.
NothingIsLost ==
    \A h \in folded \ straggled :
        Live(h) \/ (daily[h] = 1 /\ monthly[h] = 1 /\ landings[h] = 1)

\* The tables keep the promise of the ledger: however statements, crashes and
\* requests interleave, a pageview leaves the live rows and enters all three
\* permanent tables in one step, and never comes back.
TimesIn(h, table) ==
    CASE table = "daily" -> daily[h] [] table = "monthly" -> monthly[h]
      [] table = "landings" -> landings[h]
Ledger == INSTANCE VisitLedger WITH
    known <- folded,
    live <- {h \in Hits : Live(h)},
    times <- [h \in Hits |-> [t \in {"daily", "monthly", "landings"} |-> TimesIn(h, t)]],
    exposed <- straggled
LedgerIsKept == Ledger!Spec

\* A visitor is counted once per month in visitor_period, the live rows
\* included, as long as no request outlives its month: every fold of the month
\* hashed with one salt, whichever process handled it and whatever crashed.
CountedOncePerMonth ==
    \A u \in Units \ late, x \in Visitors :
        /\ monthVisitors[u][x] + Cardinality(KeysOf(OfUnit(u), x)) <= 1
        /\ scopeVisitors[u][x]
             + Cardinality(KeysOf(PresenceOf(u), x)) <= 1

\* While a period has state (no request having outlived it), its state was
\* hashed with the salt the next request of the period will get.
SaltOutlivesItsState ==
    \A v \in visits :
        (\A s \in Sites : [site |-> s, period |-> Period(v.at)] \notin late)
            => v.key.salt = salt[Period(v.at)]

\* A run that reports "completed" left nothing of what it found: every
\* pageview that was ripe when it started is counted and no digest of its
\* sites that had expired by then is kept, not even one whose row was locked
\* when its batch came by.
CompletedRunsAreThorough ==
    \A r \in Runners :
        job[r].pc = "idle" /\ job[r].status = "completed" =>
            /\ \A h \in due[r] \ straggled : ~Live(h) /\ daily[h] = 1
            /\ \A e \in events :
                  e.site \in job[r].sel.sites /\ e.key # NoKey =>
                      e.at >= job[r].now - Retention

\* State of a month is deleted only when the month is over.
OpenMonthIsNeverRolledUp ==
    [][\A v \in visits \ visits' : Ended(Period(v.at), clock)]_vars

\* Mutant: the split lies before the month of the cutoff.
EventLowerOfCutoff == TicksPerPeriod * Period(clock - Retention)

\* _retention_split: the dashboards read digests from the month after the
\* cutoff's on, and visitor_daily for what is older.
EventLower == TicksPerPeriod * (Period(clock - Retention) + 1)

ShownAsEvent(e) == e \in events /\ e.key # NoKey /\ EventLower <= e.at
ShownAsTotal(e) == e.at < EventLower /\ daily[e.hit] = 1
Shown(e) == ShownAsEvent(e) \/ ShownAsTotal(e)

\* Retention, in days of a timestamp, never overtakes what the dashboards read,
\* by whole months: no step of a maintenance run or a request takes a pageview
\* out of what they show, a --replace aside.  Only the passage of time can,
\* when the split passes a month whose rows are live and still to be rolled up
\* (or were never all folded).
WhatIsShownStays ==
    [][\A e \in events \ lockedEvents :
          Shown(e) => \/ Shown(e)'
                      \/ /\ clock' # clock
                         /\ Live(e.hit)' \/ e.hit \notin folded \ straggled]_vars

\* Every finished month is eventually rolled up.
BacklogDrains ==
    \A u \in Units :
        (\E v \in visits : UnitOf(v) = u) /\ Ended(u.period, clock)
            ~> ~\E v \in visits : UnitOf(v) = u

\* Every digest past the cutoff is eventually erased.
DigestsExpire ==
    \A h \in Hits :
        (\E e \in events : /\ e.hit = h
                           /\ e.key # NoKey
                           /\ e.at < clock - Retention)
            ~> ~\E e \in events : e.hit = h /\ e.key # NoKey

\* The salt of every finished month is eventually destroyed, including one
\* that a late request or a beacon drew for a month without state.
SaltsAreDestroyed ==
    \A p \in Periods : Ended(p, clock) ~> salt[p] = 0

(***************************************************************************)
(* The inductive invariant behind NeverCountedTwice, NothingIsLost and     *)
(* OpenMonthIsNeverRolledUp.                                               *)
(***************************************************************************)

\* Exactly the lock holder is inside a transaction.
LockInv ==
    /\ \A r \in Runners : job[r].pc \in InTransaction <=> lock = r
    /\ lock = Nobody => tx = NoTx /\ lockedVisits = {} /\ lockedPresence = {}

\* Whether the open transaction has executed its DELETE of the day state.
Erased == lock # Nobody /\ job[lock].pc \in {"salts", "commit"}

\* What was summed is a part of the unit, and once erased, of what is deleted.
TxInv ==
    LET summed == tx.daily \cup tx.monthly \cup tx.landings IN
    /\ summed \subseteq visits
    /\ \A v \in summed \cup lockedVisits : UnitOf(v) = tx.unit
    /\ Erased => summed \subseteq lockedVisits
    /\ ~Erased => lockedVisits = {}
    /\ tx.unit = NoUnit => lock = Nobody \/ job[lock].pc = "commit"

\* A hit is folded once: its request is past the fold, and its row is unique.
HitInv ==
    /\ \A v \in visits : v.hit \in folded
    /\ \A v, w \in visits : v.hit = w.hit => v = w
    /\ \A h \in folded : h <= hits
    /\ \A h \in Hits \ folded :
          daily[h] = 0 /\ monthly[h] = 0 /\ landings[h] = 0
    /\ \A s \in Slots : req[s] # NoRequest =>
          /\ req[s].hit <= hits
          /\ req[s].phase # "folded" => req[s].hit \notin folded
          /\ \A t \in Slots : req[t] # NoRequest /\ req[t].hit = req[s].hit
                              => s = t

\* A row of the open unit that a sum missed was folded after that sum.
LossInv ==
    lock # Nobody => \A v \in OfUnit(tx.unit) :
        LET pc == job[lock].pc IN
        \/ v.hit \in straggled
        \/ pc \in {"salts", "commit"} /\ v \notin lockedVisits
        \/ /\ pc # "daily" => v \in tx.daily
           /\ pc \notin {"daily", "monthly"} => v \in tx.monthly
           /\ pc \notin {"daily", "monthly", "landings"} => v \in tx.landings

\* Runs work on months that were over when they started.
EndedInv ==
    /\ \A r \in Runners : job[r].now <= clock
    /\ tx.unit # NoUnit => Ended(tx.unit.period, clock)

\* The parts together are inductive: each open transaction accounts for the
\* rows it will delete, so crashes and late folds can break none of the above.
AccountingInv ==
    /\ LockInv /\ TxInv /\ HitInv /\ LossInv /\ EndedInv

(***************************************************************************)
(* The inductive invariants behind SaltOutlivesItsState,                   *)
(* CountedOncePerMonth and CompletedRunsAreThorough.                       *)
(***************************************************************************)

\* No request of any site has written to the month after its end.
Punctual(p) == \A s \in Sites : [site |-> s, period |-> p] \notin late

\* What the tables hold of visitors: a unit and a digest.
Traces ==
    {[unit |-> UnitOf(v), key |-> v.key] : v \in visits}
    \cup {[unit |-> ScopeUnit(n), key |-> n.key] : n \in presence}

\* While a month lasts its row's salt is the one that processes have cached
\* and that the digests in flight were made with.
SaltInv ==
    /\ \A p \in Periods :
          /\ salt[p] <= saltsMade
          /\ \A c \in Processes :
                /\ cache[c][p] <= saltsMade
                /\ cache[c][p] # 0 /\ ~Ended(p, clock) => cache[c][p] = salt[p]
    /\ \A s \in Slots : req[s] # NoRequest /\ req[s].key # NoKey =>
          LET p == Period(req[s].at) IN
          /\ req[s].key.site = req[s].site
          /\ ~Ended(p, clock) => req[s].key.salt = salt[p]

\* Digests stay comparable: those of a unit share one salt, which is the
\* row's while the month lasts, and as long as the salt may still be asked for.
TraceInv ==
    \A t \in Traces :
        LET p == t.unit.period IN
        /\ t.key.site = t.unit.site
        /\ ~Ended(p, clock) \/ Punctual(p) => t.key.salt = salt[p]
        /\ \A w \in Traces :
              w.unit = t.unit /\ t.unit \notin late => w.key.salt = t.key.salt

\* A salt about to be destroyed has no digests that the transaction leaves.
DeadSaltInv ==
    /\ tx.salts # {} => lock # Nobody /\ job[lock].pc = "commit"
    /\ \A p \in tx.salts :
          /\ Ended(p, clock)
          /\ Punctual(p) =>
                /\ \A v \in visits \ lockedVisits : Period(v.at) # p
                /\ \A n \in presence \ lockedPresence : n.period # p

\* The open transaction empties its unit, unless a request came late for it,
\* and has counted scopes of that unit only.
ErasureInv ==
    /\ \A n \in tx.scopes : n \in presence /\ ScopeUnit(n) = tx.unit
    /\ lock # Nobody /\ tx.unit \notin late =>
          /\ job[lock].pc \in {"salts", "commit"} =>
                OfUnit(tx.unit) \subseteq lockedVisits
          /\ job[lock].pc \in {"erase", "salts", "commit"} =>
                PresenceOf(tx.unit) \subseteq lockedPresence

\* Nobody is in the permanent tables of a month that lasts.
OpenMonthInv ==
    \A u \in Units, x \in Visitors :
        ~Ended(u.period, clock) =>
            monthVisitors[u][x] = 0 /\ scopeVisitors[u][x] = 0

\* One salt a month, whoever draws it, until nothing needs it any more.
DigestInv ==
    /\ SaltInv /\ TraceInv /\ DeadSaltInv /\ ErasureInv /\ OpenMonthInv

\* A request is at most MaxLateness ticks old.
LatenessInv ==
    \A s \in Slots : req[s] # NoRequest => clock <= req[s].at + MaxLateness

\* What was due stays of the invocation's sites and periods while it is live.
DueInv ==
    \A r \in Runners :
        /\ due[r] \subseteq folded
        /\ \A v \in visits : v.hit \in due[r] =>
              /\ v.site \in job[r].sel.sites
              /\ Period(v.at) \in job[r].sel.periods
              /\ Ended(Period(v.at), job[r].now)

\* An invocation that will report "completed" has seen nothing pending.
VerdictInv ==
    \A r \in Runners :
        job[r].status = "completed" =>
            /\ job[r].pc = "idle" \/ (job[r].pc = "verdict" /\ ~job[r].behind) =>
                  \A h \in due[r] : ~Live(h)
            /\ job[r].pc = "idle" => Expired(job[r]) = {}

\* What a verdict rests on stays true after it.
CompletionInv == LatenessInv /\ DueInv /\ VerdictInv
=============================================================================
