# Mantecato Analytics: a verification project

Mantecato counts the visitors of web sites exactly and without cookies: every pageview is folded into one
row per visitor, site and day under a digest that cannot be recomputed once the month's salt is destroyed;
a maintenance job turns finished months into permanent aggregates, erases the digests and destroys the
salts. Dashboards, an API and revocable grants to AI clients show the numbers. The modules here model the
pipeline from the browser tab to the figure on a page; TLC checks them on small instances, TLAPS proves the
properties that matter most for every value of the constants, and the pipeline's core is shown to implement
an abstract ledger.

Paths below are those of the repository. `PROJECT.json` maps every definition to the lines it translates.

## The system

| Part | State it keeps | Operations | Talks to |
|---|---|---|---|
| Browser tracker (`packages/tracker`, `tracker-react`) | one tab: current page, visible time, timers, beacons under way | pageview on navigation, heartbeat and beacon on hide, custom events | ingest endpoint |
| Ingest gate (`apps/tracker/views.py`, `services.py`, `ip`, `ua`, `geo`) | rate limiter and site cache, per process | classify, refuse or dispatch a hit | ingestion; reads sites |
| Visitor ingestion (`apps/tracker/services.py`, `core/.../visitor_counting.py`) | `website_event`, `visitor_day_state`, `visitor_scope_state`, `visitor_salt`, the salt cache of a process | derive the digest, store the event, fold the visit or the beacon, record scope presence | one statement at a time, no lock |
| Visit fold (`core/.../visitor_writes.py`) | one `visitor_day_state` row | `fold_visit`, `fold_engagement` | called by ingestion; read by dashboard and rollup |
| Visitor rollup and retention (`core/.../visitor_rollup.py`) | `visitor_daily`, `visitor_period`, the advisory lock | expire digests in batches, roll up one (site, month) per transaction, destroy salts, report | same tables as ingestion |
| Backfill (`visitor_counting.aggregate_events_into_daily`) | `visitor_daily`, `visitor_period` | aggregate the digests of events that no visit state accounts for, erase them | the same advisory lock |
| Umami import (`apps/core/services.py`, `importumamidata`) | `website_event`, the job row and its thread | start, `--replace`, copy per table, report progress, fail, orphan on restart | no lock |
| Accounts and keys (`apps/settings_app`, `apps/core/api_keys.py`) | users, roles, passwords, API keys, sites, bot settings | create, edit, delete, mint, revoke, configure | every request's principal; AI connections (password fingerprint) |
| Shared web layer (`apps/common`, `mantecato/middleware.py`) | none | principal, site, bot preference, forms, dates | all pages and API calls |
| Analytics queries (`core/.../queries`, `filters.py`) | none | SQL and ORM queries over the events and aggregates | pages, API, dashboards, MCP |
| Date ranges (`date_utils.py`, `contracts.py`) | none | presets, comparison periods, granularity, strict ranges in a zone | pages, API |
| Analytics pages (`apps/analytics`) | none | combine queries into a page | queries |
| HTTP API (`apps/api`, `apps/api/v1`) | none | parse strictly, guard, several statements, assemble | queries |
| Dashboards (`apps/dashboards`, `dashboard_builder.js`) | saved layouts; the builder's screen | create, edit, duplicate, delete, seed, render, preview | queries |
| AI connections (`apps/ai_connections`) | connections, credentials, the activity log | consent, personal tokens, exchange and rotation, replay detection, revocation, reduction, cleanup | row locks; reads users and sessions |
| MCP endpoint (`apps/ai_connections/tools.py`, `transport.py`) | none | check, query, check again, answer | AI connections, queries |
| CLI and MCP clients, settings | configuration | HTTP clients; values read at start-up | API |

What is hard here:

- **Interleaving.** PostgreSQL runs READ COMMITTED. A request handler commits each statement by itself and
  takes no lock; the rollup's five statements of a unit each see what is committed when they start; several
  maintenance runs, backfills and imports may overlap. Exchanges of one token race each other and
  revocation. Two desks administer one installation, two saves meet on one dashboard, the threads of a
  worker share its caches.
- **Order.** A request is stamped when its handler starts and folds later, so the folds of one visitor
  commit in any order, and a request may fold after midnight, after its month has ended, or after its month
  has been rolled up. A tab's timers fire after later navigations; previews are answered out of order.
- **Failure.** A run may die at any statement, run out of budget, or find the lock held; a handler swallows
  the failure of a fold or a digest and goes on; an import may fail after `--replace` has deleted, or its
  process be restarted, or find that another website holds the ids it brings.
- **Stale state.** Salts and sites are cached per process; the list of units is read in one transaction and
  used in later ones; an approval was authenticated before it locks the user; a user row is saved long after
  it was read; a tool's query runs between two access checks.
- **Time.** Months end while requests are in flight; retention cuts at an instant, salts live for months; what
  the dashboards read is split between digests and aggregates by whole months; clocks change.
- **Two of everything.** Filters are translated to SQL and to the ORM, presets are resolved by the pages
  and by the API, bounces are counted by three formulas.

What makes each part correct:

- tracker: every page counted once, its time its own;
- gate: a site's deletion is heard within the cache's lifetime, a flood is bounded;
- visit fold: one row's counters always describe a list of visits; three formulas that read it agree; in
  stamp order the fold equals the read-time sessioniser;
- ingestion and rollup: no pageview is counted twice or lost, a visitor is counted once per month, a month
  is only rolled up when it is over, digests and salts go when they must and not while a dashboard
  needs them, a run that says "completed" left nothing behind, and the backlog drains;
- backfill and import: a pageview is counted by one side only, what was read is still there at the commit,
  what is aggregated is read, and a job that says success has put what it took where it belongs;
- accounts: no sequence of requests takes away the last administrator, what is deleted stays deleted;
- queries, ranges, pages, API: figures that stand side by side agree, rows and totals add up, the two
  translations and the two preset tables select the same;
- dashboards: a save changes the columns it was sent and no other, a viewer can only narrow a scope, the screen
  shows the latest;
- AI connections: rotation is linear, revocation is final, a consent approves once, under the password the
  user has, within the quota; no answer is given under a grant that has gone; cleanup removes only what is
  dead.

`PROJECT.json` lists the hazards of the code at their lines, with the properties that would catch them.

## Modules

The pipeline:

| Module | Models | State and actions against the code |
|---|---|---|
| `VisitFold` | `visitor_writes.py`, the bounce rule in `visitor_counting.py` and `visitor_rollup.py` | `row` is the one `visitor_day_state` row of a visitor, site and day; `Stamp` is a request that reads `timezone.now()`, `FoldVisit` and `FoldEngagement` are the two SQL upserts with their `CASE` and `WHERE` branches as operators (`FirstVisit`, `ContinueVisit`, `NextVisit`, `BeaconAccepted`), `FoldFails` the swallowed exception. `LiveTotals` and `RollupTotals` are the two readings of a row. |
| `VisitReference` | `visitor_reads._session_sql` | extends `VisitFold` with the read-time sessioniser over the recorded pageviews, defined without folding. |
| `VisitorIngest` | `apps/tracker/services.py`, salts and digests | `req` holds the request of each slot and its phase; `Receive`, `DeriveKey`, `StoreEvent`, `FoldVisit`, `RecordPresence` are the statements of the handlers, `KeyFails` and `HandlerFails` their error paths, `RestartProcess` loses a process's cache and requests. `Replace` is the open DELETE of an import onto a site: its events are locked (`lockedEvents`) until `EndReplace` commits or rolls back. Time is counted in ticks, of which a day has `TicksPerDay` and a month `TicksPerPeriod`. A digest is the record of its inputs. |
| `VisitorRollup` | `visitor_rollup.run_rollup` | extends `VisitorIngest`. `job` is the invocation of each runner with its program counter, `lock` the advisory lock, `tx` what the open transaction has summed. One action per statement; a DELETE takes effect for others at `Commit` and locks the rows until then; a batch of retention (`Batches`) passes over locked events (SKIP LOCKED); `Crash` rolls back. `EventLower`, `ShownAsEvent` and `ShownAsTotal` are the split of `read_visit_stats` between digests and `visitor_daily`. The permanent tables are kept by provenance: how often each pageview went in. |
| `VisitLedger` | what the visitor tables promise | the abstract specification: a pageview is taken up once (`Open`), is live until one step closes it (`Close`), and that step enters it in each permanent table once. `VisitorRollup` instantiates it (`Ledger`, property `LedgerIsKept`) with `folded` for `known`, the live rows for `live`, the three provenance tables for `times` and `straggled` for `exposed`. |
| `VisitorBackfill` | `aggregate_events_into_daily`, the importer's rows, `read_visit_stats` | its own, coarser model of one site: rollup and retention batches are atomic (they hold the lock that the backfill takes as well; `VisitorRollup` shows what they guarantee), the backfill has one action per statement, imports a delete and a copy. `ReadFromDigests` and `ReadFromAggregates` are the two sides the dashboards read. |
| `ImportJobs` | `apps/core/services.py`, `importumamidata` | `jobs` holds each import's row, thread and open transaction; starting, `--replace`, one copy per table with its filter, the website its rows get (`Imported`) and `ON CONFLICT` of the id alone (`Taken`), progress flushes, failure, and the restart that leaves a running row behind. |
| `IngestGate` | `apps/tracker/views.py`, `is_trackable_website` | per worker the site list with its stamp and the limiter's table; a thread reads the clock before it has the lock, queries the sites outside of it, and counts the address that `get_client_ip` picks among the headers of the host's proxy configuration (`setup`). |
| `TrackerTab` | `packages/tracker/src/tracker.ts` | `tab` is the closure state of `createTracker`; navigation, visibility, calls, timers and answers to beacons are actions. A tick is half a second; a timer fires before the tick after the one that set it is over. |

The console:

| Module | Models | State and actions against the code |
|---|---|---|
| `Accounts` | `apps/settings_app`, `createuser`, `api_keys.py` | `users` and `keys` are the tables, `desk` the request of each slot between its statements: read the row, count the administrators, save the columns it changes. |
| `WebAccess` | `mixins.py`, `middleware.py`, bot settings, site rows | guards as operators over a principal and a site; `saver` is a save of the bot settings between lock, lookup and write. |
| `DateRanges` | `date_utils.py`, `helpers.py`, `contracts.py` | the calendar and the clock of a zone as operators; a boundary of API v1 is a date, a wall clock or an instant (`ParseBoundary`); each action asks one question and keeps the answer in `asked`. |
| `SiteReports` | `core/.../queries`, `filters.py`, `apps/analytics/services.py` | `table` is the event table of a site. `SqlSelects` and `OrmSelects` are the two filter translations; each query is an operator over the rows they select, split at `EventLower` between digests and stored aggregates; each action is one page, for a period and the one before. |
| `ApiV1` | `apps/api/v1` | extends `SiteReports`. A body is parsed by the contract's rules, guarded, and read statement by statement while ingestion stores hits in between; ranking, totals, the rest, the missing and the previous period make the answer. |
| `Dashboards` | `apps/dashboards`, `seed_dashboards`, `dashboard_builder.js` | extends `SiteReports` and `WebAccess`. Rows and the requests that edit them, a widget rendered under saved and ad-hoc filters, and the builder with its name as loaded or typed, its drawer and its previews under way. |
| `AIGrants` | `apps/ai_connections`: `policy`, `oauth`, `maintenance`, `tools`, `views` | `conns` and `creds` are the two tables, `tx` the request of each slot. A transaction's locks are read off `tx` (`HoldsConn`, `HoldsUser`, `HoldsRequest`); its writes take effect at its commit (`Approve`, `Decline`, `CommitTokens`). Revocation, scope reduction, account changes, the cleanup and the clock are actions of their own that wait for, or skip, locked rows. |

`MCVisitorRollup`, `MCVisitorBackfill`, `MCImportJobs`, `MCPlatform` and `MCConsole` give the
constants values.
`MCPlatform` runs `ImportJobs`, `VisitorBackfill`, `IngestGate` and `TrackerTab`, and `MCConsole` the modules of
the console: a behaviour begins in one part (`part`) and the others stay where they began,
which loses nothing, since these parts share no variables or only read them. Eight
modules hold the theorems: `VisitFoldProofs` about `VisitFold` and `VisitReference`; `VisitorRollupProofs`;
`PlatformProofs` about the four parts of `platform`; `AccountProofs`; `ConsoleProofs` about `WebAccess`,
`Dashboards` and `DateRanges`; `ReportProofs` about `SiteReports` and `ApiV1`; `AIGrantsProofs`; and `SetSums`,
the library of sums over finite sets that two of them cite. An inductive invariant that a run checks stands
at the end of the module it is about, one that only a proof needs before the proof.

How they compose. `VisitorRollup` extends `VisitorIngest`: an ingestion step leaves the job's variables alone, a
maintenance step the handlers'. `VisitFold` refines the elements of `visits` in `VisitorIngest`, where a row is
the set of the pageviews folded into it; what a fold does to the counters and how sets of pageviews travel are
checked apart. What leaves `TrackerTab` arrives at `IngestGate`, and what passes the gate is a `Receive` of
`VisitorIngest`, which assumes nothing of either. `ApiV1` and `Dashboards` read through `SiteReports`.

Abstractions that hold in every module: a raw token, a digest, a page and a visitor are identities, never
strings; SQL is modelled by the rows it reads and writes; logging, metrics, layout and formatting are left
out. History variables (`log`, `folded`, `late`, `straggled`, `due`, `copies`, `visits` of the backfill,
`doubtful`, `revived`, `raced`, `kept`, `latest`, `lastOn`, `lastOff`, `passed`, `lag`, `views`, `shown`, `beacon`, and
the fields `session` and `request` of a connection, `took`, `skipped`, `lost` and `intact` of a job) are read by properties only, never by the guard of an
action.

## Runs

State counts are distinct states. Each run is one question.

| Run | Question | Bounds, and why they are enough | States |
|---|---|---|---|
| `visit_fold` | Is one visitor's row sound under every order of commits, and does it count what the sessioniser counts? | Four requests, two at a time, each up to two ticks late; ticks of half a second and a timeout of one second, so that gaps below, at and above the timeout and sub-second remainders all occur in nine ticks; thresholds 0 (classic rule) and 2 seconds with beacons of 1 and 2 seconds on either side of it. Three requests suffice to close a visit after an out-of-order commit; the fourth looks at the state it left. | 2.9 M |
| `visits_inexact` | Are visits exact in every order of commits? They are not. | as above | violation |
| `rollup_races` | Is anything lost, are visitors counted once, does the salt outlive its state, is the ledger kept? | Two web processes with separate caches, one request at a time over them, two sites that share a salt, two days a month so that a month has two rows of one visitor, one run that may crash anywhere and be repeated. Two hits are needed for two processes to meet a month. | 0.9 M |
| `rollup_overlap` | Do overlapping runs, filtered or not, break the accounting? | Two runners over everything, the first month or the site, one hit, three days of a month each, retention of one day, batches of one. Requests that outlive their month are those of `rollup_races`; the proof has both at once. | 1.2 M |
| `rollup_live` | Do the backlog, the expired digests and the salts go? Does a run report completed although a batch passed over locked rows? Does retention or a rollup take away what the dashboards read? | One request of any of the four kinds that may outlive its month, one runner, a site that an import may replace at any moment until some time; months of two ticks, retention of one, so that the cutoff is an instant inside a month; batches of one, so that a batch that meets a locked row is short. More hits and runners are those of `rollup_races` and `rollup_overlap`; what a completed run promises is proved for filtered and overlapping runs too (`CompletedIsThorough`). | 33 k |
| `platform` | Does an import that says success hold what it read? Do the accounted days and the lock of a backfill hold? Is a deleted site heard of, a flood bounded? Does a tab count every page once, with its own time? | Two jobs into one site, or keeping the website of the source, over three source rows and a progress write after every second one; one session over two days of a month, one of them accounted for or not, at most three live and imported rows, any number of backfills, rollups, batches and crashes; two threads of one worker, three hits or changes of a site, two clients who write no header or another's address into one, a host reached directly, through two proxies or through one that nobody counted, a limit of one, a limiter's table of one entry or two and two windows of time; two pages, three moves and two ticks, which is enough for a heartbeat to fail after the page has changed. | 1.7 M |
| `backfill_twice` | Is a live pageview ever counted by both sides? It is. | as the backfill of `platform` | violation |
| `import_unfolded` | Does retention wait for the aggregation of imported pageviews? It does not. | | violation |
| `backfill_hidden` | Do the dashboards read what a backfill has aggregated? Not within the retention window. | imported pageviews alone | violation |
| `import_replaced` | Is what an import with `--replace` read there when it says success? Not where another website holds the ids. | one pageview, two jobs, one site and the source's own website | violation |
| `last_quarter` | Does a page show the whole of the last quarter? It stops a month early. | `DateRanges` alone, asked on one January 31 | violation |
| `console` | Can an installation lose its administrators or revive what was deleted? Do presets and ranges agree, do pages and API answers add up? Are settings, dashboards and previews the last saved? Do the rotation of tokens, replay detection, consent, quota and access checks of AI clients hold under every interleaving of row locks? | Three users, two names, two requests of three; six years with two leap years, UTC, Rome, Beirut (whose clocks skip a midnight) and Havana (whose clocks show one twice), boundaries of each kind, moments at the ends of months and leap days and the hours around both changes of clocks; every table of up to three rows of a set that has NULLs, bots, a substring, a prefix, events, the retained and the older side of two-day months, with filter sets of both signs and of two columns; API bodies of every operation, valid and not, with a limit of one so that a rest exists; two savers of two saves; two editors of a dashboard, who may rename it while the builder is open, two previews of a widget that is edited between them; for AI clients one user with two passwords, one scope, two requests of any kind in progress (every lock is between two), a quota of one and two connections to exceed it, six credentials: a consent request, its code and the tokens of two exchanges, and one tick of the clock, in which codes and access tokens expire, while requests and refresh tokens do not, which only leaves more of them to race. Tools write nothing: their calls run in behaviours of their own (`tools`), beside one connection and the exchange of its code. | 0.9 M |

`visit_fold` stops when its requests are used up, `platform`, `console` and `import_replaced` when the bounds of
the part that moves are, and `last_quarter` after its one question: these say `CHECK_DEADLOCK FALSE`. The other runs check for deadlock; there the maintenance job can always be started again.

Symmetry is used over slots, processes, runners, sites, jobs and threads in runs of safety properties
only, and over the requests of the console, which every part of `MCConsole` names alike. `rollup_live` uses none.

Every property of a passing run has a mutant in `PROJECT.json`: a definition changed the way a plausible bug
would change the code (a missing `GREATEST`, a lock not taken, a commit without its delete, a save of the
whole row, a re-check dropped). The mutated operators stand before the ones they mutate and are used by
nothing else.

### Findings with a run

The six violations are disagreements of the code with what the repository says of it; `PROJECT.json`
quotes both.

- `visits_inexact`: `fold_visit` sets `last_seen` without a `GREATEST`, so a pageview that commits late
  moves it back and the next pageview opens a visit that the sessioniser does not see.
- `backfill_twice`: the accounted days are read before the events, and ingestion stores before it folds, so
  that a pageview in between is counted by the backfill and by the rollup.
- `import_unfolded`: the rollup never reads events, but its retention erases the digests of imported ones.
- `backfill_hidden`: the dashboards read a day by its age, from digests or from aggregates; the backfill
  aggregates recent days and erases their digests, so their visitors are read from neither side.
- `import_replaced`: rows are inserted `ON CONFLICT` of the id `DO NOTHING`, so that an import with `--replace`
  onto a website deletes its rows and then skips every pageview whose id a row of another website holds, as
  after an import that kept the source's websites; it reports success.
- `last_quarter`: `_end_of_quarter` goes back a day from the first of the quarter's third month instead of the
  first of the month after, so the pages' `last_quarter` ends with the second month; API v1 has it right.

### Divergences met while modelling

The modules say what the code does; these are the places where a comment, a doc or a sibling says otherwise,
or where a reader may not expect it. None has a run of its own.

- `get_or_create_salt` consults `_SALT_CACHE` before the table, and the cache is not evicted when the row is
  deleted: docs/privacy.md says that the digest of a discarded salt cannot be recomputed, which holds of a
  process only once it has restarted or cached eight other periods.
- `get_comparison_range` compares "7d" (eight days less a microsecond) with a window of
  seven, leaves a day's gap before "24h" and overlaps "yesterday" by a microsecond. `resolve_range` answers a
  range wholly in the future with an end before its start. The granularity table of the docs says hours up to
  one day; the code has 36 hours.
- API v1's `execution.analytics_transaction` says "one bounded snapshot"; it does not set the isolation level,
  so its statements are READ COMMITTED, and rows and totals may differ by hits stored in between.
- The ORM's `_filter_q` says it mirrors `build_filter_sql`; for a negated filter they differ on rows whose
  column is NULL, and `ReportsAddUp` compares the two only where they do not (`Sensitive`).
  `read_visit_stats` adds stored aggregates, which cannot be filtered, under content filters as well.
  `session_totals` and landings floor a fractional gap, `session_buckets` does not (`Fractional`). Beyond
  retention visitors are sums of daily uniques, within it monthly digests. `get_page_metrics` calls its end
  exclusive and uses BETWEEN.
- The builder posts the name and the description its page was loaded with together with the layout, so that a
  save of it takes back a rename made in another tab since. (API updates send only what changes.)
- A boundary given as a date is not checked like a wall clock is: midnight of a day whose clocks skip it or show
  it twice is accepted, as the instant the day begins (`RangesAreExact` says so). API v1 refuses the same
  midnight written as a wall clock.
- Retention erases the digests of the cutoff's own day up to the cutoff's time of day; `_retention_split` reads
  no digest of the cutoff's month, so nobody sees it (`WhatIsShownStays`).
- Concurrent demotions can leave no administrator: the guard counts before it saves (`LockoutNeedsARace` says
  that nothing else can). `ApiKeyCreateView` says "Defaults to read-only" and grants read and write. The site
  check of the API's dashboard creation is missing in the web view.
- `_precheck`'s 403 is unreachable. `load_bot_filter_payload` says a disabled preference gives `None`; the code
  enables it.
- `is_trackable_website` starts with a stamp of 0 on the monotonic clock, so a host that has just booted
  hears nothing until a minute is over, as `SiteCacheIsFresh` says.
- An import's progress is written inside its transaction and not visible before its commit.
- `seed_dashboards` inserts a default dashboard again after it was deleted, and two concurrent runs insert it
  twice. A panel with two widgets of one id shows only the first. The builder's drawer drops the fields it has
  no input for.

### What passing properties leave out

`NothingIsLost` excepts a pageview whose fold commits between two statements of its unit's own transaction
(`straggled`): the READ COMMITTED reading of the code adds it to some tables and not to others. Such a
fold needs a request that is still running after its month ended and while the month is rolled up; it is
`exposed` in the ledger. `CountedOncePerMonth` and `SaltOutlivesItsState` except months that a request
outlived (`late`) for the same reason. `QuotaHolds` excepts connections that an exchange extended after they
had lapsed (`revived`): the exchange checked its connection a moment before. `CountedByOneSide` excepts digests
of which a backfill met a pageview without visit state (`doubtful`), which is the finding `backfill_twice`.
`PresetsAgree` excepts `last_quarter`, which is a finding. `SuccessMeansComplete` excepts rows whose key another
website's row had when they were copied (`skipped`), which is the finding `import_replaced`, and rows that a later
`--replace` onto the same website deleted.
`WhatIsShownStays` is about what statements do: as time passes, the split moves on by a month, and a pageview of
that month is out of sight until a maintenance run has rolled it up, or for ever when its fold failed; and an
import may delete what it replaces. `LockoutNeedsARace` excepts every demotion or deletion that another save has
overtaken (`raced`), so that two concurrent demotions may leave nobody: it says that nothing else does.
`AnswersAddUp` excuses an answer when a hit was stored between its statements, which READ COMMITTED allows: it is
about how the answers of statements over one table are put together.
`LastSentIsStored` is about columns: the name a builder sends is the one it was loaded with.
`FloodIsBounded` is about hosts that ignore proxy headers or have counted their proxies (`Hardened`; the others
are warned at start). It bounds what any stretch of time lets through, which is shorter than a
window by the longest wait of the worker between reading the clock and counting the hit (`lag`; a whole window once
an overflowing table was reset): without that the bound is false, see below. `EveryPageCountedOnce` and
`TimeIsOfItsPage` except a navigation within `SPA_DELAY` of another (`calm`).
`RangesAreExact` has a partial bucket left out end where a bucket begins, or just after clocks that were put
forward over its beginning: a zone that changes at midnight (Beirut) has days without a first hour.
`ReportsAddUp` claims the landing pages' total for ranges within retention only: older days are monthly rows of
one visit per visitor and day (visitor_rollup.py:129-142), which the landing pages do not read.
`AnswersAddUp` bounds the duration of each row by the total, not their sum: a visit is split among the rows whose
pages it saw, and the parts overlap in time (analytics.py:126-131, 155-187).

### Fairness

Only `rollup_live` assumes any. `Fairness` of `VisitorRollup` says:

- weak fairness of each handler and of each statement of a run: web workers and the job are processes
  whose statements return;
- strong fairness of starting an unfiltered run: a scheduler starts one every day
  (`run_daily_maintenance`, `railway.rollup.toml`);
- strong fairness of beginning a batch, a unit, the end of the units and the final salt cleanup: each run
  has a fresh budget, so that the deadline does not always pass just before the next step is begun, and the
  lock is not held every time. Weak fairness would not do, because other runs take the lock in between;
- the transaction of a `--replace` ends, and some time no further one is started: while one import after another
  locks the oldest events, batches may pass over them for ever;
- runs do not die forever. A unit that always raises is never rolled up, and blocks those sorted after it;
  this assumption is what the code needs, and is listed as a hazard.

## Proofs

TLAPS checks the following for every value of the constants that satisfies the assumptions, which TLC
evaluates in every run:

- `VisitFoldAssumption`, `VisitorIngestAssumption`, `VisitorRollupAssumption`, `VisitorBackfillAssumption`,
  `AIGrantsAssumption`: constants are naturals, positive where the code divides by them, `MaxLateness <=
  Retention` (requests are shorter than retention), and ids of imported rows are unique and none of the
  site's own;
- `IngestGateAssumption`: a host that has proxies trusts their headers and has counted them or not at all, the
  cache lives longer than no time, and no thread is called like a free lock;
- `DateRangesAssumption`, `CalendarAssumption`: the calendar holds the year before each question and the day after
  it; a zone is within 14 hours of UTC and does not put its clocks back within a month of putting them forward,
  which is so of every zone the API accepts;
- `SiteReportsAssumption`, `ApiV1Assumption`: rows have a primary key, buckets are not empty, a stored day has no
  more bounces than visits and no more visits than pageviews (`CountsAlwaysConsistent` says so of each row that is
  summed), stored months are whole; a body's fields have the types JSON gives them, and NULL is no number;
- `PreferencesAssumption`, `ShelvesAssumption`: what is stored when the behaviour begins was stored by this
  code (primary keys are unique, no site has two rows of preferences yet, layouts were validated).

Every invariant and action property of every passing run is stated by a theorem. Every inductive invariant was a
TLC invariant of the component's run before it was proved. The
components have specifications of their own (`Spec`, `BackfillSpec`, `ImportsSpec`, `GateSpec`, `TabSpec`,
`AccountsSpec`, `WebSpec`, `DashSpec`, `DatesSpec`, `ReportsSpec`, `ApiSpec`, `GrantsSpec`); the theorems are about these, and
`MCPlatform` and `MCConsole` run the same actions.

**A visit row** (`VisitFoldProofs`). `TypeOK` needs that gaps and durations are naturals in either order of
stamps. `RowInv` is inductive: at least one page is in the open visit, a visit of one page has no folded
duration, and the closed visits hold enough pages and bounces. The second conjunct is what makes the
dashboard's formula, which looks at one column, agree with the rollup's (`ReadingsAlwaysAgree`,
`VerdictIsKept`); the others give `CountsAlwaysConsistent`. `ReportedTimeMonotone` goes by the branches of
the fold.

**What a visit row says of its requests** (`VisitFoldProofs`). When requests commit in the order of their
stamps, the row is what a reader of the recorded sequence would say. `ActivityInv`: the row has seen the latest of
the requests that keep a visit alive and nothing later, and its visits are their openings (`VisitsAreKeptAlive`);
a beacon that comes too late changes neither side. `SessionInv`, where there are no beacons: closed visits are
the sessions that another one follows, the open visit is the last session, and durations are the sum of the gaps
inside (`RowsReadAsSessions`). Both follow a sequence as it grows by one request, so that the induction is the
one over the steps of the specification and none over data is needed; the sum is `SetSums`'.

**Accounting** (`VisitorRollupProofs`). `NeverCountedTwice` is not inductive: it says
nothing of a transaction that is half done. `AccountingInv` adds who is inside a transaction (`LockInv`: the
lock holder alone), what it summed (`TxInv`: part of the unit and, once the DELETE has run, part of what is
deleted), that a request folds once (`HitInv`), that a row the sums missed was folded after them (`LossInv`),
and that units are of ended months (`EndedInv`). At the commit, the only step that changes permanent tables,
these say that exactly the rows that disappear are added. From it follow `CountedAtMostOnce`,
`CountedAtLeastOnce` and `OpenMonthsAreKept`, for any number of sites, processes, requests and overlapping
runs and a crash at any statement.

**Refinement** (`VisitorRollupProofs`). `RollupKeepsLedger` says that every behaviour of ingestion and maintenance is
one of `VisitLedger` under the mapping above. The initial states map to the initial state. `FoldVisit` is
`Open` of its hit (`FoldOpens`: by `HitInv` it was not known), `Commit` of a unit's transaction is `Close` of the rows
it deletes, with each of them entered once in each table or, when exposed, perhaps missing from some
(`AccountingInv` at the commit), and every other action leaves what the ledger sees unchanged
(`UnseenSteps`). The invariant is needed because a commit is a `Close` only if the sums of the transaction
agree with what it deletes, which nothing in the state before says by itself.

**Digests and salts** (`VisitorRollupProofs`). `CountedOncePerMonth` compares digests that several processes made, of
which no table says the salt. `DigestInv` follows them: while a month lasts, its row's salt is the one that
every cache and every request in flight holds (`SaltInv`); what has been stored of a unit shares one salt
unless a request came late for it (`TraceInv`); once the month is over and nothing is late, nothing is added to
a unit after its transaction has looked, so that the transaction empties it (`ErasureInv`) and destroys a salt
only when no digest needs it (`DeadSaltInv`); and nobody is in the permanent tables of a month that lasts
(`OpenMonthInv`), so that a visitor enters them with one digest. `SaltsAreKept` and `VisitorsCountOnce` follow.

**What is shown** (`VisitorRollupProofs`). `ShownPageviewsStay` relates what two jobs erase to what a third reads.
The split lies past the cutoff of every run, also of one that read the clock long ago (`SplitIsPastTheCutoff`,
`SplitNeverMovesBack`), so that a batch of retention erases digests that are not read any more; a unit rolled up
enters `visitor_daily` with each of its pageviews and never leaves it (`AccountingInv`); and when the clock moves
the split past a shown pageview (`ClockSteps`), that pageview is in the aggregates, still live, or was never wholly
folded (`NothingIsLost`). `DigestFootprint` lists the statements that touch a digest of an event at all.

**Completion** (`VisitorRollupProofs`, at the end). What a run that says "completed" has not left behind is a claim
about everything that was ripe when it started (`due`), while other runs work on the same list and late requests
add to it. `DueInv` says that what is still live of it is in the sites and months of the run and in months that
had ended, so that a list of pending units that is empty leaves none of it; `VerdictInv` that a run which is not
behind at its verdict has none of it live, and ends with no digest expired, since it looks again for
expired rows after its batches, those it passed over included (`retention_pending`); `LatenessInv` that a request is at
most `MaxLateness` midnights old, so that none stores a digest that has expired already. What is not live any
more has been counted, by `AccountingInv`, whichever run committed it.

**Backfill** (`PlatformProofs`). `InputsSurvive` holds because the backfill, the rollup and retention share the
lock; `BackfillTxInv` says what of a transaction's reading is still so. `CountedByOneSide` needs that a digest's
first day and its accounted days stay what they were when the backfill looked, except for the digests in
`doubtful`, which is the window of the finding `backfill_twice`: `PageviewInv` and `DoubtInv` follow each live
pageview from its event to its fold and past its rollup.

**Imports** (`PlatformProofs`). `CopiesInv`: as long as no `--replace` onto its website has intervened, each row a job has
taken is in the table under that website, or was kept out by another row with its key, or the job is still copying and
the row is left to write or written in its open transaction. The insert looks at the key alone, and a commit of
another job may put a row with that key under any website: that two rows with one key and one website are the same
row (`SameTargetSameRow`) is what the proof needs. A
failure or a restart ends the job without a success, so that success is only said once nothing is open.

**Gate** (`PlatformProofs`). `ListInv` says that the thread that refreshes is the one that holds its worker's
lock, and found the list stale; that what it has fetched was true (`TrueSince`) at some instant since it read the
clock; and that the list in use was true at some instant since its stamp. `SiteCacheIsFresh` is this and the test
of the stamp.

**Limiter** (`PlatformProofs`). `FloodIsBounded` says nothing of the limiter's table. `FloodInv` adds, for each
client, that the hits let through before its window began (`WindowOf`), all but the last limit of them, are older than
the window by its length, less the wait (`lag`), and that the window has let through no more than it has counted;
a client without an entry could be given a full window at once (`OlderThan`). Reading the clock before the lock
lets a window begin earlier than the hit that opens it is counted; that is what `lag` measures.

**Tracker** (`PlatformProofs`). `NavigationInv` says of a calm tab that either the tracker knows of the page shown
and at most one view waits to be sent, or a timer is still to notice it and no view waits; `CountInv` that what
is asked for and what is sent differ by the one page owed at most; `TimeInv` that no timer is older than a
tick, and that the time on the tracker's clock is bounded by the time its page, or the one before it, was
visible.

**Accounts** (`AccountProofs`). A request that is about to take an administrator away has counted another one
(`ReadingsInv`), and unless it is overtaken that one is still there when it saves: any save of a role or a
deletion marks the readings of all others overtaken. `DeletionIsForGood` is an action property: a save writes the
columns of its form (`EditedRow`), never the column that says deleted.

**Preferences** (`ConsoleProofs`). `PreferencesInv`: whoever is past the advisory lock of a site is alone
(`LockIsExclusive`), and so what it found is still so when it writes (`FoundHolds`): it replaces the row it
found, or inserts where there is none. The table has no unique key that would say so.

**Dashboards** (`ConsoleProofs`). `RowsInv` relates each row to what was last sent of it and says that what waits
in a slot has been validated; a save writes the columns it was sent (`DirtyColumns`) over the row of that moment,
whatever it read before, so that each column holds what the last save that sent it said
(`ColumnsHoldWhatWasSent`). `BuilderInv` says of each widget on screen that the previews
of its present number were asked in its present shell under the present form and filters, and that without one
the screen shows that (`Settled`); it is kept because whatever changes the form, the filters or the shell also
takes a new number. `ViewersOnlyNarrow` is a lemma about the filters themselves: a viewer's positive filter on a
column with a saved positive one is dropped, and every other filter takes rows away.

**Dates** (`ConsoleProofs`). For every calendar that satisfies the assumptions, months follow and cover the
days (`MonthsFollow`, `DayIsOfAMonth`), from which the ends of the pages' presets and of API v1's meet
(`AllPresetsAgree`, preset by preset). A zone's clock shows a time at one instant, at two or at none
(`ClocksAreRead`); `BoundariesAreTheOnlyOnes` shows that the two round trips of `_localize_strict` accept exactly
the first kind, and that a date, which takes midnight without the check, is the instant its day begins in all
three cases; `LocalDaysBegin`, `BucketsHold` and `BucketsBegin` what an instant floored to a bucket shows.

**Sums** (`SetSums`). The community modules' sum over a set is a recursion over a choice of elements, of which
nothing can be proved by induction here. `SetSums` shows instead that among the finite sets with a property there
is one that holds no smaller one (`SmallestSet`, from the well-foundedness of the naturals), so that a
counterexample to a law of sums would have a smallest one: the sum takes any element first (`SumTakesAny`), splits
(`SumSplits`), and rows counted or summed by the value of a column add up to all of them (`CountsByValue`,
`SumsByValue`).

**Reports** (`ReportProofs`). A report is computed in one action, and what fits then (`ReportFits`) fits after, because
the table stays (`FitsStay`). There is a lemma per page: the buckets of a chart cover its range
(`SeriesAddUp`); a visit that ends is one that no row follows within the gap, in the chart, the headline and the
landing pages alike (`FiguresFit`, `LandingsAreShown`); digests of a page or group are fewer than its rows, where
the two filter translations select the same (`OrmRowsAreSql`, `VisitorsAreFewer`); ranked listings are cut of
counts of all rows (`TopsAreShown`), channels and groups are counted alike (`ChannelsAreShown`,
`GroupsAreCounted`).

**API** (`ReportProofs`). `ApiInv` follows a request between its statements: while it reads, its statements are those
its kind prepares (`Reading`), and each answer got so far is the statement's over the table as it is, unless a
hit was stored in between (`Fresh`). What is answered is then a matter of operators: one row per key and bucket
of the selected hits (`RowsCountOnce`, `CountsSumUp`), a total that is the row of no key (`TotalIsOneRow`), visits
that only split (`VisitsOnlySplit`) and are no longer in part than in whole (`LengthsAddUp`, `DurationsFit`), and
two periods merged by key (`ComparisonsAddUp`, `ChangesAddUp`). The parser's rules are why a spec is one of these
at all (`ParsedIsGood`).

**Grants** (`AIGrantsProofs`). `OneLiveCredential` and `RevokedHasNoCredentials` rest on what a transaction
has seen still being true when it commits. `SlotSound` says what each request in progress relies on: an
approval on an unused consent request, an exchange that holds its connection on the connection not being
revoked and its credential being unused. `Compatible` says that no two requests hold the lock of one row.
Every action that writes is shown to leave alone what other slots' locks protect (`OthersKept`,
`ShrinkStep`), and each commit adds one live credential in exchange for one (`AfterConsume`, `CommitStep`).
`AnswersAuthorized` is an action property from the same invariant. The quota needs another one
(`QuotaInv`): connections are counted under the password they are bound to, so that an older password that
comes back changes no count, and an approval that has seen room for one more holds its user until its
commit. `CleanupSafe` shows that no credential that counts disappears but by a revocation: a connection the
cleanup deletes is invalid (`DeadIsInvalid`) and no request has a credential of it locked
(`LockedWithItsConnection`), so that the cascade takes none that counts.

Only model-checked: the liveness properties of `rollup_live` (`BacklogDrains`, `DigestsExpire`,
`SaltsAreDestroyed`), since fairness and ENABLED are out of the prover's reach. What a run that did end with
"completed" has left behind is proved (`CompletedIsThorough`), for any number of runs; that one comes to that end is
what TLC checks.

What the proofs showed of the model:

- `FloodIsBounded` first excepted only waits longer than a window. Shorter ones let a window begin earlier than
  its first hit is counted, so that it was false for constants larger than the run's. It is stated with the wait
  now, and the run has a clock long enough to tell the two apart.
- `RangesAreExact` first had every complete range end at a bucket's first hour, which is false of a zone that
  skips midnight; the run has Beirut's clock for this now.
- `ReportsAddUp` claimed the landing pages' total past retention as well, where it is false for months of more than
  a day.
- `AnswersAddUp` summed durations of rows that overlap, and excepted overlapping dimensions from the quality report,
  which was needless.

## Not modelled

- Column variants of the import: Umami's schema is converted field by field.
- User-agent parsing, GeoIP, the network lists and the truncation of addresses: string work and external data.
  The gate takes their outcome as given. Of the address headers a proxy may set, `cdn` and `other` each stand for
  those the code reads one after another.
- Of AI connections: client registration, the activity log, last-used stamps, and sites. A grant's
  site list is reduced and checked by the same code as its scopes; `Scopes` stands for both.
- Purging a site beside the rollup: the two meet only through row locks the modules do not represent. It is
  listed as a hazard.
- Widths of the counters: the SQL casts sums to integer and raises on overflow; the model's counters are
  naturals and a raising statement is `Crash` or `FoldFails`. A unit that always raises blocks the units
  sorted after it in every run; `rollup_live` assumes that there is none.
- The order of rows that tie in a listing (`queries/pageviews.py`, OFFSET without a tie-break): a choice in
  `SiteReports`, and no property relates two requests of one listing.
- Chart configuration, number formatting, templates, JSON helpers, security headers, scheduled exports, the
  React wrapper, the command line and MCP clients, and settings: layout, or requests that pass a modelled
  operation through. `PROJECT.json` gives the reason for each.
- Time zones in the pipeline: the code counts in UTC days throughout. `DateRanges` has zones where the API does.

## Plan

Written: the visit fold and its reference; ingestion and rollup with the ledger they implement, the digests, salts
and verdicts; the backfill and what is read of it; import jobs, gate and tracker; accounts, preferences and
dashboards; dates, reports and API v1; AI grants; each checked and proved. What could follow:

1. **Purge**: a site's purge as an action of `VisitorRollup`, with the row locks it waits for.
2. **Tie-breaks**: two requests of one listing, so that rows that tie may swap between them.
