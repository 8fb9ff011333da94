---------------------------- MODULE VisitorIngest ----------------------------
(***************************************************************************)
(* How a hit travels through the tracker (apps/tracker/services.py) into   *)
(* the tables the maintenance job later reads: website_event,              *)
(* visitor_day_state, visitor_scope_state and visitor_salt.                *)
(*                                                                         *)
(* A web process handles several requests at once and shares one salt      *)
(* cache between them.  Every SQL statement of a handler commits by        *)
(* itself, so each is an action and anything may happen between two of     *)
(* them.  The digest HMAC(salt, site | ip | agent) is the record of its    *)
(* inputs; "visitor" is the (truncated ip, agent) pair.                    *)
(*                                                                         *)
(* What a fold does to the counters of its row is VisitFold's subject;     *)
(* here a visitor_day_state row is the set of the pageviews folded in it.  *)
(*                                                                         *)
(* Time is counted in ticks: an instant is a natural number, and days and  *)
(* months are spans of ticks.                                              *)
(***************************************************************************)
EXTENDS Integers, FiniteSets

CONSTANTS
    Sites,
    Visitors,
    Processes,      \* web server processes
    Slots,          \* bound: requests in flight over all processes
    Kinds,          \* kinds of hit that are received
    Replaced,       \* websites that are imported into with --replace
    TicksPerDay,
    TicksPerPeriod, \* length of a calendar month
    LastTick,       \* bound: the clock stops at this instant
    MaxHits,        \* bound: requests received
    MaxLateness,    \* bound: ticks a request may be in flight
    SaltCacheSize   \* entries that fill _SALT_CACHE (8)

ASSUME VisitorIngestAssumption ==
    /\ Kinds \subseteq {"pageview", "event", "bot", "beacon"}
    /\ Replaced \subseteq Sites
    /\ TicksPerDay \in Nat \ {0}
    /\ TicksPerPeriod \in Nat \ {0}
    /\ LastTick \in Nat
    /\ MaxHits \in Nat
    /\ MaxLateness \in Nat
    /\ SaltCacheSize \in Nat \ {0}

VARIABLES
    clock,           \* timezone.now()
    salt,            \* visitor_salt: the salt of each period, 0 if no row
    saltsMade,       \* salts ever drawn: token_bytes never repeats
    cache,           \* _SALT_CACHE of each process, 0 if not cached
    req,             \* the request each slot is handling
    hits,            \* requests received so far
    events,          \* website_event
    visits,          \* visitor_day_state, by pageview
    presence,        \* visitor_scope_state
    lockedVisits,    \* rows an open transaction has deleted
    lockedPresence,
    lockedEvents,
    folded,          \* history: pageviews ever folded
    late             \* history: units written to after their period ended

storeVars == <<salt, saltsMade, events, visits, presence>>
ingestVars == <<clock, salt, saltsMade, cache, req, hits, events, visits,
                presence, lockedVisits, lockedPresence, lockedEvents, folded,
                late>>

Times == 0..LastTick
Hits == 1..MaxHits
Day(t) == t \div TicksPerDay
Period(t) == t \div TicksPerPeriod
Periods == {Period(t) : t \in Times}
Units == [site : Sites, period : Periods]

Key == [visitor : Visitors, site : Sites, salt : Nat \ {0}]
NoKey == [absent |-> TRUE]

Event == [hit : Hits, site : Sites, at : Times, kind : Kinds,
          key : Key \cup {NoKey}]
Visit == [hit : Hits, site : Sites, at : Times, key : Key]
Presence == [site : Sites, period : Periods, scope : Kinds, key : Key]

Request == [phase : {"received", "keyed", "stored", "folded"},
            process : Processes, kind : Kinds, hit : Hits, site : Sites,
            visitor : Visitors, at : Times, key : Key \cup {NoKey}]
NoRequest == [phase |-> "idle"]

UnitOf(v) == [site |-> v.site, period |-> Period(v.at)]

\* _period_ended: the window's last day lies before the month of instant t.
Ended(p, t) == p < Period(t)

\* visitor_day_state and visitor_scope_state are unique per these columns.
SameRow(v, w) ==
    v.site = w.site /\ Day(v.at) = Day(w.at) /\ v.key = w.key

IngestInit ==
    /\ clock = 0
    /\ salt = [p \in Periods |-> 0]
    /\ saltsMade = 0
    /\ cache = [c \in Processes |-> [p \in Periods |-> 0]]
    /\ req = [s \in Slots |-> NoRequest]
    /\ hits = 0
    /\ events = {}
    /\ visits = {}
    /\ presence = {}
    /\ lockedVisits = {}
    /\ lockedPresence = {}
    /\ lockedEvents = {}
    /\ folded = {}
    /\ late = {}

(***************************************************************************)
(* The handlers.                                                           *)
(***************************************************************************)

\* IngestView dispatches a human or bot pageview, a custom event or a beacon;
\* the handler's first statement reads the clock.
Receive(s) ==
    /\ req[s] = NoRequest
    /\ hits < MaxHits
    /\ \E c \in Processes, k \in Kinds, site \in Sites, v \in Visitors :
          req' = [req EXCEPT ![s] =
                    [phase |-> "received", process |-> c, kind |-> k,
                     hit |-> hits + 1, site |-> site, visitor |-> v,
                     at |-> clock, key |-> NoKey]]
    /\ hits' = hits + 1
    /\ UNCHANGED <<clock, salt, saltsMade, cache, events, visits, presence,
                   lockedVisits, lockedPresence, lockedEvents, folded, late>>

\* The digest for the event row, and record_visit's own for the fold.
NeedsKey(s) ==
    \/ req[s].phase = "received"
    \/ req[s].phase = "stored" /\ req[s].key = NoKey

\* Mutant: the shared row is not consulted, each process draws its own salt.
SaltPerProcess(c, p) ==
    IF cache[c][p] # 0 THEN cache[c][p] ELSE saltsMade + 1

\* The process-local salt, else the shared row, else a new row.
SaltFor(c, p) ==
    IF cache[c][p] # 0 THEN cache[c][p]
    ELSE IF salt[p] # 0 THEN salt[p] ELSE saltsMade + 1

Remember(c, p, x) ==
    IF cache[c][p] # 0 THEN cache
    ELSE [cache EXCEPT ![c] =
            LET full == Cardinality({q \in Periods : cache[c][q] # 0})
                            >= SaltCacheSize
            IN  [q \in Periods |-> IF q = p THEN x
                                   ELSE IF full THEN 0 ELSE cache[c][q]]]

\* get_or_create_salt and compute_visitor_key.  A beacon ends here: its
\* UPDATE creates no row (see VisitFold).
DeriveKey(s) ==
    /\ NeedsKey(s)
    /\ LET q == req[s]
           p == Period(q.at)
           x == SaltFor(q.process, p)
           k == [visitor |-> q.visitor, site |-> q.site, salt |-> x]
       IN  /\ cache' = Remember(q.process, p, x)
           /\ salt' = IF x > saltsMade THEN [salt EXCEPT ![p] = x] ELSE salt
           /\ saltsMade' = IF x > saltsMade THEN x ELSE saltsMade
           /\ req' = [req EXCEPT ![s] =
                        IF q.kind = "beacon" THEN NoRequest
                        ELSE IF q.phase = "received"
                             THEN [q EXCEPT !.phase = "keyed", !.key = k]
                             ELSE [q EXCEPT !.key = k]]
    /\ UNCHANGED <<clock, hits, events, visits, presence, lockedVisits,
                   lockedPresence, lockedEvents, folded, late>>

\* The digest is best effort: the event is stored without one.
KeyFails(s) ==
    /\ req[s].phase = "received"
    /\ req' = [req EXCEPT ![s] = IF req[s].kind = "beacon" THEN NoRequest
                                 ELSE [req[s] EXCEPT !.phase = "keyed"]]
    /\ UNCHANGED <<clock, salt, saltsMade, cache, hits, events, visits,
                   presence, lockedVisits, lockedPresence, lockedEvents,
                   folded, late>>

\* The durable INSERT.  Only human pageviews drive visits; a custom event
\* with a digest goes straight to its scope presence; a bot is done.
StoreEvent(s) ==
    /\ req[s].phase = "keyed"
    /\ LET q == req[s] IN
       /\ events' = events \cup {[hit |-> q.hit, site |-> q.site,
                                  at |-> q.at, kind |-> q.kind,
                                  key |-> q.key]}
       /\ req' = [req EXCEPT ![s] =
                    IF q.kind = "pageview" THEN [q EXCEPT !.phase = "stored", !.key = NoKey]
                    ELSE IF q.kind = "event" /\ q.key # NoKey
                         THEN [q EXCEPT !.phase = "folded"]
                         ELSE NoRequest]
    /\ UNCHANGED <<clock, salt, saltsMade, cache, hits, visits, presence,
                   lockedVisits, lockedPresence, lockedEvents, folded, late>>

MarkLate(q) ==
    IF Ended(Period(q.at), clock) THEN late \cup {UnitOf(q)} ELSE late

\* record_visit's upsert waits for a transaction that has deleted its row.
FoldVisit(s) ==
    /\ req[s].phase = "stored"
    /\ req[s].key # NoKey
    /\ LET q == req[s]
           v == [hit |-> q.hit, site |-> q.site, at |-> q.at, key |-> q.key]
       IN  /\ \A w \in lockedVisits : ~SameRow(v, w)
           /\ visits' = visits \cup {v}
           /\ folded' = folded \cup {q.hit}
           /\ late' = MarkLate(q)
           /\ req' = [req EXCEPT ![s].phase = "folded"]
    /\ UNCHANGED <<clock, salt, saltsMade, cache, hits, events, presence,
                   lockedVisits, lockedPresence, lockedEvents>>

\* record_scope_presence; page, section and group rows of one pageview are
\* written by one statement and stand for one row here.
RecordPresence(s) ==
    /\ req[s].phase = "folded"
    /\ LET q == req[s]
           n == [site |-> q.site, period |-> Period(q.at),
                 scope |-> q.kind, key |-> q.key]
       IN  /\ n \notin lockedPresence
           /\ presence' = presence \cup {n}
           /\ late' = MarkLate(q)
           /\ req' = [req EXCEPT ![s] = NoRequest]
    /\ UNCHANGED <<clock, salt, saltsMade, cache, hits, events, visits,
                   lockedVisits, lockedPresence, lockedEvents, folded>>

\* The insert raises (the client gets an error), or a later step raises and
\* is swallowed with a warning.
HandlerFails(s) ==
    /\ req[s].phase \in {"keyed", "stored", "folded"}
    /\ req' = [req EXCEPT ![s] = NoRequest]
    /\ UNCHANGED <<clock, salt, saltsMade, cache, hits, events, visits,
                   presence, lockedVisits, lockedPresence, lockedEvents,
                   folded, late>>

\* A web process is restarted: its requests and its cache are gone.
RestartProcess(c) ==
    /\ cache' = [cache EXCEPT ![c] = [p \in Periods |-> 0]]
    /\ req' = [s \in Slots |->
                 IF req[s] # NoRequest /\ req[s].process = c
                 THEN NoRequest ELSE req[s]]
    /\ UNCHANGED <<clock, salt, saltsMade, hits, events, visits, presence,
                   lockedVisits, lockedPresence, lockedEvents, folded, late>>

\* replace_target_data: in a transaction of its own, an import deletes the
\* events it is going to bring again, those of its website between two
\* instants.  Until it commits they are there for everybody else, locked.
Replace(site) ==
    /\ lockedEvents = {}
    /\ \E lo, hi \in Times :
          lockedEvents' =
              {e \in events : e.site = site /\ lo <= e.at /\ e.at <= hi}
    /\ UNCHANGED <<clock, salt, saltsMade, cache, req, hits, events, visits,
                   presence, lockedVisits, lockedPresence, folded, late>>

EndReplace ==
    /\ lockedEvents # {}
    /\ lockedEvents' = {}
    /\ events' \in {events, events \ lockedEvents}
    /\ UNCHANGED <<clock, salt, saltsMade, cache, req, hits, visits, presence,
                   lockedVisits, lockedPresence, folded, late>>

Tick ==
    /\ clock < LastTick
    /\ \A s \in Slots : req[s] # NoRequest =>
                           clock < req[s].at + MaxLateness
    /\ clock' = clock + 1
    /\ UNCHANGED <<salt, saltsMade, cache, req, hits, events, visits,
                   presence, lockedVisits, lockedPresence, lockedEvents,
                   folded, late>>

Handle(s) ==
    \/ DeriveKey(s) \/ KeyFails(s) \/ StoreEvent(s) \/ FoldVisit(s)
    \/ RecordPresence(s) \/ HandlerFails(s)

IngestNext ==
    \/ \E s \in Slots : Receive(s) \/ Handle(s)
    \/ \E c \in Processes : RestartProcess(c)
    \/ \E site \in Replaced : Replace(site)
    \/ EndReplace
    \/ Tick

RequestsTyped ==
    /\ req \in [Slots -> Request \cup {NoRequest}]
    /\ \A s \in Slots : req[s].phase = "folded" => req[s].key # NoKey

IngestTypeOK ==
    /\ clock \in Times
    /\ salt \in [Periods -> Nat]
    /\ saltsMade \in Nat
    /\ cache \in [Processes -> [Periods -> Nat]]
    /\ RequestsTyped
    /\ hits \in 0..MaxHits
    /\ events \subseteq Event
    /\ visits \subseteq Visit /\ IsFiniteSet(visits)
    /\ presence \subseteq Presence /\ IsFiniteSet(presence)
    /\ lockedVisits \subseteq visits
    /\ lockedPresence \subseteq presence
    /\ lockedEvents \subseteq events
    /\ folded \subseteq Hits
    /\ late \subseteq Units
=============================================================================
