----------------------------- MODULE IngestGate -----------------------------
(* The gate of POST /api/send (apps/tracker/views.py, services.py): a hit is    *)
(* checked, its site is looked up in a list that each worker process keeps for  *)
(* a minute, and its address is counted.  The threads of a worker share the     *)
(* list and the counters and lock them separately; each thread reads the        *)
(* monotonic clock before it has the lock.  What passes is stored by            *)
(* VisitorIngest.                                                               *)
EXTENDS Naturals, FiniteSets, Sequences

FreeLock == [free |-> TRUE]
NoAddress == "no address"

CONSTANTS
    GateSites,       \* websites
    Workers,         \* web worker processes of one host
    Threads,         \* requests in progress
    Addresses,       \* addresses of clients
    Proxy,           \* the address of a proxy in front of the host
    Setups,          \* bound: deployments: [trust, count, custom, hops, table]
    Sent,            \* bound: headers a client sends: [forwarded, cdn, other]
    MaxBody,         \* INGEST_MAX_BODY_BYTES
    Ttl,             \* _WEBSITE_CACHE_TTL_S
    Window,          \* _RATE_WINDOW_S
    Limit,           \* INGEST_RATE_LIMIT_PER_MINUTE, 0 for no limit
    LastInstant,     \* bound of the clock, which starts when the host boots
    MaxEvents        \* bound: hits received, sites created or deleted

\* what a header may say of a host on the way
Entries == [ip : Addresses \cup {Proxy, NoAddress}, port : BOOLEAN]
Entry(a) == [ip |-> a, port |-> FALSE]

ASSUME IngestGateAssumption ==
    /\ \A d \in Setups : (d.hops > 0 => d.trust) /\ d.count \in {0, d.hops}
    /\ \A d \in Setups : d.trust \in BOOLEAN /\ d.custom \in BOOLEAN /\ d.hops \in Nat
    /\ \A s \in Sent : s.forwarded \in Seq(Entries)
    /\ Ttl \in Nat \ {0} /\ LastInstant \in Nat
    /\ Window \in Nat \ {0} /\ Limit \in Nat /\ NoAddress \notin Addresses
    /\ FreeLock \notin Threads

VARIABLES
    setup,       \* this host's deployment
    clock,       \* time.monotonic()
    sites,       \* website rows: absent, active or deleted
    lastOn,      \* history: the last instant a site was active
    lastOff,     \* history: the last instant it was not
    worker,      \* module globals of each process
    thread,      \* the request each thread handles
    used,        \* hits received and sites changed, for the bounds
    passed,      \* history: when each hit of a client was let through, by process
    lag          \* history: the longest a hit waited to be counted, by process

gateVars == <<setup, clock, sites, lastOn, lastOff, worker, thread, used, passed, lag>>

Waiting == [phase |-> "waiting"]
FreshProcess ==
    [cache |-> {}, at |-> 0, lock |-> FreeLock, rate |-> [a \in {} |-> <<0, 0>>]]
NothingPassed == [a \in Addresses |-> <<>>]

In(t, phase) == thread[t].phase = phase
Own(t) == worker[thread[t].worker]

-----------------------------------------------------------------------------
(* IngestView.post: what is refused or ignored before any state is read.       *)

OptedOut(hit) == hit.gpc            \* RESPECT_GPC on and RESPECT_DNT off, as shipped
Answered(hit) ==
    \/ MaxBody # 0 /\ (hit.declared > MaxBody \/ hit.length > MaxBody)   \* 413
    \/ ~hit.json \/ ~hit.payload \/ hit.site = "none"                    \* 400
    \/ hit.type \notin {"event", "engagement"}                           \* ok, ignored
    \/ OptedOut(hit)                                                     \* ok, ignored
    \/ hit.site = "malformed"                                            \* ok, no UUID

Wire ==
    [declared : {0, MaxBody, MaxBody + 1}, length : {MaxBody, MaxBody + 1},
     json : BOOLEAN, payload : BOOLEAN, gpc : BOOLEAN, dnt : BOOLEAN,
     site : GateSites \cup {"none", "malformed"},
     type : {"event", "engagement", "identify"}]

\* beyond those checks the gate needs the site only
Heard == {h.site : h \in {w \in Wire : ~Answered(w)}}

-----------------------------------------------------------------------------
(* get_client_ip.  In deployment d, TRUST_PROXY_HEADERS is d.trust,           *)
(* TRUSTED_PROXY_COUNT is d.count, and d.custom says that CLIENT_IP_HEADER is   *)
(* set; d.table is _RATE_STATE_MAX.                                             *)

StripPort(e) == e.ip

\* each proxy appends the address it saw; the outermost names the client in a
\* header of its own, or drops that header
Arriving(d, source, sent, named) ==
    [peer |-> IF d.hops = 0 THEN source ELSE Entry(Proxy),
     forwarded |-> IF d.hops = 0 THEN sent.forwarded
                   ELSE sent.forwarded \o <<source>> \o [i \in 1..(d.hops - 1) |-> Entry(Proxy)],
     custom |-> IF named THEN source ELSE Entry(NoAddress),
     cdn |-> sent.cdn, other |-> sent.other]

CustomHeaderIp(d, r) == IF d.custom THEN StripPort(r.custom) ELSE NoAddress
Present(ip) == ip # NoAddress
First(ips) ==
    LET found == {i \in DOMAIN ips : Present(ips[i])}
    IN  IF found = {} THEN NoAddress
        ELSE ips[CHOOSE i \in found : \A j \in found : i <= j]
FromTheRight(d, r) ==
    IF Len(r.forwarded) < d.count THEN NoAddress
    ELSE StripPort(r.forwarded[Len(r.forwarded) + 1 - d.count])
Leftmost(r) == IF r.forwarded = <<>> THEN NoAddress ELSE StripPort(r.forwarded[1])

ClientIp(d, r) ==
    First(CASE ~d.trust -> <<StripPort(r.peer)>>
            [] d.trust /\ d.count > 0 -> <<CustomHeaderIp(d, r), FromTheRight(d, r), StripPort(r.peer)>>
            [] d.trust /\ d.count = 0 ->
                  <<CustomHeaderIp(d, r), StripPort(r.cdn), Leftmost(r), StripPort(r.other), StripPort(r.peer)>>)

\* only with the number of its proxies set does a host know its clients
Hardened == setup.trust => setup.count > 0

\* a client of each deployment and the address it is taken for
Callers == [d \in Setups |->
    {[source |-> a, address |-> ClientIp(d, Arriving(d, [ip |-> a, port |-> port], sent, named))] :
        a \in Addresses, port \in BOOLEAN, named \in BOOLEAN, sent \in Sent}]

Receive(t) ==
    /\ thread[t] = Waiting
    /\ used < MaxEvents
    /\ \E w \in Workers, s \in Heard, c \in Callers[setup] :
          thread' = [thread EXCEPT ![t] = [phase |-> "site", worker |-> w, now |-> clock,
                        site |-> s, source |-> c.source, address |-> c.address, fetched |-> {}]]
    /\ used' = used + 1
    /\ UNCHANGED <<setup, clock, sites, lastOn, lastOff, worker, passed, lag>>

-----------------------------------------------------------------------------
(* is_trackable_website: "now" was read on entry.                              *)

Stale(t) == thread[t].now >= Own(t).at + Ttl
Step(t, phase) == thread' = [thread EXCEPT ![t].phase = phase]
SetOwn(t, w) == worker' = [worker EXCEPT ![thread[t].worker] = w]

LookAtCache(t) ==
    /\ In(t, "site")
    /\ Step(t, IF Stale(t) THEN "lock" ELSE "member")
    /\ UNCHANGED <<setup, clock, sites, lastOn, lastOff, worker, used, passed, lag>>

\* double-checked: another thread may have refreshed the list meanwhile
TakeSiteLock(t) ==
    /\ In(t, "lock") /\ Own(t).lock = FreeLock
    /\ IF Stale(t)
       THEN SetOwn(t, [Own(t) EXCEPT !.lock = t]) /\ Step(t, "query")
       ELSE Step(t, "member") /\ UNCHANGED worker
    /\ UNCHANGED <<setup, clock, sites, lastOn, lastOff, used, passed, lag>>

ActiveSites == {s \in GateSites : sites[s] = "active"}

QueryStampingFirst(t) ==
    /\ In(t, "query")
    /\ thread' = [thread EXCEPT ![t].fetched = ActiveSites, ![t].phase = "publish"]
    /\ SetOwn(t, [Own(t) EXCEPT !.at = thread[t].now])
    /\ UNCHANGED <<setup, clock, sites, lastOn, lastOff, used, passed, lag>>

QuerySites(t) ==
    /\ In(t, "query")
    /\ thread' = [thread EXCEPT ![t].fetched = ActiveSites, ![t].phase = "publish"]
    /\ UNCHANGED <<setup, clock, sites, lastOn, lastOff, worker, used, passed, lag>>

\* the query raises: the lock is released and the hit is lost
QueryFails(t) ==
    /\ In(t, "query")
    /\ SetOwn(t, [Own(t) EXCEPT !.lock = FreeLock])
    /\ thread' = [thread EXCEPT ![t] = Waiting]
    /\ UNCHANGED <<setup, clock, sites, lastOn, lastOff, used, passed, lag>>

\* two assignments: the list, then the instant it stands for
PublishList(t) ==
    /\ In(t, "publish")
    /\ SetOwn(t, [Own(t) EXCEPT !.cache = thread[t].fetched])
    /\ Step(t, "stamp")
    /\ UNCHANGED <<setup, clock, sites, lastOn, lastOff, used, passed, lag>>

StampList(t) ==
    /\ In(t, "stamp")
    /\ SetOwn(t, [Own(t) EXCEPT !.at = thread[t].now, !.lock = FreeLock])
    /\ thread' = [thread EXCEPT ![t].phase = "member", ![t].fetched = {}]
    /\ UNCHANGED <<setup, clock, sites, lastOn, lastOff, used, passed, lag>>

\* an unknown site is answered like a known one and nothing is stored
CheckMember(t) ==
    /\ In(t, "member")
    /\ Step(t, IF thread[t].site \in Own(t).cache THEN "rate" ELSE "unheard")
    /\ UNCHANGED <<setup, clock, sites, lastOn, lastOff, worker, used, passed, lag>>

-----------------------------------------------------------------------------
(* _rate_limited: a fixed window per address, in a table of bounded size.      *)

ReadRateClock(t) ==
    /\ In(t, "rate")
    /\ thread' = [thread EXCEPT ![t].phase = "count", ![t].now = clock]
    /\ UNCHANGED <<setup, clock, sites, lastOn, lastOff, worker, used, passed, lag>>

Elapsed(start, now) == now >= start + Window

CountedAfresh(rate, a, now) == <<1, now>>

\* count and start of the address's window with this hit in it
Counted(rate, a, now) ==
    IF a \in DOMAIN rate /\ ~Elapsed(rate[a][2], now)
    THEN <<rate[a][1] + 1, rate[a][2]>>
    ELSE <<1, now>>

Keep(rate, as) == [a \in as |-> rate[a]]

\* over the cap, the windows that have elapsed go
Purged(rate, now) == Keep(rate, {a \in DOMAIN rate : ~Elapsed(rate[a][2], now)})

\* the longer of two waits; one as long as a window counts as a reset table does
Longest(x, y) == IF y >= Window THEN Window ELSE IF y > x THEN y ELSE x

CountHit(t) ==
    /\ In(t, "count")
    /\ LET a == thread[t].address  now == thread[t].now  w == thread[t].worker
           mine == Counted(Own(t).rate, a, now)
           with == [b \in DOMAIN Own(t).rate \cup {a} |->
                       IF b = a THEN mine ELSE Own(t).rate[b]]
           full == Cardinality(DOMAIN with) > setup.table
           trim == IF full THEN Purged(with, now) ELSE with
           over == Cardinality(DOMAIN trim) > setup.table
       IN IF Limit = 0 \/ a = NoAddress
          THEN Step(t, "store") /\ UNCHANGED <<worker, passed, lag>>
          ELSE /\ SetOwn(t, [Own(t) EXCEPT !.rate = IF over THEN Keep(with, {a}) ELSE trim])
               /\ Step(t, IF mine[1] > Limit THEN "refused" ELSE "store")
               /\ passed' = IF mine[1] > Limit THEN passed
                            ELSE [passed EXCEPT ![w][thread[t].source] = Append(@, clock)]
               /\ lag' = [lag EXCEPT ![w] = IF over THEN Window ELSE Longest(@, clock - now)]
    /\ UNCHANGED <<setup, clock, sites, lastOn, lastOff, used>>

\* the answer: 429, ok for a hit dropped, ok after the hit is stored
Respond(t) ==
    /\ thread[t].phase \in {"refused", "unheard", "store"}
    /\ thread' = [thread EXCEPT ![t] = Waiting]
    /\ UNCHANGED <<setup, clock, sites, lastOn, lastOff, worker, used, passed, lag>>

-----------------------------------------------------------------------------
(* Around: sites come and go, workers restart, time passes.                    *)

SetSite(s, state) ==
    /\ used < MaxEvents
    /\ used' = used + 1
    /\ sites' = [sites EXCEPT ![s] = state]
    /\ lastOn' = IF state = "active" THEN [lastOn EXCEPT ![s] = clock] ELSE lastOn
    /\ lastOff' = IF state = "active" THEN lastOff ELSE [lastOff EXCEPT ![s] = clock]
    /\ UNCHANGED <<setup, clock, worker, thread, passed, lag>>

\* create_website: the form has a name; the id is new
CreateWebsite(s) == sites[s] = "absent" /\ SetSite(s, "active")

\* soft_delete_website: the owner's or any admin's; the row stays
SoftDeleteWebsite(s) == sites[s] = "active" /\ SetSite(s, "deleted")

RestartWorker(w) ==
    /\ worker[w] # FreshProcess
    /\ worker' = [worker EXCEPT ![w] = FreshProcess]
    /\ thread' = [t \in Threads |->
          IF thread[t] # Waiting /\ thread[t].worker = w THEN Waiting ELSE thread[t]]
    /\ passed' = [passed EXCEPT ![w] = NothingPassed]
    /\ lag' = [lag EXCEPT ![w] = 0]
    /\ UNCHANGED <<setup, clock, sites, lastOn, lastOff, used>>

Tick ==
    /\ clock < LastInstant
    /\ clock' = clock + 1
    /\ lastOn' = [s \in GateSites |-> IF sites[s] = "active" THEN clock + 1 ELSE lastOn[s]]
    /\ lastOff' = [s \in GateSites |-> IF sites[s] # "active" THEN clock + 1 ELSE lastOff[s]]
    /\ UNCHANGED <<setup, sites, worker, thread, used, passed, lag>>

InitGate ==
    /\ setup \in Setups
    /\ clock = 0
    /\ sites \in [GateSites -> {"absent", "active"}]
    /\ lastOn = [s \in GateSites |-> 0]
    /\ lastOff = [s \in GateSites |-> 0]
    /\ worker = [w \in Workers |-> FreshProcess]
    /\ thread = [t \in Threads |-> Waiting]
    /\ used = 0
    /\ passed = [w \in Workers |-> NothingPassed]
    /\ lag = [w \in Workers |-> 0]

NextHit ==
    \E t \in Threads :
        \/ Receive(t) \/ LookAtCache(t) \/ TakeSiteLock(t) \/ QuerySites(t)
        \/ QueryFails(t) \/ PublishList(t) \/ StampList(t) \/ CheckMember(t)
        \/ ReadRateClock(t) \/ CountHit(t) \/ Respond(t)

NextGate ==
    \/ NextHit
    \/ \E s \in GateSites : CreateWebsite(s) \/ SoftDeleteWebsite(s)
    \/ \E w \in Workers : RestartWorker(w)
    \/ Tick

GateSpec == InitGate /\ [][NextGate]_gateVars

-----------------------------------------------------------------------------
(* The list may be a minute old and never older, whatever threads refresh it:   *)
(* a hit let through was for a site that was active less than Ttl before the    *)
(* request read the clock, and a hit dropped was for one that was then unknown  *)
(* less than Ttl before.  Until the host has been up for Ttl nothing is heard.  *)
SiteCacheIsFresh ==
    \A t \in Threads :
        /\ In(t, "rate") => lastOn[thread[t].site] + Ttl > thread[t].now
        /\ In(t, "unheard") /\ thread[t].now >= Ttl =>
              lastOff[thread[t].site] + Ttl > thread[t].now

\* the instants of p, more than two limits apart, are a window apart less the lag
Spaced(p, late) ==
    \A i, j \in DOMAIN p : j = i + 2 * Limit => p[j] + late >= p[i] + Window

(* A fixed window lets at most two limits of one client through in any stretch  *)
(* as long as it, whatever headers the client sends, on a host that knows its   *)
(* proxies; less the longest a thread waited between reading the clock and      *)
(* counting its hit, since the window starts at the instant that was read, and  *)
(* unless the table overflowed and was reset.                                   *)
FloodIsBounded ==
    \A w \in Workers, a \in Addresses :
        Limit # 0 /\ Hardened => Spaced(passed[w][a], lag[w])

-----------------------------------------------------------------------------
(* The inductive invariant behind SiteCacheIsFresh.                             *)

ProcessTyped(p) ==
    /\ p = [f \in {"cache", "at", "lock", "rate"} |-> p[f]]
    /\ p.at \in Nat /\ p.lock \in Threads \cup {FreeLock}

RequestTyped(q) ==
    /\ q = [f \in {"phase", "worker", "now", "site", "source", "address", "fetched"} |-> q[f]]
    /\ q.worker \in Workers /\ q.now \in Nat /\ q.site \in GateSites

GateTyped ==
    /\ clock \in Nat
    /\ sites = [s \in GateSites |-> sites[s]]
    /\ lastOn \in [GateSites -> Nat] /\ lastOff \in [GateSites -> Nat]
    /\ worker = [w \in Workers |-> worker[w]] /\ \A w \in Workers : ProcessTyped(worker[w])
    /\ thread = [t \in Threads |-> thread[t]]
    /\ \A t \in Threads : thread[t] = Waiting \/ RequestTyped(thread[t])

\* the history of the sites is the clock's
SitesInv ==
    \A s \in GateSites :
        /\ IF sites[s] = "active" THEN lastOn[s] = clock ELSE lastOff[s] = clock
        /\ lastOn[s] <= clock /\ lastOff[s] <= clock

\* a list that was true at some instant since x
TrueSince(list, x) ==
    \A s \in GateSites : IF s \in list THEN lastOn[s] >= x ELSE lastOff[s] >= x

Refreshing(t) == thread[t].phase \in {"query", "publish", "stamp"}

\* one thread of a process refreshes its list, one that found it stale, and
\* publishes what it has fetched since it read the clock
ListInv ==
    /\ \A w \in Workers :
          /\ TrueSince(worker[w].cache, worker[w].at)
          /\ \A t \in Threads :
                worker[w].lock = t <=> thread[t] # Waiting /\ thread[t].worker = w /\ Refreshing(t)
    /\ \A t \in Threads : thread[t] # Waiting =>
          /\ thread[t].now <= clock
          /\ Refreshing(t) => Stale(t)
          /\ In(t, "publish") => TrueSince(thread[t].fetched, thread[t].now)
          /\ In(t, "stamp") => TrueSince(Own(t).cache, thread[t].now)
          /\ In(t, "member") => ~Stale(t)
          /\ In(t, "rate") => lastOn[thread[t].site] + Ttl > thread[t].now
          /\ In(t, "unheard") => lastOff[thread[t].site] + Ttl > thread[t].now

-----------------------------------------------------------------------------
(* The inductive invariant behind FloodIsBounded.                               *)

\* hits of p from the limiter's point of view: all but the last b are older than
\* c by a window, less the lag of their process
OlderThan(p, b, c, late) ==
    \A i \in DOMAIN p : i <= b - Limit => p[i] + Window <= c + late

\* e is the window of a client with the hits p: it began at the instant c, when
\* b of them had been let through, and has let through no more than it counted
WindowOf(e, p, b, c, late) ==
    /\ late < Window => c <= e[2] + late
    /\ Len(p) <= b + e[1] /\ Len(p) <= b + Limit
    /\ \A i \in DOMAIN p : i <= b => p[i] <= c
    /\ OlderThan(p, b, c, late)

\* a client without a window, at the instant "at", could be given a full one
ClientInv(rate, a, p, late, at) ==
    /\ \A i \in DOMAIN p : p[i] <= at
    /\ IF a \in DOMAIN rate
       THEN \E b \in 0..Len(p), c \in 0..at : WindowOf(rate[a], p, b, c, late)
       ELSE OlderThan(p, Len(p), at, late)

RateTyped ==
    /\ lag \in [Workers -> 0..Window]
    /\ passed \in [Workers -> [Addresses -> Seq(Nat)]]
    /\ \A w \in Workers :
          /\ worker[w].rate = [b \in DOMAIN worker[w].rate |-> worker[w].rate[b]]
          /\ \A b \in DOMAIN worker[w].rate : worker[w].rate[b] \in Nat \X Nat

\* behind counted proxies, a request is taken for its client's
WellNamed ==
    \A t \in Threads : thread[t] # Waiting =>
        /\ thread[t].source \in Addresses
        /\ Hardened => thread[t].address = thread[t].source

FloodInv ==
    /\ setup \in Setups /\ RateTyped /\ WellNamed
    /\ Limit # 0 /\ Hardened => \A w \in Workers, a \in Addresses :
           ClientInv(worker[w].rate, a, passed[w][a], lag[w], clock)
    /\ FloodIsBounded
=============================================================================
