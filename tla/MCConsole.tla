----------------------------- MODULE MCConsole -----------------------------
(* What is behind a login, checked in one run: accounts, what a page may show,  *)
(* date ranges, the reports, API v1, the dashboards and the grants to AI        *)
(* clients.  A behaviour moves one part and leaves what that part does not      *)
(* write where it began; dashboards are viewed, edited and built in behaviours  *)
(* of their own, and so are API keys: no account property depends on them.      *)
(* Tools only read the grants: they are called beside one connection and the    *)
(* first exchange of its code, everything else about grants happens without.    *)
EXTENDS Accounts, DateRanges, ApiV1, Dashboards, AIGrants, TLC

VARIABLE part      \* the part that moves

-----------------------------------------------------------------------------
(* Dates: the calendar's corners, and the hours around both changes of clocks, *)
(* at night in Rome, at midnight on the first of a month in Beirut, and both   *)
(* over midnight in Havana, where one midnight is skipped and one comes twice. *)

Rome == [base |-> 1, from |-> 24 * (4 * 365 + 1 + 83) + 1, to |-> 24 * (4 * 365 + 1 + 300) + 1]
Date(month, day) == Hour(MonthStart[month] + day)
Beirut == [base |-> 2, from |-> Date(58, 0) - 2, to |-> Date(65, 0) - 3]
Havana == [base |-> -5, from |-> Date(50, 12) + 5, to |-> Date(57, 29) + 5]
TheZones == {Utc, Rome, Beirut, Havana}
TheNows == {Date(37, 28) + 7, Date(48, 0) + 5, Date(50, 28) + 10, Date(53, 14) + 23, Date(57, 29) + 2,
            Date(57, 29) + 7, Date(58, 0) + 1}
Written(kind, times) == {[kind |-> kind, at |-> t] : t \in times}
TheTimes ==
    Written("local", {Rome.from + 1, Rome.from + 2, Rome.from + 3, Rome.to, Rome.to + 1, Rome.to + 2, Date(57, 29)})
      \cup Written("date", {Date(50, 12), Date(57, 29), Date(58, 0)}) \cup Written("offset", {Date(57, 29) + 2})

-----------------------------------------------------------------------------
(* Hits: days of eight ticks, two to a month, the first month beyond retention. *)

Hit(id, at, path, country, domain, key) ==
    [id |-> id, at |-> at, kind |-> 1, path |-> path, country |-> country, domain |-> domain, browser |-> "firefox",
     groups |-> {}, device |-> Null, bot |-> FALSE, reason |-> Null, key |-> key, name |-> Null]
TheHits ==
    {Hit(1, 10, "/a", "IT", Null, Null),
     Hit(2, 17, "/a", "IT", "google", "k1"),
     [Hit(3, 20, "/a/1", Null, Null, "k1") EXCEPT !.groups = {"tag:x"}],
     [Hit(4, 21, "/a/2", "IT", "blog", "k2") EXCEPT !.bot = TRUE, !.reason = "known_bot"],
     [Hit(5, 25, "/a", Null, "google", "k1") EXCEPT !.device = "phone", !.groups = {"tag:x", "new"}],
     [Hit(6, 26, "/a/1", "FR", Null, "k2") EXCEPT !.device = "laptop"],
     [Hit(7, 26, "/a", "IT", Null, "k1") EXCEPT !.kind = 2, !.name = "signup"]}
TheLateHits == {h \in TheHits : h.id \in {3, 5}}
Span(a, b) == [start |-> a, end |-> b]
TheSpans == {Span(8, 15), Span(8, 31), Span(16, 23), Span(16, 31), Span(24, 31)}
F(c, o, v) == [column |-> c, op |-> o, values |-> v]
Rules(countries) == [reasons |-> {"known_bot"}, countries |-> countries]
With(fs) == [filters |-> fs, bots |-> [reasons |-> {}, countries |-> {}]]
TheFilters ==
    {With({}), [filters |-> {}, bots |-> Rules({"FR"})],
     With({F("country", "neq", {"IT"})}), With({F("country", "not_in", {"IT"})}), With({F("country", "in", {})}),
     With({F("path", "starts_with", {"/a/"}), F("path", "eq", {"/a"}), F("path", "not_contains", {"/2"})}),
     With({F("path", "neq", {"/a"}), F("path", "neq", {"/a/1"})}),
     With({F("groups", "not_in", {"new"}), F("groups", "contains", {"t"})})}
ThePaths == {"/a", "/a/1", "/a/2"}
TheNormal == [p \in ThePaths \cup {"/a/:id"} |-> IF p = "/a" THEN "/a" ELSE "/a/:id"]
TheSection == [p \in ThePaths |-> p]
TheChannel == [d \in {"google", "blog"} |-> IF d = "google" THEN "Search" ELSE "Referral"]
TheNamespace == [g \in {"tag:x", "new"} |-> IF g = "new" THEN Null ELSE "tag"]
TheWithin == {<<"/2", "/a/2">>, <<"/a", "/a">>}
TheLeads == {<<"/a/", "/a/1">>, <<"/a/", "/a/2">>, <<"tag", "tag:x">>}
TheBucket == [hour |-> 4, day |-> 8, month |-> 16]
TheStoredDays == 0 :> [visitors |-> 1, visits |-> 1, bounces |-> 1, pageviews |-> 1, duration |-> 0]
                 @@ 8 :> [visitors |-> 1, visits |-> 2, bounces |-> 1, pageviews |-> 3, duration |-> 9]
TheStoredScopes == {[month |-> 0, scope |-> "landing", value |-> "/a", visitors |-> 0, visits |-> 2, bounces |-> 1],
                    [month |-> 0, scope |-> "page", value |-> "/a", visitors |-> 1, visits |-> 0, bounces |-> 0]}

-----------------------------------------------------------------------------
(* Requests to API v1.                                                         *)

Body ==
    [operation |-> "breakdown", dimensions |-> <<"country">>, metrics |-> <<"pageviews">>, dataset |-> Null,
     granularity |-> Null, range |-> Span(16, 32), limit |-> 3, prefix |-> Null, exact |-> Null,
     filters |-> {}, filterGroups |-> {}, previous |-> Null, align |-> "full", metric |-> "pageviews",
     sort |-> "absolute", direction |-> "both", minimum |-> [current |-> 0, previous |-> 0, total |-> 0],
     compared |-> FALSE, thresholds |-> [minimum |-> 1, pages |-> 2, share |-> 60, change |-> 50]]
Visited == <<"visits", "pageviews", "total_duration", "bounces", "daily_unique_visitors">>
TheBodies ==
    {[Body EXCEPT !.limit = 1, !.sort = "percentage"],
     [Body EXCEPT !.dimensions = <<"path", "device">>, !.metrics = Visited, !.metric = "visits", !.compared = TRUE],
     [Body EXCEPT !.dimensions = <<"section">>, !.range = Span(24, 32), !.align = "elapsed",
                  !.previous = Span(8, 16), !.sort = "contribution", !.compared = TRUE],
     [Body EXCEPT !.dimensions = <<"groups">>, !.prefix = "tag", !.sort = "current"],
     [Body EXCEPT !.dimensions = <<"name">>, !.metrics = <<"events">>, !.metric = "events"],
     [Body EXCEPT !.operation = "timeseries", !.dimensions = <<>>, !.metrics = Visited],
     [Body EXCEPT !.operation = "timeseries", !.granularity = "hour", !.limit = 1],
     [Body EXCEPT !.operation = "totals", !.dimensions = <<>>, !.metrics = Visited, !.range = Span(8, 32)],
     [Body EXCEPT !.filters = {F("country", "neq", {"IT"})}, !.filterGroups = {{F("is_bot", "eq", {"false"})}},
                  !.direction = "gains", !.minimum.total = 1],
     [Body EXCEPT !.align = "elapsed", !.previous = Span(8, 16), !.exact = "new"],
     [Body EXCEPT !.filters = {F("is_bot", "contains", {"t"})}]}
TheCallers == {[admin |-> FALSE, owner |-> TRUE, deleted |-> FALSE],
               [admin |-> TRUE, owner |-> FALSE, deleted |-> TRUE]}

-----------------------------------------------------------------------------
(* Sites and bot preferences.                                                  *)

ThePrincipals == {[user |-> "ann", admin |-> FALSE, write |-> TRUE], [user |-> "bob", admin |-> TRUE, write |-> FALSE]}
TheRank == "w1" :> 1 @@ "w2" :> 2
TheSaveForms == {"enabled" :> TRUE, "bots" :> Rules({"FR"})}
TheBotDefaults == [enabled |-> FALSE, bots |-> Rules({})]
ThePreferences == {{}, {[id |-> 1, site |-> "w1", parameters |-> [enabled |-> TRUE, bots |-> Rules({"FR"})]]}}

-----------------------------------------------------------------------------
(* Dashboards.                                                                 *)

Widget(i, type, arg) ==
    [id |-> i, type |-> type, arg |-> arg, depth |-> Null, steps |-> <<>>, range |-> Null, filters |-> {}]
Visits == [Widget("b1", "kpi", "visits") EXCEPT !.filters = {F("path", "starts_with", {"/a/"})}]
Signups == [Widget("b2", "funnel", Null) EXCEPT !.steps = <<"signup">>, !.range = "early"]
Layout(fs, ws) == [range |-> "all", filters |-> fs, widgets |-> ws]
Outside == {F("country", "neq", {"FR"})}
OnlyA == Layout({F("path", "eq", {"/a"})}, {Signups})
TheLayouts == {Layout(Outside, {Visits, Signups}), OnlyA}
ThePresets == "all" :> Span(8, 31) @@ "early" :> Span(16, 23)
Slice == [custom |-> Null, preset |-> Null, offset |-> 0, filters |-> {}, bots |-> "absent"]
TheSlices ==
    {Slice, [Slice EXCEPT !.bots = "1", !.filters = {F("path", "eq", {"/a"})}],
     [Slice EXCEPT !.preset = "early", !.offset = 1,
                   !.filters = {F("country", "eq", {"IT"}), F("country", "neq", {"IT"})}],
     [Slice EXCEPT !.custom = Span(8, 24), !.bots = "0", !.filters = {F("groups", "in", {"new"})}],
     [Slice EXCEPT !.custom = Malformed, !.filters = {F("path", "contains", {"/2"})}]}
TheWidgetForms == {FormOf(Signups), FormOf(Widget("b1", "breakdown", "pages"))}
TheBoardFilters == {Outside}
Shelf(layout) == [d \in DashIds |-> IF d = "d1" THEN [owner |-> "ann", site |-> "w1", name |-> "one", config |-> layout]
                                    ELSE NoDashboard]
TheShelves == {Shelf(layout) : layout \in TheLayouts}

-----------------------------------------------------------------------------
(* One part at a time.                                                         *)

\* A lifetime of a personal token: none.
PersonalLifetimes == {Never}

Parts == {"accounts", "keys", "dates", "reports", "api", "web", "view", "rows", "builder", "grants", "tools"}

\* who the two administrators are, and their names, makes no difference
TheUsers ==
    LET pair == CHOOSE S \in SUBSET Users : Cardinality(S) = 2
        n == CHOOSE f \in [pair -> Names] : \A a, b \in pair : a # b => f[a] # f[b]
    IN  [u \in Users |-> IF u \in pair THEN NewUser(n[u], "admin", CHOOSE p \in Passwords : TRUE) ELSE NoUser]

\* a part that does not move begins in one of its initial states
Init ==
    /\ part \in Parts
    /\ InitAccounts /\ users = TheUsers
    /\ InitDates /\ (part # "dates" => now = CHOOSE t \in TheNows : TRUE)
    /\ InitReports /\ (part \notin {"reports", "api", "view"} => table = {})
    /\ InitApi
    /\ InitWeb /\ (part # "web" => webSites = [s \in WebSites |-> [owner |-> "ann", deleted |-> FALSE]])
               /\ (part # "view" => botConfigs = {})
    /\ InitGrants
    /\ InitDashboards /\ (part \notin {"view", "rows"} => dashboards = Shelf(OnlyA))

InTool == \E s \in Slots : tx[s].op = "call"
Quiet == <<accountVars, dateVars, apiVars>>
NextPart ==
    \/ /\ part \in {"accounts", "keys"} /\ NextAccounts
       /\ IF part = "accounts" THEN UNCHANGED keys ELSE begun' <= 1
       /\ UNCHANGED <<dateVars, reportVars, apiVars, webVars, dashVars>>
    \/ part = "dates" /\ NextDates /\ UNCHANGED <<accountVars, reportVars, apiVars, webVars, dashVars>>
    \/ part = "reports" /\ NextReports /\ UNCHANGED <<Quiet, webVars, dashVars>>
    \/ part = "api" /\ NextApi /\ UNCHANGED <<accountVars, dateVars, report, webVars, dashVars>>
    \/ part = "web" /\ reply.status = 0 /\ NextWeb /\ UNCHANGED <<Quiet, reportVars, dashVars>>
    \/ part = "view" /\ report = NoReport /\ (\E p \in Principals, d \in DashIds : ViewWidget(p, d)) /\ UNCHANGED Quiet
    \/ part = "rows" /\ (NextDashboards \/ NextForm) /\ UNCHANGED <<report, Quiet>>
    \/ part = "builder" /\ NextBuilder /\ edited' <= 1 /\ UNCHANGED Quiet

consoleVars == <<accountVars, dateVars, reportVars, apiVars, webVars, dashVars>>
Next ==
    /\ UNCHANGED part
    /\ \/ NextPart /\ UNCHANGED grantVars
       \/ part = "grants" /\ NextGrants /\ ~InTool' /\ UNCHANGED consoleVars
       \/ part = "tools" /\ NextGrants /\ made' <= 1 /\ issued' <= 3 /\ UNCHANGED consoleVars

vars == <<part, consoleVars, grantVars>>
Spec == Init /\ [][Next]_vars

\* The requests in progress of every part are named alike, so that one
\* exchange of names serves them all.
Interchangeable == Permutations(Slots)
=============================================================================
