----------------------------- MODULE Dashboards -----------------------------
(* Saved dashboards (apps/dashboards, seed_dashboards, dashboard_builder.js):  *)
(* the rows and the requests that write them, the rendering of a widget under  *)
(* the filters of its dashboard and of its viewer, and the builder, whose live *)
(* previews are answered in any order.                                         *)
EXTENDS SiteReports, WebAccess, Sequences

CONSTANTS
    DashIds,         \* primary keys a dashboard may get
    Titles,          \* names; a description is written like a name
    Shelves,         \* bound: the rows stored already
    Layouts,         \* bound: configurations sent: [range, filters, widgets]
    SafeIds,         \* widget ids that are url-safe
    PresetSpan,      \* preset -> its range now
    FallbackPreset,
    Slices,          \* bound: query strings of a viewer: [custom, preset, offset, filters, bots]
    Editors,         \* updates in progress at a time
    MaxEdits,        \* bound: rows written
    WidgetForms,     \* bound: what the drawer is filled in with
    BoardFilters,    \* bound: filters of the dashboard in the builder
    MaxPreviews      \* bound: previews of one widget

VARIABLES
    dashboards,      \* report rows of type mantecato-dashboard
    edits,           \* the update or seeding of each slot
    kept,            \* history: the name and configuration last sent for a row
    edited,          \* rows written, for the bound
    builder          \* the builder of one browser tab

dashVars == <<dashboards, edits, kept, edited, builder>>
NoDashboard == [owner |-> Null]
NoEdit == [phase |-> "none"]
Malformed == [start |-> Null]

-----------------------------------------------------------------------------
(* widgets.py: what may be saved.                                              *)

WidgetTypes == {"kpi", "timeseries", "breakdown", "heatmap", "funnel", "namespace", "ratio", "compare"}
KpiMetrics == {"pageviews", "visitors", "visits", "bounce_rate", "avg_duration", "pages_per_visit"}
BreakdownSources == {"pages", "sections", "events", "groups", "browser", "os", "device", "country", "sources", "entry"}
Comparisons == {"previous_period", "previous_year"}
MaxSectionDepth == 6

ValidRange(preset) == preset \in {Null} \cup DOMAIN PresetSpan
ValidDepth(w) == w.depth = Null \/ w.depth \in 1..MaxSectionDepth
ValidFilters(fs) == \A f \in fs : f.column \in Columns /\ OperatorIsValid(f.column, f.op)
IsList(steps) == Len(steps) \in Nat /\ DOMAIN steps = 1..Len(steps)
ValidWidget(w) ==
    /\ w.id \in SafeIds /\ w.type \in WidgetTypes
    /\ ValidRange(w.range) /\ ValidFilters(w.filters)
    /\ w.type = "kpi" => w.arg \in KpiMetrics
    /\ w.type = "breakdown" => w.arg \in BreakdownSources
    /\ w.type \in {"breakdown", "namespace"} => ValidDepth(w)
    /\ w.type = "funnel" =>
          IsList(w.steps) /\ Len(w.steps) > 0 /\ \A i \in DOMAIN w.steps : w.steps[i] # Null
    /\ w.type = "ratio" =>
          IsList(w.steps) /\ Len(w.steps) = 2 /\ \A i \in DOMAIN w.steps : w.steps[i] # Null
    /\ w.type = "compare" => w.arg \in {Null} \cup Comparisons
ValidConfig(c) ==
    /\ ValidRange(c.range) /\ ValidFilters(c.filters)
    /\ \A w \in c.widgets : ValidWidget(w)
    /\ \A v, w \in c.widgets : v.id = w.id => v = w
DefaultConfig == [range |-> FallbackPreset, filters |-> {}, widgets |-> {}]
FormAccepts(name, config) == name # Null /\ (config # Null => ValidConfig(config))

-----------------------------------------------------------------------------
(* widgets.py and views.py: what a widget shows.                               *)

\* Mutant: a viewer's filters are simply added to those saved.
ResolveFiltersAll(c, w, runtime) == c.filters \cup w.filters \cup runtime

\* a viewer's positive filter would be an alternative to the saved one of its column
ResolveFilters(c, w, runtime) ==
    LET saved == ParseFilters(c.filters \cup w.filters)
        scoped == {f.column : f \in {g \in saved : g.op \in Positive}}
    IN  saved \cup {f \in runtime : ~(f.op \in Positive /\ f.column \in scoped)}
ResolveRange(w, span) == IF w.range \in DOMAIN PresetSpan THEN PresetSpan[w.range] ELSE span

\* _resolve_runtime: the viewer's range, else the dashboard's, else the fallback
RuntimePreset(slice, c) ==
    CASE slice.preset \in DOMAIN PresetSpan -> slice.preset
      [] slice.preset \notin DOMAIN PresetSpan /\ c.range \in DOMAIN PresetSpan -> c.range
      [] slice.preset \notin DOMAIN PresetSpan /\ c.range \notin DOMAIN PresetSpan -> FallbackPreset
RuntimeSpan(slice, c) ==
    LET chosen == PresetSpan[RuntimePreset(slice, c)]
        shift == slice.offset * (chosen.end - chosen.start)
    IN  CASE slice.custom = Null -> [start |-> chosen.start - shift, end |-> chosen.end - shift]
          [] slice.custom = Malformed -> PresetSpan[FallbackPreset]
          [] slice.custom \notin {Null, Malformed} -> slice.custom
NoBotsLeftOut == [reasons |-> {}, countries |-> {}]
RuntimeBots(slice, site) ==
    IF site # NoSite /\ BotFilterOn(slice.bots, site) THEN BotPayload(site) ELSE NoBotsLeftOut

\* a renderer answers with a message instead of data
RenderError(w) ==
    \/ w.type \notin WidgetTypes
    \/ w.type = "kpi" /\ w.arg \notin {Null} \cup KpiMetrics
    \/ w.type = "breakdown" /\ w.arg \notin {Null} \cup BreakdownSources
    \/ w.type = "funnel" /\ \A i \in DOMAIN w.steps : w.steps[i] = Null
    \/ w.type = "ratio" /\ (Len(w.steps) < 2 \/ \E i \in 1..2 : w.steps[i] = Null)
WidgetRows(c, w, slice) ==
    LET span == ResolveRange(w, RuntimeSpan(slice, c))
    IN  {r \in table : span.start <= r.at /\ r.at <= span.end}
RenderWidget(site, c, w, slice) ==
    LET F == [filters |-> ResolveFilters(c, w, slice.filters), bots |-> RuntimeBots(slice, site)]
    IN  IF RenderError(w) THEN [error |-> TRUE]
        ELSE [error |-> FALSE, bySql |-> {r \in WidgetRows(c, w, slice) : SqlSelects(r, F)},
              byOrm |-> {r \in WidgetRows(c, w, slice) : OrmSelects(r, F)}]

Saved(d) == dashboards[d].owner # Null
Owned(d, p) == Saved(d) /\ dashboards[d].owner = p.user
\* DashboardWidgetView, and DashboardWidgetPreviewView with what is not saved yet
ViewWidget(p, d) ==
    /\ Owned(d, p)
    /\ \E w \in dashboards[d].config.widgets, slice \in Slices :
          report' = [about |-> "widget", config |-> dashboards[d].config, widget |-> w, slice |-> slice,
                     shows |-> RenderWidget(dashboards[d].site, dashboards[d].config, w, slice)]
    /\ UNCHANGED <<table, dashVars, webVars>>

-----------------------------------------------------------------------------
(* services.py, its callers in both views.py, and seed_dashboards.             *)

NotReports == UNCHANGED <<reportVars, webVars, builder>>
Fresh(d) == dashboards[d] = NoDashboard
Store(d, row) ==
    /\ dashboards' = [dashboards EXCEPT ![d] = row]
    /\ kept' = [kept EXCEPT ![d] = [name |-> row.name, config |-> row.config]]
Begun == edited < MaxEdits /\ edited' = edited + 1

\* the API looks at the site, the web form takes any
CreateDashboard(p, s, viaApi) ==
    /\ Begun
    /\ viaApi => p.write /\ WebsiteAccessible(p, s)
    /\ \E d \in DashIds, name \in Titles, config \in Layouts \cup {Null} :
          /\ Fresh(d) /\ FormAccepts(name, config)
          /\ Store(d, [owner |-> p.user, site |-> s, name |-> name,
                       config |-> IF config = Null THEN DefaultConfig ELSE config])
    /\ NotReports /\ UNCHANGED edits

\* the web form wants a name; the API sends what is to change
PostUpdate(e, p, d, name, config, viaApi) ==
    /\ edits[e] = NoEdit /\ Begun
    /\ IF viaApi THEN p.write /\ (config # Null => ValidConfig(config))
       ELSE Owned(d, p) /\ FormAccepts(name, config)
    /\ edits' = [edits EXCEPT ![e] = [phase |-> "read", by |-> p, row |-> d, name |-> name, config |-> config]]
    /\ NotReports /\ UNCHANGED <<dashboards, kept>>
\* update_existing_dashboard: the row is read without a lock ...
ReadDashboard(e) ==
    /\ edits[e].phase = "read"
    /\ edits' = [edits EXCEPT ![e] =
          IF Owned(edits[e].row, edits[e].by)
          THEN [phase |-> "save", row |-> edits[e].row, seen |-> dashboards[edits[e].row],
                name |-> edits[e].name, config |-> edits[e].config]
          ELSE NoEdit]
    /\ NotReports /\ UNCHANGED <<dashboards, kept, edited>>

Given(x, y) == IF x = Null THEN y ELSE x
\* Mutant: save() without update_fields.
AllColumns(e) ==
    [edits[e].seen EXCEPT !.name = Given(edits[e].name, @), !.config = Given(edits[e].config, @)]

\* ... and save(update_fields) writes only the columns that were sent
DirtyColumns(e) ==
    [dashboards[edits[e].row] EXCEPT !.name = Given(edits[e].name, @), !.config = Given(edits[e].config, @)]
SaveDashboard(e) ==
    /\ edits[e].phase = "save"
    /\ LET d == edits[e].row
       IN  IF Saved(d)
           THEN /\ dashboards' = [dashboards EXCEPT ![d] = DirtyColumns(e)]
                /\ kept' = [kept EXCEPT ![d] = [name |-> Given(edits[e].name, @.name),
                                                config |-> Given(edits[e].config, @.config)]]
           ELSE UNCHANGED <<dashboards, kept>>       \* DatabaseError
    /\ edits' = [edits EXCEPT ![e] = NoEdit]
    /\ NotReports /\ UNCHANGED edited

RemoveDashboard(p, d) ==
    /\ Begun
    /\ Owned(d, p)
    /\ dashboards' = [dashboards EXCEPT ![d] = [owner |-> Null, removed |-> TRUE]]
    /\ NotReports /\ UNCHANGED <<edits, kept>>

\* seed_dashboards: by name, whole rows; a row deleted meanwhile is inserted again
LookForSeed(e, p, s, name, config) ==
    /\ edits[e] = NoEdit /\ Begun
    /\ ValidConfig(config)
    /\ LET found == {d \in DashIds : Owned(d, p) /\ dashboards[d].site = s /\ dashboards[d].name = name}
       IN  \E d \in IF found = {} THEN {x \in DashIds : Fresh(x)} ELSE found :
              edits' = [edits EXCEPT ![e] =
                 [phase |-> "seed", row |-> d,
                  new |-> [owner |-> p.user, site |-> s, name |-> name, config |-> config]]]
    /\ NotReports /\ UNCHANGED <<dashboards, kept>>
SaveSeed(e) ==
    /\ edits[e].phase = "seed"
    /\ Store(edits[e].row, edits[e].new)
    /\ edits' = [edits EXCEPT ![e] = NoEdit]
    /\ NotReports /\ UNCHANGED edited

NextDashboards ==
    \/ \E p \in Principals :
          \/ \E d \in DashIds : ViewWidget(p, d) \/ RemoveDashboard(p, d)
          \/ \E s \in WebSites, viaApi \in BOOLEAN : CreateDashboard(p, s, viaApi)
          \/ \E e \in Editors, d \in DashIds, name \in Titles \cup {Null},
                config \in Layouts \cup {Null}, viaApi \in BOOLEAN : PostUpdate(e, p, d, name, config, viaApi)
          \/ \E e \in Editors, s \in WebSites, name \in Titles, config \in Layouts :
                LookForSeed(e, p, s, name, config)
    \/ \E e \in Editors : ReadDashboard(e) \/ SaveDashboard(e) \/ SaveSeed(e)

-----------------------------------------------------------------------------
(* dashboard_builder.js.  A widget on screen stands in a shell; each preview   *)
(* remembers the shell and the number it was asked under.                      *)

Loading == [form |-> "loading"]
Failed == [form |-> "failed"]
NoBuilder == [open |-> FALSE, left |-> FALSE]
LeftBuilder == [open |-> FALSE, left |-> TRUE]      \* bound: one visit
BuilderOnly == UNCHANGED <<reportVars, webVars>>
RowsOnly == UNCHANGED <<dashboards, edits, kept, edited>>
Shows(b, i) == [form |-> b.widgets[i], filters |-> b.filters, range |-> b.range]

\* preview() of the widgets I: a number each, and a request in flight
Previewed(b, I) ==
    LET numbered == [b EXCEPT !.seq = [i \in SafeIds |-> IF i \in I THEN @[i] + 1 ELSE @[i]]]
    IN  [numbered EXCEPT !.fetches = @ \cup
            {[id |-> i, seq |-> numbered.seq[i], shell |-> b.shell[i], shows |-> Shows(b, i)] : i \in I}]
\* widgetShell() for the widgets I
Reshelled(b, I) ==
    [b EXCEPT !.shell = [i \in SafeIds |-> IF i \in I THEN @[i] + 1 ELSE @[i]],
              !.screen = [i \in DOMAIN b.widgets |-> IF i \in I THEN Loading ELSE @[i]]]
MayPreview(b, I) == \A i \in I : b.seq[i] < MaxPreviews

FormOf(w) == [type |-> w.type, arg |-> w.arg, depth |-> w.depth, steps |-> w.steps,
              range |-> w.range, filters |-> w.filters]
WidgetOf(i, f) == [id |-> i, type |-> f.type, arg |-> f.arg, depth |-> f.depth, steps |-> f.steps,
                   range |-> f.range, filters |-> f.filters]
CurrentConfig(b) == [range |-> b.range, filters |-> b.filters,
                     widgets |-> {WidgetOf(i, b.widgets[i]) : i \in DOMAIN b.widgets}]
\* the page boots with a configuration, or the JSON panel puts one in its place
Loaded(b, c) ==
    LET I == {w.id : w \in c.widgets}
        W == [i \in I |-> FormOf(CHOOSE w \in c.widgets : w.id = i)]
    IN  Previewed(Reshelled([b EXCEPT !.widgets = W, !.filters = c.filters,
                                      !.range = Given(c.range, FallbackPreset)], I), I)
Booted(c, d, p, name) ==
    Loaded([open |-> TRUE, row |-> d, by |-> p, name |-> name, widgets |-> <<>>, filters |-> {}, range |-> FallbackPreset, screen |-> <<>>,
            drawer |-> "closed", fetches |-> {}, seq |-> [i \in SafeIds |-> 0], shell |-> [i \in SafeIds |-> 0]], c)

OpenBuilder(p, d) ==
    /\ builder = NoBuilder /\ Owned(d, p)
    /\ builder' = Booted(dashboards[d].config, d, p, dashboards[d].name)
    /\ RowsOnly /\ BuilderOnly
\* the name is typed over; the description stays what the page was loaded with
RetitleBuilder(name) ==
    /\ builder.open /\ name # builder.name
    /\ builder' = [builder EXCEPT !.name = name]
    /\ RowsOnly /\ BuilderOnly

\* what the drawer makes of a form: it has fields for kpi and breakdown only
Composed(f) ==
    [f EXCEPT !.steps = <<>>, !.arg = IF f.type \in {"kpi", "breakdown"} THEN @ ELSE Null,
              !.depth = IF f.type = "breakdown" /\ f.arg = "sections" THEN @ ELSE Null]
OpenDrawer(i) ==
    /\ builder.open /\ builder.drawer = "closed"
    /\ i \in DOMAIN builder.widgets \cup {"new"}
    /\ builder' = [builder EXCEPT !.drawer = i]
    /\ RowsOnly /\ BuilderOnly
CloseDrawer ==
    /\ builder.open /\ builder.drawer # "closed"
    /\ builder' = [builder EXCEPT !.drawer = "closed"]
    /\ RowsOnly /\ BuilderOnly
Put(widgets, i, f) == [j \in DOMAIN widgets \cup {i} |-> IF j = i THEN f ELSE widgets[j]]
ApplyNew(f) ==
    \E i \in SafeIds :
        /\ builder.seq[i] = 0                        \* uid()
        /\ builder' = Previewed(Reshelled([builder EXCEPT !.drawer = "closed",
                                              !.widgets = Put(@, i, Composed(f))], {i}), {i})
ApplyExisting(i, f) ==
    IF i \notin DOMAIN builder.widgets               \* removed while the drawer was open
    THEN builder' = [builder EXCEPT !.drawer = "closed"]
    ELSE /\ MayPreview(builder, {i})
         /\ builder' = Previewed(Reshelled([builder EXCEPT !.drawer = "closed", !.widgets[i] = Composed(f)], {i}), {i})
ApplyDrawer(f) ==
    /\ builder.open
    /\ \/ builder.drawer = "new" /\ ApplyNew(f)
       \/ builder.drawer \in SafeIds /\ ApplyExisting(builder.drawer, f)
    /\ RowsOnly /\ BuilderOnly
DeleteWidget(i) ==
    /\ builder.open /\ i \in DOMAIN builder.widgets
    /\ LET rest == DOMAIN builder.widgets \ {i}
       IN  builder' = [builder EXCEPT !.widgets = [j \in rest |-> @[j]], !.screen = [j \in rest |-> @[j]]]
    /\ RowsOnly /\ BuilderOnly
\* a filter is added or taken away, or another range chosen: every widget again
ChangeBoard(fs, range) ==
    /\ builder.open /\ (fs = builder.filters) # (range = builder.range)
    /\ MayPreview(builder, DOMAIN builder.widgets)
    /\ builder' = Previewed([builder EXCEPT !.filters = fs, !.range = range], DOMAIN builder.widgets)
    /\ RowsOnly /\ BuilderOnly
ApplyJson(c) ==
    /\ builder.open /\ MayPreview(builder, {w.id : w \in c.widgets} \cap SafeIds)
    /\ {w.id : w \in c.widgets} \subseteq SafeIds
    /\ builder' = Loaded(builder, c)
    /\ RowsOnly /\ BuilderOnly

\* Mutant: whatever is answered is shown.
NeverOutdated(f) == FALSE

Outdated(f) == builder.seq[f.id] # f.seq
\* a preview is answered, or fails; a shell that is no longer on screen may take it
AnswerPreview(f, result) ==
    /\ builder' = [builder EXCEPT !.fetches = @ \ {f},
                      !.screen = IF ~Outdated(f) /\ f.id \in DOMAIN @ /\ builder.shell[f.id] = f.shell
                                 THEN [@ EXCEPT ![f.id] = result] ELSE @]
    /\ RowsOnly /\ BuilderOnly
\* the form is sent, with the name and the description of this page, and the page
\* left; what is refused comes back into the builder
SaveBuilder(e) ==
    /\ builder.open
    /\ LET c == CurrentConfig(builder)
           d == builder.row
       IN  IF ~Owned(d, builder.by) THEN builder' = LeftBuilder /\ RowsOnly
           ELSE IF ValidConfig(c)
           THEN /\ edits[e] = NoEdit /\ Begun
                /\ edits' = [edits EXCEPT ![e] =
                      [phase |-> "read", by |-> builder.by, row |-> d, name |-> builder.name, config |-> c]]
                /\ builder' = LeftBuilder
                /\ UNCHANGED <<dashboards, kept>>
           ELSE builder' = Booted(c, d, builder.by, builder.name) /\ RowsOnly
    /\ BuilderOnly

NextForm ==
    \/ \E p \in Principals, d \in DashIds : OpenBuilder(p, d)
    \/ \E name \in Titles : RetitleBuilder(name)
    \/ \E e \in Editors : SaveBuilder(e)
NextBuilder ==
    \/ NextForm
    \/ \E i \in SafeIds \cup {"new"} : OpenDrawer(i)
    \/ CloseDrawer
    \/ \E f \in WidgetForms : ApplyDrawer(f)
    \/ \E i \in SafeIds : DeleteWidget(i)
    \/ \E fs \in BoardFilters, range \in DOMAIN PresetSpan : ChangeBoard(fs, range)
    \/ \E c \in Layouts : ApplyJson(c)
    \/ builder.open /\ \E f \in builder.fetches : AnswerPreview(f, f.shows) \/ AnswerPreview(f, Failed)
    \/ \E e \in Editors : (ReadDashboard(e) \/ SaveDashboard(e))

InitDashboards ==
    /\ edits = [e \in Editors |-> NoEdit]
    /\ dashboards \in Shelves
    /\ kept = [d \in DashIds |-> IF Fresh(d) THEN [name |-> Null, config |-> Null]
                                ELSE [name |-> dashboards[d].name, config |-> dashboards[d].config]]
    /\ edited = 0
    /\ builder = NoBuilder

-----------------------------------------------------------------------------
(* A dashboard is a scope, such as one section of a site: whatever a viewer    *)
(* filters by, a widget never shows a row outside the filters saved with it,   *)
(* in the queries that use SQL and in those that use the ORM alike.            *)
ScopeOnlyNarrows ==
    report.about = "widget" /\ ~report.shows.error =>
        LET scope == [filters |-> report.config.filters \cup report.widget.filters, bots |-> NoBotsLeftOut]
        IN  /\ \A r \in report.shows.bySql : SqlSelects(r, scope)
            /\ \A r \in report.shows.byOrm : OrmSelects(r, scope)

(* An update reads the whole row and saves later.  Whatever renames, layouts,   *)
(* seedings and builder saves come between, each column holds what the last     *)
(* save that sent this column said: a change of the layout alone never takes    *)
(* back a rename.  (The builder sends both, with the name its page was loaded   *)
(* with unless it is typed over: its save does take back a rename made since.)  *)
(* And what is stored can be rendered, widget for widget, however it came there.*)
LastSentIsStored ==
    \A d \in DashIds : Saved(d) =>
        /\ dashboards[d].name = kept[d].name /\ dashboards[d].config = kept[d].config
        /\ \A w \in dashboards[d].config.widgets : ~RenderError(w)

(* Previews overtake each other.  Once nothing newer is on its way for a       *)
(* widget, the screen shows its present form under the present filters, or     *)
(* that the preview failed, and never an answer to an older question.          *)
PreviewIsLatest ==
    builder.open => \A i \in DOMAIN builder.widgets :
        (\A f \in builder.fetches : f.id = i => Outdated(f)) => builder.screen[i] \in {Shows(builder, i), Failed}

-----------------------------------------------------------------------------
(* Dashboards by themselves: sites and preferences change beneath them.        *)

DashInit == InitReports /\ InitWeb /\ InitDashboards
DashNext ==
    \/ NextDashboards \/ NextBuilder
    \/ NextWeb /\ UNCHANGED <<reportVars, dashVars>>
DashSpec == DashInit /\ [][DashNext]_<<reportVars, webVars, dashVars>>

\* a configuration whose widgets can all be rendered, and a row that holds one
Renderable(c) == \A w \in c.widgets : w.id \in SafeIds /\ ~RenderError(w)
Row(row) ==
    /\ row = [f \in {"owner", "site", "name", "config"} |-> row[f]]
    /\ Renderable(row.config)
\* what is stored already was validated when it was stored
ASSUME ShelvesAssumption ==
    \A S \in Shelves :
        S = [d \in DashIds |-> S[d]] /\ \A d \in DashIds : S[d] = NoDashboard \/ Row(S[d])
\* what an update will write, or the row that a seeding will
Writes(q) ==
    \/ q = NoEdit
    \/ q.phase = "read" /\ q.row \in DashIds /\ (q.config = Null \/ Renderable(q.config))
    \/ q.phase = "save" /\ q.row \in DashIds /\ (q.config = Null \/ Renderable(q.config))
    \/ q.phase = "seed" /\ q.row \in DashIds /\ Row(q.new)
RowsInv ==
    /\ dashboards = [d \in DashIds |-> dashboards[d]] /\ kept = [d \in DashIds |-> kept[d]]
    /\ edits = [e \in Editors |-> edits[e]]
    /\ \A d \in DashIds : Saved(d) =>
          /\ Row(dashboards[d])
          /\ kept[d] = [name |-> dashboards[d].name, config |-> dashboards[d].config]
    /\ \A e \in Editors : Writes(edits[e])

\* a widget of the builder: what is asked of it now was asked as it now stands,
\* and when nothing is, the screen shows that, or the failure of it
Asked(b, i) == {f \in b.fetches : f.id = i /\ f.seq = b.seq[i]}
Settled(b, i) ==
    /\ \A f \in Asked(b, i) : f.shell = b.shell[i] /\ f.shows = Shows(b, i)
    /\ Asked(b, i) = {} => b.screen[i] \in {Shows(b, i), Failed}
BuilderTyped(b) ==
    /\ b = [f \in {"open", "row", "by", "name", "widgets", "filters", "range", "screen", "drawer",
                    "fetches", "seq", "shell"} |-> b[f]]
    /\ b.open = TRUE /\ b.row \in DashIds
    /\ DOMAIN b.widgets \subseteq SafeIds /\ b.screen = [i \in DOMAIN b.widgets |-> b.screen[i]]
    /\ b.seq \in [SafeIds -> Nat] /\ b.shell \in [SafeIds -> Nat]
    /\ \A f \in b.fetches : f.id \in SafeIds /\ f.seq \in Nat /\ f.seq <= b.seq[f.id]
BuilderInv ==
    builder \in {NoBuilder, LeftBuilder} \/
        (BuilderTyped(builder) /\ \A i \in DOMAIN builder.widgets : Settled(builder, i))
=============================================================================
