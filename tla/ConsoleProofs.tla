--------------------------- MODULE ConsoleProofs ---------------------------
(* What is behind a login, proved for every value of the constants: the bot    *)
(* preferences of a site (WebAccess), its saved dashboards (Dashboards), and    *)
(* the dates its pages and its API are asked about (DateRanges).               *)
EXTENDS Dashboards, DateRanges, FiniteSetTheorems, WellFoundedInduction, TLAPS

-----------------------------------------------------------------------------
(* Bot preferences.                                                            *)

\* Where a site has one row at most, the row that is read is that one.
LEMMA TheRowIsRead ==
    ASSUME NEW s \in WebSites, OneRowEach(botConfigs), NEW c \in RowsFor(s),
           \A d \in botConfigs : d.id \in Nat
    PROVE  RowsFor(s) = {c} /\ FirstRow(s) = c
<1>1. RowsFor(s) = {c}
    BY DEF RowsFor, OneRowEach
<1>2. c.id <= c.id
    BY DEF RowsFor
<1> QED BY <1>1, <1>2 DEF FirstRow

\* A site has one row at most, and what a page filters by is in it.
LEMMA PreferencesAreOne ==
    PreferencesInv => PreferenceIsTheLastSaved
<1> SUFFICES ASSUME PreferencesInv, NEW s \in WebSites
             PROVE  /\ Cardinality(RowsFor(s)) <= 1
                    /\ latest[s] # Unsaved => GetBotConfig(s) = latest[s].config
    BY DEF PreferenceIsTheLastSaved
<1>0. OneRowEach(botConfigs) /\ \A d \in botConfigs : d.id \in Nat
    BY DEF PreferencesInv
<1>1. CASE RowsFor(s) = {}
    <2>1. Cardinality(RowsFor(s)) = 0
        BY <1>1, FS_EmptySet, Zenon
    <2>2. latest[s] = Unsaved
        BY <1>1 DEF PreferencesInv, RowsFor
    <2> QED BY <2>1, <2>2
<1>2. CASE RowsFor(s) # {}
    <2>1. PICK c \in RowsFor(s) : TRUE
        BY <1>2
    <2>2. RowsFor(s) = {c} /\ FirstRow(s) = c
        BY <1>0, <2>1, TheRowIsRead
    <2>3. Cardinality(RowsFor(s)) = 1
        BY <2>2, FS_Singleton
    <2>4. ASSUME latest[s] # Unsaved
          PROVE  GetBotConfig(s) = latest[s].config
        <3>1. PICK d \in botConfigs : d.site = s /\ d.parameters = latest[s].config
            BY <2>4 DEF PreferencesInv
        <3>2. d = c
            BY <3>1, <2>2 DEF RowsFor
        <3> QED BY <3>1, <3>2, <2>2, <1>2 DEF GetBotConfig
    <2> QED BY <2>3, <2>4
<1> QED BY <1>1, <1>2

\* Saves look for a row, and write it, as the invariant says; so do the rows,
\* which the steps that only read or write sites leave alone.
LEMMA PreferencesBegin ==
    InitWeb => SavesTyped /\ PreferencesInv
<1> SUFFICES ASSUME InitWeb
             PROVE  SavesTyped /\ PreferencesInv
    OBVIOUS
<1>1. OneRowEach(botConfigs) /\ \A c \in botConfigs : c.id \in Nat \ {0}
    BY PreferencesAssumption DEF InitWeb
<1>2. \A r \in Savers : saver[r] = NotSaving
    BY DEF InitWeb
<1>3. SavesTyped
    BY <1>2 DEF InitWeb, SavesTyped
<1>4. LockIsExclusive /\ \A r \in Savers : FoundHolds(r)
    BY <1>2 DEF LockIsExclusive, LockHolders, FoundHolds, Saving, NotSaving
<1>5. ASSUME NEW s \in WebSites, latest[s] # Unsaved
      PROVE  \E c \in botConfigs : c.site = s /\ c.parameters = latest[s].config
    <2>1. latest[s] = IF RowsFor(s) = {} THEN Unsaved ELSE [saved |-> TRUE, config |-> FirstRow(s).parameters]
        BY DEF InitWeb
    <2>2. PICK c \in RowsFor(s) : TRUE
        BY <2>1, <1>5
    <2>3. FirstRow(s) = c
        BY <1>1, <2>2, TheRowIsRead
    <2> QED BY <2>1, <2>2, <2>3 DEF RowsFor
<1> QED BY <1>1, <1>3, <1>4, <1>5 DEF PreferencesInv

\* What the lock, the look and the write of one save leave as it was.
LEMMA PreferencesStay ==
    ASSUME SavesTyped, PreferencesInv, UNCHANGED <<botConfigs, saver, latest>>
    PROVE  SavesTyped' /\ PreferencesInv'
BY DEF SavesTyped, PreferencesInv, LockIsExclusive, LockHolders, FoundHolds, Saving, RowsFor

\* A save that begins, fails, or takes the lock of its site changes no row.
LEMMA SavesMoveOn ==
    ASSUME SavesTyped, PreferencesInv, NEW r \in Savers, NEW q \in Saves \cup {NotSaving},
           saver' = [saver EXCEPT ![r] = q], UNCHANGED <<botConfigs, latest>>,
           q.phase # "write" \/ saver[r].phase = "look",
           q.phase = "write" => q.site \in WebSites /\ q.site = saver[r].site
               /\ q.found = IF RowsFor(q.site) = {} THEN 0 ELSE FirstRow(q.site).id,
           q.phase = "look" => q.site = saver[r].site /\ LockHolders(saver[r].site) = {}
    PROVE  SavesTyped' /\ PreferencesInv'
<1>1. SavesTyped'
    BY DEF SavesTyped
<1>2. \A x \in Savers : saver'[x] = IF x = r THEN q ELSE saver[x]
    BY DEF SavesTyped
<1>3. LockIsExclusive'
    <2> SUFFICES ASSUME NEW s \in WebSites, NEW x \in LockHolders(s)', NEW y \in LockHolders(s)'
                 PROVE  x = y
        BY DEF LockIsExclusive
    <2>0. \A a, b \in LockHolders(s) : a = b
        BY DEF PreferencesInv, LockIsExclusive
    <2>1. x # r => x \in LockHolders(s)
        BY <1>2 DEF LockHolders
    <2>2. y # r => y \in LockHolders(s)
        BY <1>2 DEF LockHolders
    <2>3. CASE r \notin LockHolders(s)'
        BY <2>0, <2>1, <2>2, <2>3
    <2>4. CASE r \in LockHolders(s)'
        <3>1. q.phase \in {"look", "write"} /\ q.site = s
            BY <2>4, <1>2 DEF LockHolders
        <3>2. CASE q.phase = "look"
            BY <3>1, <3>2, <2>1, <2>2
        <3>3. CASE q.phase = "write"
            <4>1. r \in LockHolders(s)
                BY <3>1, <3>3 DEF LockHolders
            <4> QED BY <4>1, <2>0, <2>1, <2>2
        <3> QED BY <3>1, <3>2, <3>3
    <2> QED BY <2>3, <2>4
<1>4. ASSUME NEW x \in Savers
      PROVE  FoundHolds(x)'
    <2>0. \A s : RowsFor(s)' = RowsFor(s)
        BY DEF RowsFor
    <2>1. CASE x # r
        BY <2>0, <2>1, <1>2 DEF PreferencesInv, FoundHolds, Saving
    <2>2. CASE x = r
        <3>0. saver'[x] = q
            BY <2>2, <1>2
        <3>4. ASSUME q.phase = "write", q.found = 0
              PROVE  RowsFor(q.site) = {}
            <4>1. \A d \in RowsFor(q.site) : FirstRow(q.site) = d
                BY <3>4, TheRowIsRead DEF PreferencesInv
            <4> QED BY <3>4, <4>1 DEF PreferencesInv, RowsFor
        <3> SUFFICES ASSUME q.phase = "write", q.found # 0
                     PROVE  \E c \in RowsFor(q.site) : c.id = q.found
            BY <2>0, <3>0, <3>4 DEF FoundHolds, Saving
        <3>1. q.site \in WebSites
            OBVIOUS
        <3>2. PICK c \in RowsFor(q.site) : TRUE
            OBVIOUS
        <3>3. FirstRow(q.site) = c
            BY <3>1, <3>2, TheRowIsRead DEF PreferencesInv
        <3> QED BY <3>2, <3>3
    <2> QED BY <2>1, <2>2
<1> QED BY <1>1, <1>3, <1>4 DEF PreferencesInv

\* The write itself: what was found, or that nothing was, is still so.
LEMMA WritesKeepOneRow ==
    ASSUME SavesTyped, PreferencesInv, NEW r \in Savers, WriteBotConfig(r)
    PROVE  SavesTyped' /\ PreferencesInv'
<1> DEFINE save == saver[r]
           s0 == saver[r].site
           Written(id) == [id |-> id, site |-> s0, parameters |-> saver[r].merged]
<1>0. /\ save \in Saves /\ save.phase = "write" /\ s0 \in WebSites
      /\ saver' = [saver EXCEPT ![r] = NotSaving]
      /\ latest' = [latest EXCEPT ![s0] = [saved |-> TRUE, config |-> save.merged]]
    BY DEF WriteBotConfig, Saving, SavesTyped, Saves, NotSaving
<1>1. SavesTyped'
    BY <1>0 DEF SavesTyped
<1>2. \A x \in Savers : saver'[x] = IF x = r THEN NotSaving ELSE saver[x]
    BY <1>0 DEF SavesTyped
<1>3. r \in LockHolders(s0)
    BY <1>0 DEF LockHolders
<1>4. LockIsExclusive'
    BY <1>2 DEF LockIsExclusive, LockHolders, NotSaving, PreferencesInv
<1>5. PICK id \in Nat \ {0} :
        /\ Written(id) \in botConfigs'
        /\ \A c \in botConfigs' : c = Written(id) \/ (c \in botConfigs /\ c.id # id /\ c.site # s0)
        /\ \A c \in botConfigs : c.site # s0 => c \in botConfigs'
    <2>1. CASE save.found = 0
        <3>1. RowsFor(s0) = {}
            BY <1>0, <2>1 DEF PreferencesInv, FoundHolds, Saving
        <3>2. PICK id \in 1..(MaxSaves + Cardinality(botConfigs)) \ {c.id : c \in botConfigs} :
                botConfigs' = botConfigs \cup {Written(id)}
            BY <2>1 DEF WriteBotConfig
        <3>3. id \in Nat \ {0}
            BY <3>2
        <3> QED BY <3>1, <3>2, <3>3 DEF RowsFor
    <2>2. CASE save.found # 0
        <3>1. PICK d \in botConfigs : d.site = s0 /\ d.id = save.found
            BY <1>0, <2>2 DEF PreferencesInv, FoundHolds, Saving, RowsFor
        <3>2. botConfigs' = {IF c.id = save.found THEN Written(c.id) ELSE c : c \in botConfigs}
            BY <2>2 DEF WriteBotConfig
        <3>3. d.id \in Nat \ {0}
            BY DEF PreferencesInv
        <3>4. \A c \in botConfigs : c.id = d.id \/ c.site = s0 => c = d
            BY <3>1 DEF PreferencesInv, OneRowEach
        <3>5. Written(d.id) \in botConfigs'
            BY <3>1, <3>2
        <3>6. ASSUME NEW c \in botConfigs'
              PROVE  c = Written(d.id) \/ (c \in botConfigs /\ c.id # d.id /\ c.site # s0)
            BY <3>1, <3>2, <3>4
        <3>7. ASSUME NEW c \in botConfigs, c.site # s0
              PROVE  c \in botConfigs'
            BY <3>1, <3>2, <3>4, <3>7
        <3> QED BY <3>3, <3>5, <3>6, <3>7
    <2> QED BY <2>1, <2>2
<1>6. Written(id).id = id /\ Written(id).site = s0 /\ Written(id).parameters = save.merged
    OBVIOUS
<1>7. OneRowEach(botConfigs') /\ \A c \in botConfigs' : c.id \in Nat \ {0}
    BY <1>5, <1>6 DEF PreferencesInv, OneRowEach
<1>8. ASSUME NEW x \in Savers
      PROVE  FoundHolds(x)'
    <2>1. CASE x = r
        BY <2>1, <1>2 DEF FoundHolds, Saving, NotSaving
    <2>2. CASE x # r /\ ~Saving(x, "write")
        BY <2>2, <1>2 DEF FoundHolds, Saving
    <2>3. CASE x # r /\ Saving(x, "write")
        <3>1. saver[x] \in Saves /\ saver'[x] = saver[x] /\ saver[x].phase = "write" /\ saver[x].site \in WebSites
            BY <2>3, <1>2 DEF SavesTyped, Saving, NotSaving, Saves
        <3>2. x \in LockHolders(saver[x].site)
            BY <3>1 DEF LockHolders
        <3>3. saver[x].site # s0
            BY <3>1, <3>2, <1>0, <1>3, <2>3 DEF PreferencesInv, LockIsExclusive
        <3>4. RowsFor(saver[x].site)' = RowsFor(saver[x].site)'
            OBVIOUS
        <3>5. \A c : (c \in botConfigs' /\ c.site = saver[x].site) <=> (c \in botConfigs /\ c.site = saver[x].site)
            BY <3>3, <1>5, <1>6
        <3>6. {c \in botConfigs' : c.site = saver[x].site} = {c \in botConfigs : c.site = saver[x].site}
            BY <3>5
        <3>7. FoundHolds(x)
            BY DEF PreferencesInv
        <3> QED BY <3>1, <3>6, <3>7 DEF FoundHolds, Saving, RowsFor
    <2> QED BY <2>1, <2>2, <2>3
<1>9. ASSUME NEW s \in WebSites, latest'[s] # Unsaved
      PROVE  \E c \in botConfigs' : c.site = s /\ c.parameters = latest'[s].config
    <2>1. CASE s = s0
        <3>1. latest'[s].config = save.merged
            BY <2>1, <1>0 DEF SavesTyped
        <3> QED BY <2>1, <3>1, <1>5, <1>6
    <2>2. CASE s # s0
        <3>1. latest'[s] = latest[s]
            BY <2>2, <1>0 DEF SavesTyped
        <3>2. PICK c \in botConfigs : c.site = s /\ c.parameters = latest[s].config
            BY <3>1, <1>9 DEF PreferencesInv
        <3> QED BY <3>1, <3>2, <2>2, <1>5
    <2> QED BY <2>1, <2>2
<1> QED BY <1>1, <1>4, <1>7, <1>8, <1>9 DEF PreferencesInv

\* Every step of a request, whoever asks.
LEMMA PreferencesPersist ==
    ASSUME SavesTyped, PreferencesInv, [NextWeb]_webVars
    PROVE  SavesTyped' /\ PreferencesInv'
<1>1. CASE UNCHANGED <<botConfigs, saver, latest>>
    BY <1>1, PreferencesStay
<1>2. ASSUME NEW r \in Savers, NEW p \in Principals, NEW s \in WebSites, NEW given \in SaveForms,
             NEW viaApi \in BOOLEAN, PostBotConfig(r, p, s, given, viaApi)
      PROVE  SavesTyped' /\ PreferencesInv'
    <2> DEFINE q == [phase |-> "lock", site |-> s, merged |-> MergeBotConfig(given), found |-> 0]
    <2>1. q \in Saves /\ q.phase = "lock"
        BY DEF Saves
    <2>2. saver' = [saver EXCEPT ![r] = q] /\ UNCHANGED <<botConfigs, latest>>
        BY <1>2 DEF PostBotConfig
    <2> HIDE DEF q
    <2> QED BY <2>1, <2>2, SavesMoveOn
<1>3. ASSUME NEW r \in Savers, TakeBotConfigLock(r)
      PROVE  SavesTyped' /\ PreferencesInv'
    <2> DEFINE q == [saver[r] EXCEPT !.phase = "look"]
    <2>1. saver[r] \in Saves
        BY <1>3 DEF TakeBotConfigLock, Saving, SavesTyped, NotSaving
    <2>2. q \in Saves /\ q.phase = "look" /\ q.site = saver[r].site
        BY <2>1 DEF Saves
    <2>3. saver' = [saver EXCEPT ![r] = q] /\ UNCHANGED <<botConfigs, latest>> /\ LockHolders(saver[r].site) = {}
        BY <1>3 DEF TakeBotConfigLock
    <2> HIDE DEF q
    <2> QED BY <2>2, <2>3, SavesMoveOn
<1>4. ASSUME NEW r \in Savers, LookForBotConfig(r)
      PROVE  SavesTyped' /\ PreferencesInv'
    <2> DEFINE n == IF RowsFor(saver[r].site) = {} THEN 0 ELSE FirstRow(saver[r].site).id
               q == [saver[r] EXCEPT !.phase = "write", !.found = n]
    <2>1. saver[r] \in Saves /\ saver[r].phase = "look"
        <3>1. saver[r].phase = "look"
            BY <1>4 DEF LookForBotConfig, Saving
        <3> QED BY <3>1 DEF SavesTyped, NotSaving
    <2>2. n \in Nat
        <3>1. CASE RowsFor(saver[r].site) = {}
            BY <3>1
        <3>2. CASE RowsFor(saver[r].site) # {}
            <4>1. PICK c \in RowsFor(saver[r].site) : TRUE
                BY <3>2
            <4>2. FirstRow(saver[r].site) = c
                BY <4>1, <2>1, TheRowIsRead DEF PreferencesInv, Saves
            <4> QED BY <4>1, <4>2, <3>2 DEF PreferencesInv, RowsFor
        <3> QED BY <3>1, <3>2
    <2>3. saver' = [saver EXCEPT ![r] = q] /\ UNCHANGED <<botConfigs, latest>>
        BY <1>4 DEF LookForBotConfig
    <2> HIDE DEF n
    <2>4. q \in Saves /\ q.phase = "write" /\ q.site = saver[r].site /\ q.found = n
        BY <2>1, <2>2 DEF Saves
    <2>5. q.found = IF RowsFor(q.site) = {} THEN 0 ELSE FirstRow(q.site).id
        BY <2>4 DEF n
    <2>6. q.site \in WebSites
        BY <2>1, <2>4 DEF Saves
    <2> HIDE DEF q
    <2> QED BY <2>1, <2>3, <2>4, <2>5, <2>6, SavesMoveOn
<1>5. ASSUME NEW r \in Savers, SaveFails(r)
      PROVE  SavesTyped' /\ PreferencesInv'
    <2>1. NotSaving.phase = "none"
        BY DEF NotSaving
    <2> QED BY <1>5, <2>1, SavesMoveOn DEF SaveFails
<1>6. ASSUME NEW r \in Savers, WriteBotConfig(r)
      PROVE  SavesTyped' /\ PreferencesInv'
    BY <1>6, WritesKeepOneRow
<1>7. ASSUME NEW p \in Principals, NEW s \in WebSites \cup {NoSite},
             AskSites(p) \/ CreateSite(p) \/ AskBotConfig(p, s)
             \/ (\E param \in Params : AskAnalyticsPage(p, s, param))
             \/ (\E h \in Headers, ok \in BOOLEAN, param \in Params : AskAnalyticsApi(p, h, s, ok, param))
             \/ DeleteSite(p, s)
      PROVE  UNCHANGED <<botConfigs, saver, latest>>
    BY <1>7 DEF AskSites, CreateSite, AskBotConfig, AskAnalyticsPage, AskAnalyticsApi, DeleteSite, ReadsOnly
<1>8. CASE UNCHANGED webVars
    BY <1>8, <1>1 DEF webVars
<1>9. CASE NextWeb
    <2>1. CASE \E p \in Principals : AskSites(p) \/ CreateSite(p)
        <3>1. PICK p \in Principals : AskSites(p) \/ CreateSite(p)
            BY <2>1
        <3> QED BY <3>1, <1>1 DEF AskSites, CreateSite, ReadsOnly
    <2>2. CASE \E p \in Principals, s \in WebSites \cup {NoSite} :
                 \/ AskBotConfig(p, s)
                 \/ \E param \in Params : AskAnalyticsPage(p, s, param)
                 \/ \E h \in Headers, ok \in BOOLEAN, param \in Params : AskAnalyticsApi(p, h, s, ok, param)
        BY <2>2, <1>7, <1>1
    <2>3. CASE \E p \in Principals, s \in WebSites : DeleteSite(p, s)
        BY <2>3, <1>7, <1>1
    <2>4. CASE \E p \in Principals, r \in Savers, s \in WebSites, given \in SaveForms, viaApi \in BOOLEAN :
                 PostBotConfig(r, p, s, given, viaApi)
        BY <2>4, <1>2
    <2>5. CASE \E r \in Savers :
                 TakeBotConfigLock(r) \/ LookForBotConfig(r) \/ WriteBotConfig(r) \/ SaveFails(r)
        BY <2>5, <1>3, <1>4, <1>5, <1>6
    <2> QED BY <1>9, <2>1, <2>2, <2>3, <2>4, <2>5 DEF NextWeb
<1> QED BY <1>8, <1>9

\* The preferences of every site are one row, written by one save at a time.
THEOREM PreferencesHold == WebSpec => [](SavesTyped /\ PreferencesInv)
<1>1. InitWeb => SavesTyped /\ PreferencesInv
    BY PreferencesBegin
<1>2. SavesTyped /\ PreferencesInv /\ [NextWeb]_webVars => (SavesTyped /\ PreferencesInv)'
    BY PreferencesPersist
<1> QED BY <1>1, <1>2, PTL DEF WebSpec

\* No site ever has a second row of preferences, of which a page would read an
\* arbitrary one: pages filter by what was last saved.
THEOREM PagesFilterByTheLastSaved == WebSpec => []PreferenceIsTheLastSaved
BY PreferencesHold, PreferencesAreOne, PTL

-----------------------------------------------------------------------------
(* Stored dashboards.                                                          *)

\* What validation lets through can be rendered.
LEMMA ValidIsRenderable ==
    ASSUME NEW c, ValidConfig(c)
    PROVE  Renderable(c)
<1> SUFFICES ASSUME NEW w \in c.widgets
             PROVE  w.id \in SafeIds /\ ~RenderError(w)
    BY DEF Renderable
<1>1. ValidWidget(w)
    BY DEF ValidConfig
<1>2. w.id \in SafeIds /\ w.type \in WidgetTypes
    BY <1>1 DEF ValidWidget
<1>3. ~(w.type = "kpi" /\ w.arg \notin {Null} \cup KpiMetrics)
    BY <1>1 DEF ValidWidget
<1>4. ~(w.type = "breakdown" /\ w.arg \notin {Null} \cup BreakdownSources)
    BY <1>1 DEF ValidWidget
<1>5. ASSUME w.type = "funnel"
      PROVE  \E i \in DOMAIN w.steps : w.steps[i] # Null
    <2>1. IsList(w.steps) /\ Len(w.steps) > 0 /\ \A i \in DOMAIN w.steps : w.steps[i] # Null
        BY <1>1, <1>5 DEF ValidWidget
    <2>2. 1 \in DOMAIN w.steps
        BY <2>1 DEF IsList
    <2> QED BY <2>1, <2>2
<1>6. ASSUME w.type = "ratio"
      PROVE  ~(Len(w.steps) < 2 \/ \E i \in 1..2 : w.steps[i] = Null)
    <2>1. IsList(w.steps) /\ Len(w.steps) = 2 /\ \A i \in DOMAIN w.steps : w.steps[i] # Null
        BY <1>1, <1>6 DEF ValidWidget
    <2>2. DOMAIN w.steps = 1..2
        BY <2>1 DEF IsList
    <2> QED BY <2>1, <2>2
<1> QED BY <1>2, <1>3, <1>4, <1>5, <1>6 DEF RenderError

\* The slots and rows change one at a time: first the slot of an editor ...
LEMMA EditsMove ==
    ASSUME RowsInv, NEW e \in Editors, NEW q, Writes(q),
           edits' = [edits EXCEPT ![e] = q], UNCHANGED <<dashboards, kept>>
    PROVE  RowsInv'
<1>1. edits' = [x \in Editors |-> edits'[x]] /\ \A x \in Editors : edits'[x] = IF x = e THEN q ELSE edits[x]
    BY DEF RowsInv
<1>2. \A x \in Editors : Writes(edits'[x])
    BY <1>1 DEF RowsInv
<1>3. \A x \in Editors : Writes(edits[x])'
    BY <1>2 DEF Writes, NoEdit
<1> QED BY <1>1, <1>3 DEF RowsInv, Saved

\* ... then a row, with what the history keeps of it, when a slot may be emptied.
LEMMA RowMoves ==
    ASSUME RowsInv, NEW d \in DashIds, NEW row, NEW keep,
           dashboards' = [dashboards EXCEPT ![d] = row], kept' = [kept EXCEPT ![d] = keep],
           row.owner # Null => Row(row) /\ keep = [name |-> row.name, config |-> row.config],
           edits' = [x \in Editors |-> edits'[x]],
           \A x \in Editors : edits'[x] \in {edits[x], NoEdit}
    PROVE  RowsInv'
<1>1. /\ dashboards' = [x \in DashIds |-> dashboards'[x]]
      /\ \A x \in DashIds : dashboards'[x] = IF x = d THEN row ELSE dashboards[x]
    BY DEF RowsInv
<1>2. kept' = [x \in DashIds |-> kept'[x]] /\ \A x \in DashIds : kept'[x] = IF x = d THEN keep ELSE kept[x]
    BY DEF RowsInv
<1>3. ASSUME NEW x \in DashIds, dashboards'[x].owner # Null
      PROVE  /\ Row(dashboards'[x])
             /\ kept'[x] = [name |-> dashboards'[x].name, config |-> dashboards'[x].config]
    BY <1>1, <1>2, <1>3 DEF RowsInv, Saved
<1>4. \A x \in Editors : Writes(edits'[x])
    BY DEF RowsInv, Writes
<1>5. \A x \in Editors : Writes(edits[x])'
    BY <1>4 DEF Writes, NoEdit
<1>6. \A x \in DashIds : Row(dashboards'[x]) <=> Row(dashboards[x])'
    BY DEF Row, Renderable
<1> QED BY <1>1, <1>2, <1>3, <1>5, <1>6 DEF RowsInv, Saved

\* ... and a step that changes none of the three.
LEMMA RowsStay ==
    ASSUME RowsInv, UNCHANGED <<dashboards, kept, edits>>
    PROVE  RowsInv'
BY DEF RowsInv, Saved, Row, Renderable, Writes, NoEdit

\* What is stored already was validated then, and counts as what was last sent.
LEMMA RowsBegin ==
    DashInit => RowsInv
<1> SUFFICES ASSUME DashInit
             PROVE  RowsInv
    OBVIOUS
<1>1. dashboards = [d \in DashIds |-> dashboards[d]] /\ \A d \in DashIds : dashboards[d] = NoDashboard \/ Row(dashboards[d])
    BY ShelvesAssumption DEF DashInit, InitDashboards
<1>2. kept = [d \in DashIds |-> IF Fresh(d) THEN [name |-> Null, config |-> Null]
                                ELSE [name |-> dashboards[d].name, config |-> dashboards[d].config]]
    BY DEF DashInit, InitDashboards
<1>3. \A d \in DashIds : Saved(d) => ~Fresh(d)
    BY DEF Saved, Fresh, NoDashboard
<1>4. edits = [e \in Editors |-> NoEdit]
    BY DEF DashInit, InitDashboards
<1>5. kept = [d \in DashIds |-> kept[d]] /\ edits = [e \in Editors |-> edits[e]]
    BY <1>2, <1>4
<1>6. \A d \in DashIds : Saved(d) =>
          Row(dashboards[d]) /\ kept[d] = [name |-> dashboards[d].name, config |-> dashboards[d].config]
    BY <1>1, <1>2, <1>3 DEF Fresh
<1> QED BY <1>1, <1>4, <1>5, <1>6 DEF RowsInv, Writes

\* Creating a dashboard, and asking for a change of one.
LEMMA CreatingKeepsRows ==
    ASSUME RowsInv, NEW p, NEW s, NEW viaApi, CreateDashboard(p, s, viaApi)
    PROVE  RowsInv'
<1>1. PICK d \in DashIds, name \in Titles, config \in Layouts \cup {Null} :
          /\ FormAccepts(name, config)
          /\ Store(d, [owner |-> p.user, site |-> s, name |-> name,
                       config |-> IF config = Null THEN DefaultConfig ELSE config])
    BY DEF CreateDashboard
<1> DEFINE given == IF config = Null THEN DefaultConfig ELSE config
           row == [owner |-> p.user, site |-> s, name |-> name, config |-> given]
<1>2. Renderable(DefaultConfig)
    BY DEF Renderable, DefaultConfig
<1>3. Renderable(given)
    BY <1>1, <1>2, ValidIsRenderable DEF FormAccepts
<1>4. Row(row)
    <2> HIDE DEF given
    <2>1. row = [f \in {"owner", "site", "name", "config"} |-> row[f]] /\ row.config = given
        OBVIOUS
    <2> HIDE DEF row
    <2> QED BY <2>1, <1>3 DEF Row
<1>5. dashboards' = [dashboards EXCEPT ![d] = row] /\ kept' = [kept EXCEPT ![d] = [name |-> row.name, config |-> row.config]]
    BY <1>1 DEF Store
<1>6. edits' = edits
    BY DEF CreateDashboard
<1> HIDE DEF row
<1>7. edits' = [x \in Editors |-> edits'[x]] /\ \A x \in Editors : edits'[x] \in {edits[x], NoEdit}
    BY <1>6 DEF RowsInv
<1> QED BY <1>4, <1>5, <1>7, RowMoves

\* PostUpdate: what has been validated waits in the slot.
LEMMA AskingKeepsRows ==
    ASSUME RowsInv, NEW e \in Editors, NEW p, NEW d \in DashIds, NEW name, NEW config, NEW viaApi,
           PostUpdate(e, p, d, name, config, viaApi)
    PROVE  RowsInv'
<1> DEFINE q == [phase |-> "read", by |-> p, row |-> d, name |-> name, config |-> config]
<1>1. config = Null \/ Renderable(config)
    BY ValidIsRenderable DEF PostUpdate, FormAccepts
<1>2. Writes(q)
    BY <1>1 DEF Writes
<1>3. edits' = [edits EXCEPT ![e] = q] /\ UNCHANGED <<dashboards, kept>>
    BY DEF PostUpdate
<1> HIDE DEF q
<1> QED BY <1>2, <1>3, EditsMove

\* Reading the row, and saving what was sent of it over what is there by then.
LEMMA ReadingKeepsRows ==
    ASSUME RowsInv, NEW e \in Editors, ReadDashboard(e)
    PROVE  RowsInv'
<1> DEFINE next == [phase |-> "save", row |-> edits[e].row, seen |-> dashboards[edits[e].row],
                    name |-> edits[e].name, config |-> edits[e].config]
           q == IF Owned(edits[e].row, edits[e].by) THEN next ELSE NoEdit
<1>1. edits[e].row \in DashIds /\ (edits[e].config = Null \/ Renderable(edits[e].config))
    <2>1. Writes(edits[e]) /\ edits[e].phase = "read"
        BY DEF RowsInv, ReadDashboard
    <2> QED BY <2>1 DEF Writes, NoEdit
<1>2. Writes(next)
    BY <1>1 DEF Writes
<1>3. Writes(NoEdit)
    BY DEF Writes
<1>4. edits' = [edits EXCEPT ![e] = q] /\ UNCHANGED <<dashboards, kept>>
    BY DEF ReadDashboard
<1> HIDE DEF next
<1>5. Writes(q)
    BY <1>2, <1>3
<1> HIDE DEF q
<1> QED BY <1>4, <1>5, EditsMove

\* save(update_fields): only the columns sent change, in the row and in what is
\* to be kept of it, so that an edit saved since the read stays.
LEMMA SavingKeepsRows ==
    ASSUME RowsInv, NEW e \in Editors, SaveDashboard(e)
    PROVE  RowsInv'
<1> DEFINE d == edits[e].row
<1>1. d \in DashIds /\ (edits[e].config = Null \/ Renderable(edits[e].config))
    <2>1. Writes(edits[e]) /\ edits[e].phase = "save"
        BY DEF RowsInv, SaveDashboard
    <2> QED BY <2>1 DEF Writes, NoEdit
<1>2. edits' = [edits EXCEPT ![e] = NoEdit]
    BY DEF SaveDashboard
<1>3. CASE ~Saved(d)
    <2>1. UNCHANGED <<dashboards, kept>> /\ Writes(NoEdit)
        BY <1>3 DEF SaveDashboard, Writes
    <2> QED BY <1>2, <2>1, EditsMove
<1>4. CASE Saved(d)
    <2> DEFINE n == Given(edits[e].name, dashboards[d].name)
               c == Given(edits[e].config, dashboards[d].config)
               row == DirtyColumns(e)
    <2>1. Row(dashboards[d]) /\ kept[d] = [name |-> dashboards[d].name, config |-> dashboards[d].config]
        BY <1>1, <1>4 DEF RowsInv
    <2>2. dashboards[d] = [f \in {"owner", "site", "name", "config"} |-> dashboards[d][f]]
        BY <2>1 DEF Row
    <2>3. /\ dashboards' = [dashboards EXCEPT ![d] = row]
          /\ kept' = [kept EXCEPT ![d] = [name |-> Given(edits[e].name, kept[d].name),
                                          config |-> Given(edits[e].config, kept[d].config)]]
        BY <1>1, <1>4 DEF SaveDashboard, RowsInv
    <2>4. row = [f \in {"owner", "site", "name", "config"} |-> row[f]] /\ row.name = n /\ row.config = c
        <3>1. row = [dashboards[d] EXCEPT !.name = n, !.config = c]
            BY DEF DirtyColumns
        <3> HIDE DEF n, c, row
        <3> QED BY <3>1, <2>2
    <2>5. Renderable(c)
        BY <1>1, <2>1 DEF Given, Row
    <2>6. [name |-> Given(edits[e].name, kept[d].name), config |-> Given(edits[e].config, kept[d].config)]
             = [name |-> row.name, config |-> row.config]
        BY <2>1, <2>4
    <2> HIDE DEF row, c, n
    <2>7. Row(row)
        BY <2>4, <2>5 DEF Row
    <2>8. edits' = [x \in Editors |-> edits'[x]] /\ \A x \in Editors : edits'[x] \in {edits[x], NoEdit}
        BY <1>2 DEF RowsInv
    <2>9. kept' = [kept EXCEPT ![d] = [name |-> row.name, config |-> row.config]]
        BY <2>3, <2>6
    <2> HIDE DEF d
    <2> QED BY <1>1, <2>3, <2>7, <2>8, <2>9, RowMoves
<1> QED BY <1>3, <1>4

\* RemoveDashboard: of a row that is gone nothing is asked.
LEMMA RemovingKeepsRows ==
    ASSUME RowsInv, NEW p, NEW d \in DashIds, RemoveDashboard(p, d)
    PROVE  RowsInv'
<1> DEFINE row == [owner |-> Null, removed |-> TRUE]
<1>1. dashboards' = [dashboards EXCEPT ![d] = row] /\ edits' = edits /\ kept' = kept
    BY DEF RemoveDashboard
<1>2. kept' = [kept EXCEPT ![d] = kept[d]]
    BY <1>1 DEF RowsInv
<1>3. row.owner = Null
    OBVIOUS
<1>4. edits' = [x \in Editors |-> edits'[x]] /\ \A x \in Editors : edits'[x] \in {edits[x], NoEdit}
    BY <1>1 DEF RowsInv
<1> HIDE DEF row
<1> QED BY <1>1, <1>2, <1>3, <1>4, RowMoves

\* seed_dashboards, in its two steps.
LEMMA LookingKeepsRows ==
    ASSUME RowsInv, NEW e \in Editors, NEW p, NEW s, NEW name, NEW config, LookForSeed(e, p, s, name, config)
    PROVE  RowsInv'
<1> DEFINE found == {d \in DashIds : Owned(d, p) /\ dashboards[d].site = s /\ dashboards[d].name = name}
           row == [owner |-> p.user, site |-> s, name |-> name, config |-> config]
<1>1. PICK d \in IF found = {} THEN {x \in DashIds : Fresh(x)} ELSE found :
          edits' = [edits EXCEPT ![e] = [phase |-> "seed", row |-> d, new |-> row]]
    BY DEF LookForSeed
<1>2. d \in DashIds
    OBVIOUS
<1>3. Renderable(config)
    BY ValidIsRenderable DEF LookForSeed
<1>4. Row(row)
    <2>1. row = [f \in {"owner", "site", "name", "config"} |-> row[f]] /\ row.config = config
        OBVIOUS
    <2> HIDE DEF row
    <2> QED BY <2>1, <1>3 DEF Row
<1> HIDE DEF row, found
<1> DEFINE q == [phase |-> "seed", row |-> d, new |-> row]
<1>5. Writes(q)
    BY <1>2, <1>4 DEF Writes
<1>6. edits' = [edits EXCEPT ![e] = q] /\ UNCHANGED <<dashboards, kept>>
    BY <1>1 DEF LookForSeed
<1> HIDE DEF q
<1> QED BY <1>5, <1>6, EditsMove

\* SaveSeed: a whole row, as it was validated.
LEMMA SeedingKeepsRows ==
    ASSUME RowsInv, NEW e \in Editors, SaveSeed(e)
    PROVE  RowsInv'
<1>1. edits[e].row \in DashIds /\ Row(edits[e].new)
    <2>1. Writes(edits[e]) /\ edits[e].phase = "seed"
        BY DEF RowsInv, SaveSeed
    <2> QED BY <2>1 DEF Writes, NoEdit
<1>2. Store(edits[e].row, edits[e].new) /\ edits' = [edits EXCEPT ![e] = NoEdit]
    BY DEF SaveSeed
<1>3. edits' = [x \in Editors |-> edits'[x]] /\ \A x \in Editors : edits'[x] \in {edits[x], NoEdit}
    BY <1>2 DEF RowsInv
<1> QED BY <1>1, <1>2, <1>3, RowMoves DEF Store

-----------------------------------------------------------------------------
(* The builder.                                                                *)

\* all but the screen, which is drawn anew
Framed(b) ==
    /\ b = [f \in {"open", "row", "by", "name", "widgets", "filters", "range", "screen", "drawer",
                  "fetches", "seq", "shell"} |-> b[f]]
    /\ b.open = TRUE /\ b.row \in DashIds /\ DOMAIN b.widgets \subseteq SafeIds
    /\ b.seq \in [SafeIds -> Nat] /\ b.shell \in [SafeIds -> Nat]
    /\ \A f \in b.fetches : f.id \in SafeIds /\ f.seq \in Nat /\ f.seq <= b.seq[f.id]
GoodBuilder(b) == BuilderTyped(b) /\ \A i \in DOMAIN b.widgets : Settled(b, i)

\* A preview of the widgets I takes the place of whatever was asked of them.
LEMMA PreviewsSettle ==
    ASSUME NEW b, BuilderTyped(b), NEW I \in SUBSET SafeIds,
           \A i \in DOMAIN b.widgets \ I : Settled(b, i)
    PROVE  GoodBuilder(Previewed(b, I))
<1> DEFINE seq == [i \in SafeIds |-> IF i \in I THEN b.seq[i] + 1 ELSE b.seq[i]]
           New(i) == [id |-> i, seq |-> seq[i], shell |-> b.shell[i], shows |-> Shows(b, i)]
           fetches == b.fetches \cup {New(i) : i \in I}
           numbered == [b EXCEPT !.seq = seq]
           c == Previewed(b, I)
<1>0. b = [f \in {"open", "row", "by", "name", "widgets", "filters", "range", "screen", "drawer",
                  "fetches", "seq", "shell"} |-> b[f]]
    BY DEF BuilderTyped
<1>1. c = [b EXCEPT !.seq = seq, !.fetches = fetches]
    <2>1. numbered.seq = seq
        BY <1>0
    <2>2. numbered.fetches = b.fetches
        BY <1>0
    <2>3. c = [numbered EXCEPT !.fetches = @ \cup {[id |-> i, seq |-> numbered.seq[i], shell |-> b.shell[i],
                                                    shows |-> Shows(b, i)] : i \in I}]
        BY DEF Previewed
    <2>4. c = [numbered EXCEPT !.fetches = fetches]
        BY <2>1, <2>2, <2>3
    <2> HIDE DEF seq, fetches, c
    <2> QED BY <2>4, <1>0
<1> HIDE DEF seq, fetches, c
<1>2. /\ c = [f \in {"open", "row", "by", "name", "widgets", "filters", "range", "screen", "drawer",
                  "fetches", "seq", "shell"} |-> c[f]]
      /\ c.open = b.open /\ c.row = b.row /\ c.widgets = b.widgets /\ c.filters = b.filters
      /\ c.range = b.range /\ c.screen = b.screen /\ c.shell = b.shell
      /\ c.seq = seq /\ c.fetches = fetches
    BY <1>0, <1>1
<1>3. seq \in [SafeIds -> Nat] /\ \A i \in SafeIds : seq[i] = IF i \in I THEN b.seq[i] + 1 ELSE b.seq[i]
    BY DEF BuilderTyped, seq
<1>4. ASSUME NEW f \in fetches
      PROVE  f.id \in SafeIds /\ f.seq \in Nat /\ f.seq <= seq[f.id]
    <2>1. CASE f \in b.fetches
        BY <2>1, <1>3 DEF BuilderTyped
    <2>2. CASE f \in {New(i) : i \in I}
        <3>1. PICK i \in I : f = New(i)
            BY <2>2
        <3>2. f.id = i /\ f.seq = seq[i]
            BY <3>1
        <3> QED BY <3>2, <1>3
    <2> QED BY <2>1, <2>2 DEF fetches
<1>5. BuilderTyped(c)
    BY <1>2, <1>3, <1>4 DEF BuilderTyped
<1>6. \A i : Shows(c, i) = Shows(b, i)
    BY <1>2 DEF Shows
<1>7. ASSUME NEW i \in DOMAIN c.widgets
      PROVE  Settled(c, i)
    <2>0. i \in SafeIds /\ i \in DOMAIN b.widgets
        BY <1>2 DEF BuilderTyped
    <2>1. CASE i \in I
        <3>1. \A f \in Asked(c, i) : f = New(i)
            <4> SUFFICES ASSUME NEW f \in Asked(c, i)
                         PROVE  f = New(i)
                OBVIOUS
            <4>1. f \in fetches /\ f.id = i /\ f.seq = b.seq[i] + 1
                BY <1>2, <1>3, <2>0, <2>1 DEF Asked
            <4>2. f \notin b.fetches
                BY <4>1, <2>0 DEF BuilderTyped
            <4>3. PICK j \in I : f = New(j)
                BY <4>1, <4>2 DEF fetches
            <4> QED BY <4>1, <4>3
        <3>2. New(i).shell = b.shell[i] /\ New(i).shows = Shows(b, i) /\ New(i).id = i /\ New(i).seq = seq[i]
            OBVIOUS
        <3>3. New(i) \in Asked(c, i)
            BY <3>2, <2>1, <1>2 DEF Asked, fetches
        <3> QED BY <3>1, <3>2, <3>3, <1>2, <1>6 DEF Settled
    <2>2. CASE i \notin I
        <3>1. \A f : f \in Asked(c, i) <=> f \in Asked(b, i)
            <4>1. \A j \in I : New(j).id = j
                OBVIOUS
            <4>2. \A f : f.id = i => (f \in fetches <=> f \in b.fetches)
                BY <2>2, <4>1 DEF fetches
            <4> QED BY <4>2, <1>2, <1>3, <2>0, <2>2 DEF Asked
        <3>2. Settled(b, i)
            BY <2>0, <2>2
        <3> QED BY <3>1, <3>2, <1>2, <1>6 DEF Settled
    <2> QED BY <2>1, <2>2
<1> QED BY <1>5, <1>7 DEF GoodBuilder, c

\* Shells drawn anew for the widgets I, the other widgets being settled.
LEMMA ShellsReplace ==
    ASSUME NEW b, Framed(b), NEW I \in SUBSET SafeIds,
           \A i \in DOMAIN b.widgets \ I : Settled(b, i)
    PROVE  BuilderTyped(Reshelled(b, I)) /\ \A i \in DOMAIN Reshelled(b, I).widgets \ I : Settled(Reshelled(b, I), i)
<1> DEFINE shell == [i \in SafeIds |-> IF i \in I THEN b.shell[i] + 1 ELSE b.shell[i]]
           screen == [i \in DOMAIN b.widgets |-> IF i \in I THEN Loading ELSE b.screen[i]]
           c == Reshelled(b, I)
<1>0. b = [f \in {"open", "row", "by", "name", "widgets", "filters", "range", "screen", "drawer",
                  "fetches", "seq", "shell"} |-> b[f]]
    BY DEF Framed
<1>1. c = [b EXCEPT !.shell = shell, !.screen = screen]
    BY DEF Reshelled
<1>3. shell \in [SafeIds -> Nat] /\ \A i \in SafeIds \ I : shell[i] = b.shell[i]
    BY DEF Framed
<1>4. screen = [i \in DOMAIN b.widgets |-> screen[i]] /\ \A i \in DOMAIN b.widgets \ I : screen[i] = b.screen[i]
    OBVIOUS
<1> HIDE DEF shell, screen, c
<1>2. /\ c = [f \in {"open", "row", "by", "name", "widgets", "filters", "range", "screen", "drawer",
                  "fetches", "seq", "shell"} |-> c[f]]
      /\ c.open = b.open /\ c.row = b.row /\ c.widgets = b.widgets /\ c.filters = b.filters
      /\ c.range = b.range /\ c.seq = b.seq /\ c.fetches = b.fetches
      /\ c.shell = shell /\ c.screen = screen
    BY <1>0, <1>1
<1>5. BuilderTyped(c)
    BY <1>2, <1>3, <1>4 DEF BuilderTyped, Framed
<1>6. ASSUME NEW i \in DOMAIN c.widgets \ I
      PROVE  Settled(c, i)
    <2>1. Settled(b, i) /\ i \in SafeIds /\ i \in DOMAIN b.widgets
        BY <1>2 DEF Framed
    <2>2. Asked(c, i) = Asked(b, i) /\ Shows(c, i) = Shows(b, i) /\ c.shell[i] = b.shell[i] /\ c.screen[i] = b.screen[i]
        BY <2>1, <1>2, <1>3, <1>4 DEF Asked, Shows
    <2> QED BY <2>1, <2>2 DEF Settled
<1> QED BY <1>5, <1>6 DEF c

\* Shells drawn anew for I, and previews of I: what applying and loading end in.
LEMMA RedrawingSettles ==
    ASSUME NEW b, Framed(b), NEW I \in SUBSET SafeIds,
           \A i \in DOMAIN b.widgets \ I : Settled(b, i)
    PROVE  GoodBuilder(Previewed(Reshelled(b, I), I))
BY ShellsReplace, PreviewsSettle

\* A configuration put in place, whose ids are url-safe.
LEMMA LoadingSettles ==
    ASSUME NEW b, Framed(b), NEW c, \A w \in c.widgets : w.id \in SafeIds
    PROVE  GoodBuilder(Loaded(b, c))
<1> DEFINE I == {w.id : w \in c.widgets}
           W == [i \in I |-> FormOf(CHOOSE w \in c.widgets : w.id = i)]
           R == Given(c.range, FallbackPreset)
           d == [b EXCEPT !.widgets = W, !.filters = c.filters, !.range = R]
<1>1. Loaded(b, c) = Previewed(Reshelled(d, I), I)
    BY DEF Loaded
<1>2. I \in SUBSET SafeIds /\ DOMAIN W = I
    OBVIOUS
<1>0. b = [f \in {"open", "row", "by", "name", "widgets", "filters", "range", "screen", "drawer",
                  "fetches", "seq", "shell"} |-> b[f]]
    BY DEF Framed
<1> HIDE DEF I, W, R
<1>3. /\ d = [f \in {"open", "row", "by", "name", "widgets", "filters", "range", "screen", "drawer",
                  "fetches", "seq", "shell"} |-> d[f]]
      /\ d.open = b.open /\ d.row = b.row /\ d.widgets = W
      /\ d.seq = b.seq /\ d.fetches = b.fetches /\ d.shell = b.shell
    BY <1>0
<1> HIDE DEF d
<1>4. Framed(d)
    BY <1>2, <1>3 DEF Framed
<1>5. DOMAIN d.widgets \ I = {}
    BY <1>2, <1>3
<1> QED BY <1>1, <1>2, <1>4, <1>5, RedrawingSettles

\* The page as it boots: everything is asked for the first time.
LEMMA BootingSettles ==
    ASSUME NEW c, \A w \in c.widgets : w.id \in SafeIds, NEW d \in DashIds, NEW p, NEW name
    PROVE  GoodBuilder(Booted(c, d, p, name))
<1> DEFINE b == [open |-> TRUE, row |-> d, by |-> p, name |-> name, widgets |-> <<>>, filters |-> {}, range |-> FallbackPreset,
                 screen |-> <<>>, drawer |-> "closed", fetches |-> {}, seq |-> [i \in SafeIds |-> 0],
                 shell |-> [i \in SafeIds |-> 0]]
<1>1. /\ b = [f \in {"open", "row", "by", "name", "widgets", "filters", "range", "screen", "drawer",
                  "fetches", "seq", "shell"} |-> b[f]]
      /\ b.open = TRUE /\ b.row = d /\ b.widgets = <<>> /\ b.fetches = {}
      /\ b.seq = [i \in SafeIds |-> 0] /\ b.shell = [i \in SafeIds |-> 0]
    OBVIOUS
<1>2. Booted(c, d, p, name) = Loaded(b, c)
    BY DEF Booted
<1>3. DOMAIN <<>> = {}
    OBVIOUS
<1> HIDE DEF b
<1>4. Framed(b)
    BY <1>1, <1>3 DEF Framed
<1> QED BY <1>2, <1>4, LoadingSettles

\* Only the builder's own fields that no preview depends on change.
LEMMA DrawerSettles ==
    ASSUME NEW b, GoodBuilder(b), NEW x
    PROVE  GoodBuilder([b EXCEPT !.drawer = x]) /\ GoodBuilder([b EXCEPT !.name = x])
<1> SUFFICES ASSUME NEW c, c \in {[b EXCEPT !.drawer = x], [b EXCEPT !.name = x]}
             PROVE  GoodBuilder(c)
    OBVIOUS
<1>0. b = [f \in {"open", "row", "by", "name", "widgets", "filters", "range", "screen", "drawer",
                  "fetches", "seq", "shell"} |-> b[f]]
    BY DEF GoodBuilder, BuilderTyped
<1>1. /\ c = [f \in {"open", "row", "by", "name", "widgets", "filters", "range", "screen", "drawer",
                  "fetches", "seq", "shell"} |-> c[f]]
      /\ c.open = b.open /\ c.row = b.row /\ c.widgets = b.widgets /\ c.filters = b.filters
      /\ c.range = b.range /\ c.screen = b.screen /\ c.shell = b.shell
      /\ c.seq = b.seq /\ c.fetches = b.fetches
    BY <1>0
<1>2. BuilderTyped(c)
    BY <1>1 DEF GoodBuilder, BuilderTyped
<1>3. \A i \in DOMAIN c.widgets : Settled(c, i)
    BY <1>1 DEF GoodBuilder, Settled, Asked, Shows
<1> QED BY <1>2, <1>3 DEF GoodBuilder

\* One widget is put in place, others as they were.
LEMMA ApplyingSettles ==
    ASSUME NEW b, GoodBuilder(b), NEW i \in SafeIds, NEW W, NEW x,
           DOMAIN W = DOMAIN b.widgets \cup {i},
           \A j \in DOMAIN b.widgets \ {i} : W[j] = b.widgets[j]
    PROVE  GoodBuilder(Previewed(Reshelled([b EXCEPT !.drawer = x, !.widgets = W], {i}), {i}))
<1> DEFINE c == [b EXCEPT !.drawer = x, !.widgets = W]
<1>0. b = [f \in {"open", "row", "by", "name", "widgets", "filters", "range", "screen", "drawer",
                  "fetches", "seq", "shell"} |-> b[f]]
    BY DEF GoodBuilder, BuilderTyped
<1>1. /\ c = [f \in {"open", "row", "by", "name", "widgets", "filters", "range", "screen", "drawer",
                  "fetches", "seq", "shell"} |-> c[f]]
      /\ c.open = b.open /\ c.row = b.row /\ c.widgets = W /\ c.filters = b.filters
      /\ c.range = b.range /\ c.screen = b.screen /\ c.shell = b.shell
      /\ c.seq = b.seq /\ c.fetches = b.fetches
    BY <1>0
<1> HIDE DEF c
<1>2. Framed(c)
    BY <1>1 DEF GoodBuilder, BuilderTyped, Framed
<1>3. ASSUME NEW j \in DOMAIN c.widgets \ {i}
      PROVE  Settled(c, j)
    <2>1. j \in DOMAIN b.widgets /\ c.widgets[j] = b.widgets[j] /\ Settled(b, j)
        BY <1>1 DEF GoodBuilder
    <2> QED BY <2>1, <1>1 DEF Settled, Asked, Shows
<1>4. GoodBuilder(Previewed(Reshelled(c, {i}), {i}))
    BY <1>2, <1>3, RedrawingSettles
<1> QED BY <1>4 DEF c

\* The actions of the drawer.
LEMMA DrawerKeepsBuilder ==
    ASSUME GoodBuilder(builder), NEW f, ApplyDrawer(f)
    PROVE  GoodBuilder(builder')
<1>0. builder = [x \in {"open", "row", "by", "name", "widgets", "filters", "range", "screen", "drawer",
                  "fetches", "seq", "shell"} |-> builder[x]]
    BY DEF GoodBuilder, BuilderTyped
<1>1. CASE ApplyNew(f)
    <2>1. PICK i \in SafeIds :
            builder' = Previewed(Reshelled([builder EXCEPT !.drawer = "closed",
                                              !.widgets = Put(@, i, Composed(f))], {i}), {i})
        BY <1>1 DEF ApplyNew
    <2> DEFINE W == Put(builder.widgets, i, Composed(f))
    <2>2. DOMAIN W = DOMAIN builder.widgets \cup {i} /\ \A j \in DOMAIN builder.widgets \ {i} : W[j] = builder.widgets[j]
        BY DEF Put
    <2>3. builder' = Previewed(Reshelled([builder EXCEPT !.drawer = "closed", !.widgets = W], {i}), {i})
        BY <2>1
    <2> HIDE DEF W
    <2> QED BY <2>2, <2>3, ApplyingSettles
<1>2. CASE builder.drawer \in SafeIds /\ ApplyExisting(builder.drawer, f)
    <2> DEFINE i == builder.drawer
    <2>1. CASE i \notin DOMAIN builder.widgets
        <3>1. builder' = [builder EXCEPT !.drawer = "closed"]
            BY <1>2, <2>1 DEF ApplyExisting
        <3> QED BY <3>1, DrawerSettles
    <2>2. CASE i \in DOMAIN builder.widgets
        <3> DEFINE W == [builder.widgets EXCEPT ![i] = Composed(f)]
        <3>1. builder' = Previewed(Reshelled([builder EXCEPT !.drawer = "closed", !.widgets = W], {i}), {i})
            BY <1>2, <2>2 DEF ApplyExisting
        <3>2. DOMAIN W = DOMAIN builder.widgets \cup {i} /\ \A j \in DOMAIN builder.widgets \ {i} : W[j] = builder.widgets[j]
            BY <2>2
        <3>3. i \in SafeIds
            BY <1>2
        <3> HIDE DEF W, i
        <3> QED BY <3>1, <3>2, <3>3, ApplyingSettles
    <2> QED BY <2>1, <2>2
<1> QED BY <1>1, <1>2 DEF ApplyDrawer

\* Deleting a widget, and changing the filters or the range of all of them.
LEMMA DeletingKeepsBuilder ==
    ASSUME GoodBuilder(builder), NEW i \in SafeIds, DeleteWidget(i)
    PROVE  GoodBuilder(builder')
<1> DEFINE b == builder
           rest == DOMAIN b.widgets \ {i}
           W == [j \in rest |-> b.widgets[j]]
           S == [j \in rest |-> b.screen[j]]
           c == [b EXCEPT !.widgets = W, !.screen = S]
<1>0. b = [f \in {"open", "row", "by", "name", "widgets", "filters", "range", "screen", "drawer",
                  "fetches", "seq", "shell"} |-> b[f]]
    BY DEF GoodBuilder, BuilderTyped
<1>2. builder' = c
    BY DEF DeleteWidget
<1>3. /\ DOMAIN W = rest /\ S = [j \in rest |-> S[j]]
      /\ \A j \in rest : W[j] = b.widgets[j] /\ S[j] = b.screen[j] /\ j \in DOMAIN b.widgets
    OBVIOUS
<1>4. rest \subseteq SafeIds
    BY DEF GoodBuilder, BuilderTyped
<1> HIDE DEF W, S, rest
<1>1. /\ c = [f \in {"open", "row", "by", "name", "widgets", "filters", "range", "screen", "drawer",
                  "fetches", "seq", "shell"} |-> c[f]]
      /\ c.open = b.open /\ c.row = b.row /\ c.widgets = W /\ c.filters = b.filters
      /\ c.range = b.range /\ c.screen = S /\ c.shell = b.shell
      /\ c.seq = b.seq /\ c.fetches = b.fetches
    BY <1>0
<1> HIDE DEF c
<1>5. BuilderTyped(c)
    BY <1>1, <1>3, <1>4 DEF GoodBuilder, BuilderTyped
<1>6. ASSUME NEW j \in DOMAIN c.widgets
      PROVE  Settled(c, j)
    <2>1. j \in DOMAIN b.widgets /\ c.widgets[j] = b.widgets[j] /\ c.screen[j] = b.screen[j] /\ Settled(b, j)
        BY <1>1, <1>3 DEF GoodBuilder
    <2> QED BY <2>1, <1>1 DEF Settled, Asked, Shows
<1> QED BY <1>2, <1>5, <1>6 DEF GoodBuilder

\* ChangeBoard: every widget is asked for again, in the shell it has.
LEMMA ChangingKeepsBuilder ==
    ASSUME GoodBuilder(builder), NEW fs, NEW range, ChangeBoard(fs, range)
    PROVE  GoodBuilder(builder')
<1> DEFINE b == builder
           c == [b EXCEPT !.filters = fs, !.range = range]
<1>0. b = [f \in {"open", "row", "by", "name", "widgets", "filters", "range", "screen", "drawer",
                  "fetches", "seq", "shell"} |-> b[f]]
    BY DEF GoodBuilder, BuilderTyped
<1>2. builder' = Previewed(c, DOMAIN b.widgets)
    BY DEF ChangeBoard
<1>1. /\ c = [f \in {"open", "row", "by", "name", "widgets", "filters", "range", "screen", "drawer",
                  "fetches", "seq", "shell"} |-> c[f]]
      /\ c.open = b.open /\ c.row = b.row /\ c.widgets = b.widgets /\ c.screen = b.screen
      /\ c.shell = b.shell /\ c.seq = b.seq /\ c.fetches = b.fetches
    BY <1>0
<1> HIDE DEF c
<1>3. BuilderTyped(c) /\ DOMAIN b.widgets \in SUBSET SafeIds
    BY <1>1 DEF GoodBuilder, BuilderTyped
<1>4. DOMAIN c.widgets \ DOMAIN b.widgets = {}
    BY <1>1
<1> QED BY <1>2, <1>3, <1>4, PreviewsSettle

\* An answer: one that is outdated, or of a shell that is gone, is not shown.
LEMMA AnswersKeepBuilder ==
    ASSUME GoodBuilder(builder), NEW f \in builder.fetches, NEW result \in {f.shows, Failed},
           AnswerPreview(f, result)
    PROVE  GoodBuilder(builder')
<1> DEFINE b == builder
           shown == ~Outdated(f) /\ f.id \in DOMAIN b.screen /\ b.shell[f.id] = f.shell
           S == IF shown THEN [b.screen EXCEPT ![f.id] = result] ELSE b.screen
           R == b.fetches \ {f}
           c == [b EXCEPT !.fetches = R, !.screen = S]
<1>0. b = [x \in {"open", "row", "by", "name", "widgets", "filters", "range", "screen", "drawer",
                  "fetches", "seq", "shell"} |-> b[x]]
    BY DEF GoodBuilder, BuilderTyped
<1>2. builder' = c
    BY DEF AnswerPreview
<1>8. b.screen = [j \in DOMAIN b.widgets |-> b.screen[j]]
    BY DEF GoodBuilder, BuilderTyped
<1>3. /\ S = [j \in DOMAIN b.widgets |-> S[j]]
      /\ \A j \in DOMAIN b.widgets : S[j] = IF shown /\ j = f.id THEN result ELSE b.screen[j]
    BY <1>8
<1> HIDE DEF S, R, shown
<1>1. /\ c = [x \in {"open", "row", "by", "name", "widgets", "filters", "range", "screen", "drawer",
                  "fetches", "seq", "shell"} |-> c[x]]
      /\ c.open = b.open /\ c.row = b.row /\ c.widgets = b.widgets /\ c.filters = b.filters
      /\ c.range = b.range /\ c.screen = S /\ c.shell = b.shell
      /\ c.seq = b.seq /\ c.fetches = R
    BY <1>0
<1> HIDE DEF c
<1>4. BuilderTyped(c)
    BY <1>1, <1>3 DEF GoodBuilder, BuilderTyped, R
<1>5. ASSUME NEW i \in DOMAIN c.widgets
      PROVE  Settled(c, i)
    <2>0. i \in DOMAIN b.widgets /\ Settled(b, i) /\ Shows(c, i) = Shows(b, i)
        BY <1>1 DEF GoodBuilder, Shows
    <2>1. \A g \in Asked(c, i) : g \in Asked(b, i)
        BY <1>1 DEF Asked, R
    <2>2. CASE f \in Asked(b, i)
        <3>1. f.id = i /\ f.seq = b.seq[i] /\ f.shell = b.shell[i] /\ f.shows = Shows(b, i)
            BY <2>0, <2>2 DEF Asked, Settled
        <3>2. shown
            BY <3>1, <2>0, <1>8 DEF shown, Outdated
        <3>3. c.screen[i] = result
            BY <3>1, <3>2, <2>0, <1>1, <1>3
        <3> QED BY <3>1, <3>3, <2>0, <2>1, <1>1 DEF Settled
    <2>3. CASE f \notin Asked(b, i)
        <3>1. Asked(c, i) = Asked(b, i)
            BY <2>3, <1>1 DEF Asked, R
        <3>2. ~(shown /\ i = f.id)
            BY <2>3 DEF shown, Outdated, Asked
        <3>3. c.screen[i] = b.screen[i]
            BY <3>2, <2>0, <1>1, <1>3
        <3> QED BY <3>1, <3>3, <2>0, <1>1 DEF Settled
    <2> QED BY <2>2, <2>3
<1> QED BY <1>2, <1>4, <1>5 DEF GoodBuilder

\* The form is sent: an update begins, or the builder is there again.
LEMMA SendingKeepsBoth ==
    ASSUME RowsInv, GoodBuilder(builder), NEW e \in Editors, SaveBuilder(e)
    PROVE  RowsInv' /\ (builder' = LeftBuilder \/ GoodBuilder(builder'))
<1> DEFINE c == CurrentConfig(builder)
           d == builder.row
           q == [phase |-> "read", by |-> builder.by, row |-> d, name |-> builder.name, config |-> c]
<1>1. d \in DashIds
    BY DEF GoodBuilder, BuilderTyped
<1>2. \A w \in c.widgets : w.id \in SafeIds
    <2>1. c.widgets = {WidgetOf(i, builder.widgets[i]) : i \in DOMAIN builder.widgets}
        BY DEF CurrentConfig
    <2>2. \A i \in DOMAIN builder.widgets : WidgetOf(i, builder.widgets[i]).id = i /\ i \in SafeIds
        BY DEF WidgetOf, GoodBuilder, BuilderTyped
    <2> HIDE DEF c
    <2> QED BY <2>1, <2>2
<1>3. CASE ~Owned(d, builder.by)
    BY <1>3, RowsStay DEF SaveBuilder, RowsOnly
<1>4. CASE Owned(d, builder.by) /\ ~ValidConfig(c)
    <2>1. builder' = Booted(c, d, builder.by, builder.name) /\ RowsOnly
        BY <1>4 DEF SaveBuilder
    <2> HIDE DEF c, d
    <2> QED BY <2>1, <1>1, <1>2, BootingSettles, RowsStay DEF RowsOnly
<1>5. CASE Owned(d, builder.by) /\ ValidConfig(c)
    <2>1. edits' = [edits EXCEPT ![e] = q] /\ builder' = LeftBuilder /\ UNCHANGED <<dashboards, kept>>
        BY <1>5 DEF SaveBuilder
    <2>2. Renderable(c)
        BY <1>5, ValidIsRenderable
    <2> HIDE DEF c, d
    <2>3. Writes(q)
        BY <1>1, <2>2 DEF Writes
    <2> HIDE DEF q
    <2> QED BY <2>1, <2>3, EditsMove
<1> QED BY <1>3, <1>4, <1>5

-----------------------------------------------------------------------------
(* What a viewer is shown.                                                     *)

\* The filters of a widget and of a viewer, put together, select nothing that
\* the saved ones alone would not: a viewer's positive filter never becomes an
\* alternative to a saved one, and every other filter takes rows away.
LEMMA ResolvedFiltersNarrow ==
    ASSUME NEW c, NEW w, NEW runtime, NEW bots
    PROVE  LET F == [filters |-> ResolveFilters(c, w, runtime), bots |-> bots]
               scope == [filters |-> c.filters \cup w.filters, bots |-> NoBotsLeftOut]
           IN  \A r : /\ SqlSelects(r, F) => SqlSelects(r, scope)
                      /\ OrmSelects(r, F) => OrmSelects(r, scope)
<1> DEFINE resolved == ResolveFilters(c, w, runtime)
           own == c.filters \cup w.filters
           F == [filters |-> resolved, bots |-> bots]
           scope == [filters |-> own, bots |-> NoBotsLeftOut]
           In(fs, k) == {f \in ParseFilters(fs) : f.column = k}
           Pos(fs, k) == {f \in In(fs, k) : f.op \in Positive}
           scoped == {f.column : f \in {g \in ParseFilters(own) : g.op \in Positive}}
<1>1. resolved = ParseFilters(own) \cup {f \in runtime : ~(f.op \in Positive /\ f.column \in scoped)}
    BY DEF ResolveFilters
<1>2. \A f : f \in ParseFilters(own) => f \in ParseFilters(resolved)
    BY <1>1 DEF ParseFilters
<1>3. ASSUME NEW k
      PROVE  Pos(own, k) = {} \/ Pos(resolved, k) = Pos(own, k)
    <2> SUFFICES ASSUME Pos(own, k) # {}
                 PROVE  Pos(resolved, k) = Pos(own, k)
        OBVIOUS
    <2>1. k \in scoped
        OBVIOUS
    <2>2. \A f : f \in Pos(own, k) => f \in Pos(resolved, k)
        BY <1>2
    <2>3. ASSUME NEW f \in Pos(resolved, k)
          PROVE  f \in Pos(own, k)
        <3>1. f \in resolved /\ f.column = k /\ f.op \in Positive
            BY DEF ParseFilters
        <3>2. f \in ParseFilters(own)
            BY <3>1, <2>1, <1>1
        <3> QED BY <3>1, <3>2
    <2> QED BY <2>2, <2>3
<1>4. \A k : \A f \in In(own, k) \ Pos(own, k) : f \in In(resolved, k) \ Pos(resolved, k)
    BY <1>2
<1>5. F.filters = resolved /\ scope.filters = own /\ scope.bots = NoBotsLeftOut
    OBVIOUS
<1>6. \A r : BotsExcluded(r, NoBotsLeftOut)
    BY DEF BotsExcluded, NoBotsLeftOut
<1> HIDE DEF resolved, own, F, scope, scoped
<1>7. ASSUME NEW r, SqlSelects(r, F)
      PROVE  SqlSelects(r, scope)
    <2> SUFFICES ASSUME NEW k \in Columns
                 PROVE  /\ Pos(own, k) = {} \/ \E f \in Pos(own, k) : SqlClause(r, f)
                        /\ \A f \in In(own, k) \ Pos(own, k) : SqlClause(r, f)
        BY <1>5, <1>6 DEF SqlSelects
    <2>1. /\ Pos(resolved, k) = {} \/ \E f \in Pos(resolved, k) : SqlClause(r, f)
          /\ \A f \in In(resolved, k) \ Pos(resolved, k) : SqlClause(r, f)
        BY <1>7, <1>5 DEF SqlSelects
    <2> HIDE DEF In, Pos
    <2> QED BY <2>1, <1>3, <1>4
<1>8. ASSUME NEW r, OrmSelects(r, F)
      PROVE  OrmSelects(r, scope)
    <2> SUFFICES ASSUME NEW k \in Columns
                 PROVE  /\ Pos(own, k) = {} \/ \E f \in Pos(own, k) : OrmClause(r, f)
                        /\ \A f \in In(own, k) \ Pos(own, k) : OrmClause(r, f)
        BY <1>5, <1>6 DEF OrmSelects
    <2>1. /\ Pos(resolved, k) = {} \/ \E f \in Pos(resolved, k) : OrmClause(r, f)
          /\ \A f \in In(resolved, k) \ Pos(resolved, k) : OrmClause(r, f)
        BY <1>8, <1>5 DEF OrmSelects
    <2> HIDE DEF In, Pos
    <2> QED BY <2>1, <1>3, <1>4
<1> QED BY <1>7, <1>8 DEF F, scope, resolved, own

\* The page of one widget.
LEMMA ViewingNarrows ==
    ASSUME NEW p, NEW d, ViewWidget(p, d)
    PROVE  ScopeOnlyNarrows'
<1>1. PICK w \in dashboards[d].config.widgets, slice \in Slices :
          report' = [about |-> "widget", config |-> dashboards[d].config, widget |-> w, slice |-> slice,
                     shows |-> RenderWidget(dashboards[d].site, dashboards[d].config, w, slice)]
    BY DEF ViewWidget
<1> DEFINE c == dashboards[d].config
           site == dashboards[d].site
           F == [filters |-> ResolveFilters(c, w, slice.filters), bots |-> RuntimeBots(slice, site)]
           scope == [filters |-> c.filters \cup w.filters, bots |-> NoBotsLeftOut]
           shown == RenderWidget(site, c, w, slice)
<1>2. report'.config = c /\ report'.widget = w /\ report'.shows = shown
    BY <1>1
<1>3. \A r : /\ SqlSelects(r, F) => SqlSelects(r, scope)
             /\ OrmSelects(r, F) => OrmSelects(r, scope)
    BY ResolvedFiltersNarrow
<1>4. ASSUME ~shown.error
      PROVE  /\ \A r \in shown.bySql : SqlSelects(r, F)
             /\ \A r \in shown.byOrm : OrmSelects(r, F)
    <2>1. ~RenderError(w)
        BY <1>4 DEF RenderWidget
    <2>2. /\ shown.bySql = {r \in WidgetRows(c, w, slice) : SqlSelects(r, F)}
          /\ shown.byOrm = {r \in WidgetRows(c, w, slice) : OrmSelects(r, F)}
        BY <2>1 DEF RenderWidget
    <2> HIDE DEF shown
    <2> QED BY <2>2
<1> HIDE DEF F, shown
<1> QED BY <1>2, <1>3, <1>4 DEF ScopeOnlyNarrows

-----------------------------------------------------------------------------
(* The component.                                                              *)

\* The rows, the builder, and what was last shown: every step keeps all three.
LEMMA DashStep ==
    ASSUME RowsInv, BuilderInv, ScopeOnlyNarrows, [DashNext]_<<reportVars, webVars, dashVars>>
    PROVE  RowsInv' /\ BuilderInv' /\ ScopeOnlyNarrows'
<1>1. ASSUME UNCHANGED report
      PROVE  ScopeOnlyNarrows'
    BY <1>1 DEF ScopeOnlyNarrows
<1>2. ASSUME UNCHANGED builder
      PROVE  BuilderInv'
    BY <1>2 DEF BuilderInv, BuilderTyped, Settled, Asked
<1>3. ASSUME GoodBuilder(builder')
      PROVE  BuilderInv'
    BY <1>3 DEF BuilderInv, GoodBuilder, BuilderTyped, Settled, Asked
<1>4. ASSUME builder.open
      PROVE  GoodBuilder(builder)
    BY <1>4 DEF BuilderInv, GoodBuilder, NoBuilder, LeftBuilder
<1>5. CASE UNCHANGED <<reportVars, webVars, dashVars>>
    BY <1>5, <1>1, <1>2, RowsStay DEF reportVars, dashVars
<1>6. CASE NextWeb /\ UNCHANGED <<reportVars, dashVars>>
    BY <1>6, <1>1, <1>2, RowsStay DEF reportVars, dashVars
<1>7. CASE NextDashboards
    <2>1. ASSUME NEW p \in Principals, NEW d \in DashIds, ViewWidget(p, d)
          PROVE  RowsInv' /\ BuilderInv' /\ ScopeOnlyNarrows'
        BY <2>1, <1>2, RowsStay, ViewingNarrows DEF ViewWidget, dashVars
    <2>2. ASSUME NotReports
          PROVE  BuilderInv' /\ ScopeOnlyNarrows'
        BY <2>2, <1>1, <1>2 DEF NotReports, reportVars
    <2>3. ASSUME NEW p \in Principals, NEW d \in DashIds, RemoveDashboard(p, d)
          PROVE  RowsInv' /\ BuilderInv' /\ ScopeOnlyNarrows'
        BY <2>2, <2>3, RemovingKeepsRows DEF RemoveDashboard
    <2>4. ASSUME NEW p \in Principals, NEW s \in WebSites, NEW viaApi \in BOOLEAN, CreateDashboard(p, s, viaApi)
          PROVE  RowsInv' /\ BuilderInv' /\ ScopeOnlyNarrows'
        BY <2>2, <2>4, CreatingKeepsRows DEF CreateDashboard
    <2>5. ASSUME NEW p \in Principals, NEW e \in Editors, NEW d \in DashIds, NEW name \in Titles \cup {Null},
                 NEW config \in Layouts \cup {Null}, NEW viaApi \in BOOLEAN, PostUpdate(e, p, d, name, config, viaApi)
          PROVE  RowsInv' /\ BuilderInv' /\ ScopeOnlyNarrows'
        BY <2>2, <2>5, AskingKeepsRows DEF PostUpdate
    <2>6. ASSUME NEW p \in Principals, NEW e \in Editors, NEW s \in WebSites, NEW name \in Titles,
                 NEW config \in Layouts, LookForSeed(e, p, s, name, config)
          PROVE  RowsInv' /\ BuilderInv' /\ ScopeOnlyNarrows'
        BY <2>2, <2>6, LookingKeepsRows DEF LookForSeed
    <2>7. ASSUME NEW e \in Editors, ReadDashboard(e)
          PROVE  RowsInv' /\ BuilderInv' /\ ScopeOnlyNarrows'
        BY <2>2, <2>7, ReadingKeepsRows DEF ReadDashboard
    <2>8. ASSUME NEW e \in Editors, SaveDashboard(e)
          PROVE  RowsInv' /\ BuilderInv' /\ ScopeOnlyNarrows'
        BY <2>2, <2>8, SavingKeepsRows DEF SaveDashboard
    <2>9. ASSUME NEW e \in Editors, SaveSeed(e)
          PROVE  RowsInv' /\ BuilderInv' /\ ScopeOnlyNarrows'
        BY <2>2, <2>9, SeedingKeepsRows DEF SaveSeed
    <2> QED BY <1>7, <2>1, <2>3, <2>4, <2>5, <2>6, <2>7, <2>8, <2>9 DEF NextDashboards
<1>8. CASE NextBuilder
    <2>1. ASSUME BuilderOnly
          PROVE  ScopeOnlyNarrows'
        BY <2>1, <1>1 DEF BuilderOnly, reportVars
    <2>2. ASSUME RowsOnly, BuilderOnly, GoodBuilder(builder')
          PROVE  RowsInv' /\ BuilderInv' /\ ScopeOnlyNarrows'
        BY <2>1, <2>2, <1>3, RowsStay DEF RowsOnly
    <2>3. ASSUME NEW p \in Principals, NEW d \in DashIds, OpenBuilder(p, d)
          PROVE  RowsInv' /\ BuilderInv' /\ ScopeOnlyNarrows'
        <3>1. \A w \in dashboards[d].config.widgets : w.id \in SafeIds
            BY <2>3 DEF OpenBuilder, Owned, RowsInv, Row, Renderable
        <3>2. GoodBuilder(Booted(dashboards[d].config, d, p, dashboards[d].name))
            BY <3>1, BootingSettles
        <3> QED BY <2>2, <2>3, <3>2 DEF OpenBuilder
    <2>4. ASSUME NEW i, OpenDrawer(i) \/ CloseDrawer
          PROVE  RowsInv' /\ BuilderInv' /\ ScopeOnlyNarrows'
        <3>1. builder.open /\ RowsOnly /\ BuilderOnly
              /\ (builder' = [builder EXCEPT !.drawer = i] \/ builder' = [builder EXCEPT !.drawer = "closed"])
            BY <2>4 DEF OpenDrawer, CloseDrawer
        <3>2. GoodBuilder(builder)
            BY <3>1, <1>4
        <3>3. GoodBuilder([builder EXCEPT !.drawer = i]) /\ GoodBuilder([builder EXCEPT !.drawer = "closed"])
            BY <3>2, DrawerSettles
        <3> QED BY <3>1, <3>3, <2>2
    <2>5. ASSUME NEW f \in WidgetForms, ApplyDrawer(f)
          PROVE  RowsInv' /\ BuilderInv' /\ ScopeOnlyNarrows'
        <3>1. builder.open /\ RowsOnly /\ BuilderOnly
            BY <2>5 DEF ApplyDrawer
        <3> QED BY <3>1, <2>5, <1>4, <2>2, DrawerKeepsBuilder
    <2>6. ASSUME NEW i \in SafeIds, DeleteWidget(i)
          PROVE  RowsInv' /\ BuilderInv' /\ ScopeOnlyNarrows'
        <3>1. builder.open /\ RowsOnly /\ BuilderOnly
            BY <2>6 DEF DeleteWidget
        <3> QED BY <3>1, <2>6, <1>4, <2>2, DeletingKeepsBuilder
    <2>7. ASSUME NEW fs \in BoardFilters, NEW range \in DOMAIN PresetSpan, ChangeBoard(fs, range)
          PROVE  RowsInv' /\ BuilderInv' /\ ScopeOnlyNarrows'
        <3>1. builder.open /\ RowsOnly /\ BuilderOnly
            BY <2>7 DEF ChangeBoard
        <3> QED BY <3>1, <2>7, <1>4, <2>2, ChangingKeepsBuilder
    <2>8. ASSUME NEW c \in Layouts, ApplyJson(c)
          PROVE  RowsInv' /\ BuilderInv' /\ ScopeOnlyNarrows'
        <3>1. builder.open /\ RowsOnly /\ BuilderOnly /\ builder' = Loaded(builder, c)
              /\ \A w \in c.widgets : w.id \in SafeIds
            BY <2>8 DEF ApplyJson
        <3>2. Framed(builder)
            BY <3>1, <1>4 DEF GoodBuilder, BuilderTyped, Framed
        <3> QED BY <3>1, <3>2, <2>2, LoadingSettles
    <2>9. ASSUME builder.open, NEW f \in builder.fetches, AnswerPreview(f, f.shows) \/ AnswerPreview(f, Failed)
          PROVE  RowsInv' /\ BuilderInv' /\ ScopeOnlyNarrows'
        <3>1. RowsOnly /\ BuilderOnly
            BY <2>9 DEF AnswerPreview
        <3> QED BY <3>1, <2>9, <1>4, <2>2, AnswersKeepBuilder
    <2>10. ASSUME NEW e \in Editors, SaveBuilder(e)
          PROVE  RowsInv' /\ BuilderInv' /\ ScopeOnlyNarrows'
        <3>1. builder.open /\ BuilderOnly
            BY <2>10 DEF SaveBuilder
        <3>2. RowsInv' /\ (builder' = LeftBuilder \/ GoodBuilder(builder'))
            BY <3>1, <2>10, <1>4, SendingKeepsBoth
        <3>3. BuilderInv'
            BY <3>2, <1>3 DEF BuilderInv, LeftBuilder
        <3> QED BY <3>1, <3>2, <3>3, <2>1
    <2>11. ASSUME NEW e \in Editors, ReadDashboard(e) \/ SaveDashboard(e)
          PROVE  RowsInv' /\ BuilderInv' /\ ScopeOnlyNarrows'
        <3>1. UNCHANGED builder /\ UNCHANGED report
            BY <2>11 DEF ReadDashboard, SaveDashboard, NotReports, reportVars
        <3> QED BY <3>1, <2>11, <1>1, <1>2, ReadingKeepsRows, SavingKeepsRows
    <2>12. ASSUME NEW name \in Titles, RetitleBuilder(name)
          PROVE  RowsInv' /\ BuilderInv' /\ ScopeOnlyNarrows'
        <3>1. builder.open /\ RowsOnly /\ BuilderOnly /\ builder' = [builder EXCEPT !.name = name]
            BY <2>12 DEF RetitleBuilder
        <3> QED BY <3>1, <1>4, <2>2, DrawerSettles
    <2> QED BY <1>8, <2>3, <2>4, <2>5, <2>6, <2>7, <2>8, <2>9, <2>10, <2>11, <2>12 DEF NextBuilder, NextForm
<1> QED BY <1>5, <1>6, <1>7, <1>8 DEF DashNext

\* What is stored is valid and is what was last sent, column by column; every
\* preview in flight in the builder is known for new or outdated.
THEOREM DashboardsHold == DashSpec => [](RowsInv /\ BuilderInv /\ ScopeOnlyNarrows)
<1>1. DashInit => RowsInv /\ BuilderInv /\ ScopeOnlyNarrows
    <2>1. DashInit => BuilderInv
        BY DEF DashInit, InitDashboards, BuilderInv
    <2>2. DashInit => ScopeOnlyNarrows
        BY DEF DashInit, InitReports, NoReport, ScopeOnlyNarrows
    <2> QED BY <2>1, <2>2, RowsBegin
<1>2. RowsInv /\ BuilderInv /\ ScopeOnlyNarrows /\ [DashNext]_<<reportVars, webVars, dashVars>>
        => (RowsInv /\ BuilderInv /\ ScopeOnlyNarrows)'
    BY DashStep
<1> QED BY <1>1, <1>2, PTL DEF DashSpec

\* A viewer's filters only narrow what a widget shows.
THEOREM ViewersOnlyNarrow == DashSpec => []ScopeOnlyNarrows
BY DashboardsHold, PTL

\* A column holds what was last sent for it, whoever read the row before and
\* saves it now, and what is stored can be rendered.
THEOREM ColumnsHoldWhatWasSent == DashSpec => []LastSentIsStored
<1>1. RowsInv => LastSentIsStored
    BY DEF RowsInv, LastSentIsStored, Row, Renderable
<1> QED BY <1>1, DashboardsHold, PTL

\* With nothing newer on its way, the builder shows what is asked for now.
THEOREM PreviewsAreLatest == DashSpec => []PreviewIsLatest
<1>1. BuilderInv => PreviewIsLatest
    <2> SUFFICES ASSUME BuilderInv, builder.open, NEW i \in DOMAIN builder.widgets,
                        \A f \in builder.fetches : f.id = i => Outdated(f)
                 PROVE  builder.screen[i] \in {Shows(builder, i), Failed}
        BY DEF PreviewIsLatest
    <2>1. Settled(builder, i)
        BY DEF BuilderInv, NoBuilder, LeftBuilder
    <2>2. Asked(builder, i) = {}
        BY DEF Asked, Outdated
    <2> QED BY <2>1, <2>2 DEF Settled
<1> QED BY <1>1, DashboardsHold, PTL
-----------------------------------------------------------------------------
(* Dates: the calendar, the presets of the pages and of the API, and the       *)
(* clocks of a zone.  A question and its answer are made in one step, so the    *)
(* work is in the operators that answer it.                                    *)

\* A set of numbers has a least one.
LEMMA LeastNumber ==
    ASSUME NEW S \in SUBSET Nat, S # {}
    PROVE  \E x \in S : \A y \in S : x <= y
<1>1. PICK x \in S : \A y \in S : ~(<<y, x>> \in OpToRel(<, Nat))
    BY NatLessThanWellFounded, WFMin, Zenon
<1>2. \A y \in S : ~(y < x)
    BY <1>1 DEF OpToRel
<1> QED BY <1>2

\* A month is of a year and has a place in it.
LEMMA MonthIsOfAYear ==
    ASSUME NEW m \in Nat
    PROVE  \E y \in Nat, k \in 0..11 : m \div 12 = y /\ m % 12 = k /\ m = 12 * y + k
<1>1. m \div 12 \in Nat
    OBVIOUS
<1>2. m % 12 \in 0..11
    OBVIOUS
<1>3. m % 12 = m - 12 * (m \div 12)
    OBVIOUS
<1>4. \A y \in Nat, k \in 0..11 : k = m - 12 * y => m = 12 * y + k
    OBVIOUS
<1> QED BY <1>1, <1>2, <1>3, <1>4, Zenon

\* The year of a month, and its place in it, are found again.
LEMMA MonthOfAYear ==
    ASSUME NEW y \in Nat, NEW k \in 0..11
    PROVE  (12 * y + k) \div 12 = y /\ (12 * y + k) % 12 = k
OBVIOUS

\* The leap years before a year.
LeapsBefore(y) == Cardinality({l \in LeapYears : l < y})

\* A leap year is one more, and there are not fewer later.
LEMMA LeapsCounted ==
    ASSUME NEW y \in Nat
    PROVE  /\ LeapsBefore(y) \in Nat
           /\ LeapsBefore(y + 1) = LeapsBefore(y) + (IF y \in LeapYears THEN 1 ELSE 0)
           /\ \A x \in Nat : y <= x => LeapsBefore(y) <= LeapsBefore(x)
<1>1. LeapYears \subseteq Nat /\ IsFiniteSet(LeapYears)
    <2>1. LeapYears \in SUBSET (0..(Years - 1)) /\ Years - 1 \in Int /\ 0 \in Int
        BY DateRangesAssumption
    <2>2. IsFiniteSet(0..(Years - 1))
        BY <2>1, FS_Interval
    <2>3. IsFiniteSet(LeapYears)
        BY <2>1, <2>2, FS_Subset
    <2>4. LeapYears \subseteq Nat
        BY <2>1
    <2> QED BY <2>3, <2>4
<1>2. \A x \in Nat : IsFiniteSet({l \in LeapYears : l < x}) /\ LeapsBefore(x) \in Nat
    <2>1. ASSUME NEW x \in Nat
          PROVE  IsFiniteSet({l \in LeapYears : l < x}) /\ LeapsBefore(x) \in Nat
        <3>1. IsFiniteSet({l \in LeapYears : l < x})
            BY <1>1, FS_Subset
        <3> QED BY <3>1, FS_CardinalityType DEF LeapsBefore
    <2> QED BY <2>1
<1>3. LeapsBefore(y + 1) = LeapsBefore(y) + (IF y \in LeapYears THEN 1 ELSE 0)
    <2>1. CASE y \in LeapYears
        <3>1. {l \in LeapYears : l < y + 1} = {l \in LeapYears : l < y} \cup {y}
            <4>1. \A l \in LeapYears : l < y + 1 <=> (l < y \/ l = y)
                BY <1>1
            <4> QED BY <4>1, <2>1
        <3>2. y \notin {l \in LeapYears : l < y}
            OBVIOUS
        <3> QED BY <3>1, <3>2, <1>2, <2>1, FS_AddElement DEF LeapsBefore
    <2>2. CASE y \notin LeapYears
        <3>1. {l \in LeapYears : l < y + 1} = {l \in LeapYears : l < y}
            <4>1. \A l \in LeapYears : l < y + 1 <=> l < y
                BY <1>1, <2>2
            <4> QED BY <4>1
        <3> QED BY <3>1, <1>2, <2>2 DEF LeapsBefore
    <2> QED BY <2>1, <2>2
<1>4. ASSUME NEW x \in Nat, y <= x
      PROVE  LeapsBefore(y) <= LeapsBefore(x)
    <2>1. {l \in LeapYears : l < y} \in SUBSET {l \in LeapYears : l < x}
        <3>1. \A l \in LeapYears : l < y => l < x
            BY <1>1, <1>4
        <3> QED BY <3>1
    <2> QED BY <2>1, <1>2, FS_Subset DEF LeapsBefore
<1> QED BY <1>2, <1>3, <1>4

\* The first day of a month of a year.
LEMMA FirstOfMonth ==
    ASSUME NEW y \in Nat, NEW k \in 0..11, 12 * y + k <= 12 * Years
    PROVE  MonthStart[12 * y + k] =
              365 * y + LeapsBefore(y) + DaysBefore[k + 1] + (IF k >= 2 /\ y \in LeapYears THEN 1 ELSE 0)
<1>1. 12 * y + k \in 0..(12 * Years)
    BY DateRangesAssumption
<1>2. (12 * y + k) \div 12 = y /\ (12 * y + k) % 12 = k
    BY MonthOfAYear
<1> DEFINE x == 12 * y + k
<1>3. MonthStart[x] = 365 * (x \div 12) + LeapsBefore(x \div 12) + DaysBefore[(x % 12) + 1]
                        + (IF x % 12 >= 2 /\ x \div 12 \in LeapYears THEN 1 ELSE 0)
    <2> HIDE DEF x
    <2>1. x \in 0..(12 * Years)
        BY <1>1 DEF x
    <2> QED BY <2>1, Zenon DEF MonthStart, LeapsBefore
<1>4. x \div 12 = y /\ x % 12 = k
    BY <1>2
<1>5. MonthStart[x] = 365 * y + LeapsBefore(y) + DaysBefore[k + 1]
                        + (IF k >= 2 /\ y \in LeapYears THEN 1 ELSE 0)
    <2> HIDE DEF x
    <2> QED BY <1>3, <1>4
<1> QED BY <1>5

\* The days of a common year before each month.
LEMMA DaysOfAYear ==
    /\ DaysBefore[1] = 0 /\ DaysBefore[2] = 31 /\ DaysBefore[3] = 59 /\ DaysBefore[4] = 90
    /\ DaysBefore[5] = 120 /\ DaysBefore[6] = 151 /\ DaysBefore[7] = 181 /\ DaysBefore[8] = 212
    /\ DaysBefore[9] = 243 /\ DaysBefore[10] = 273 /\ DaysBefore[11] = 304 /\ DaysBefore[12] = 334
BY DEF DaysBefore

\* A month begins where the one before it ends.
LEMMA MonthsFollow ==
    ASSUME NEW m \in Months
    PROVE  /\ MonthStart[m] \in Nat /\ MonthStart[m + 1] = MonthStart[m] + MonthLength(m)
           /\ MonthLength(m) \in 28..31
<1>0. m \in Nat /\ m < 12 * Years /\ Years \in Nat
    BY DateRangesAssumption DEF Months
<1>a. PICK y \in Nat, k \in 0..11 : m \div 12 = y /\ m % 12 = k /\ m = 12 * y + k
    BY <1>0, MonthIsOfAYear
<1>1. y \in Nat /\ k \in 0..11 /\ m = 12 * y + k /\ m \in Nat /\ m < 12 * Years /\ Years \in Nat
    BY <1>0, <1>a
<1>2. MonthLength(m) = IF k = 1 THEN (IF y \in LeapYears THEN 29 ELSE 28)
                       ELSE IF k \in {3, 5, 8, 10} THEN 30 ELSE 31
    BY <1>a DEF MonthLength
<1>3. MonthStart[m] = 365 * y + LeapsBefore(y) + DaysBefore[k + 1]
                        + (IF k >= 2 /\ y \in LeapYears THEN 1 ELSE 0)
    BY <1>1, FirstOfMonth
<1>4. /\ LeapsBefore(y) \in Nat
      /\ LeapsBefore(y + 1) = LeapsBefore(y) + (IF y \in LeapYears THEN 1 ELSE 0)
    BY <1>1, LeapsCounted
<1>5. CASE k < 11
    <2>1. m + 1 = 12 * y + (k + 1) /\ k + 1 \in 0..11 /\ 12 * y + (k + 1) <= 12 * Years
        BY <1>1, <1>5
    <2>2. MonthStart[m + 1] = 365 * y + LeapsBefore(y) + DaysBefore[(k + 1) + 1]
                          + (IF k + 1 >= 2 /\ y \in LeapYears THEN 1 ELSE 0)
        BY <1>1, <2>1, FirstOfMonth
    <2>3. /\ DaysBefore[k + 1] \in Nat
          /\ DaysBefore[(k + 1) + 1] = DaysBefore[k + 1] +
               (IF k = 1 THEN 28 ELSE IF k \in {3, 5, 8, 10} THEN 30 ELSE 31)
        <3>1. k = 0 \/ k = 1 \/ k = 2 \/ k = 3 \/ k = 4 \/ k = 5 \/ k = 6 \/ k = 7 \/ k = 8 \/ k = 9 \/ k = 10
            BY <1>1, <1>5
        <3> QED BY <3>1, DaysOfAYear
    <2> QED BY <1>1, <1>2, <1>3, <1>4, <2>2, <2>3
<1>6. CASE k = 11
    <2>1. m + 1 = 12 * (y + 1) + 0 /\ y + 1 \in Nat /\ 12 * (y + 1) + 0 <= 12 * Years
        BY <1>1, <1>6
    <2>2. MonthStart[m + 1] = 365 * (y + 1) + LeapsBefore(y + 1) + DaysBefore[0 + 1]
                          + (IF 0 >= 2 /\ y + 1 \in LeapYears THEN 1 ELSE 0)
        BY <2>1, FirstOfMonth
    <2>3. DaysBefore[0 + 1] = 0 /\ DaysBefore[k + 1] = 334
        BY <1>6, DaysOfAYear
    <2> QED BY <1>1, <1>2, <1>3, <1>4, <1>6, <2>2, <2>3
<1> QED BY <1>1, <1>5, <1>6

\* Later months begin later.
LEMMA MonthsAscend ==
    ASSUME NEW i \in 0..(12 * Years), NEW j \in 0..(12 * Years), i < j
    PROVE  MonthStart[i] \in Nat /\ MonthStart[j] \in Nat /\ MonthStart[i] < MonthStart[j]
<1>0. i \in Nat /\ j \in Nat /\ i <= 12 * Years /\ j <= 12 * Years /\ Years \in Nat
    BY DateRangesAssumption
<1>a. PICK y \in Nat, k \in 0..11 : i = 12 * y + k
    BY <1>0, MonthIsOfAYear
<1>b. PICK z \in Nat, l \in 0..11 : j = 12 * z + l
    BY <1>0, MonthIsOfAYear
<1>1. /\ y \in Nat /\ k \in 0..11 /\ i = 12 * y + k /\ z \in Nat /\ l \in 0..11 /\ j = 12 * z + l
      /\ i <= 12 * Years /\ j <= 12 * Years /\ Years \in Nat
    BY <1>0, <1>a, <1>b
<1>2. /\ MonthStart[i] = 365 * y + LeapsBefore(y) + DaysBefore[k + 1]
                        + (IF k >= 2 /\ y \in LeapYears THEN 1 ELSE 0)
      /\ MonthStart[j] = 365 * z + LeapsBefore(z) + DaysBefore[l + 1]
                        + (IF l >= 2 /\ z \in LeapYears THEN 1 ELSE 0)
    <2>1. /\ MonthStart[12 * y + k] = 365 * y + LeapsBefore(y) + DaysBefore[k + 1]
                          + (IF k >= 2 /\ y \in LeapYears THEN 1 ELSE 0)
          /\ MonthStart[12 * z + l] = 365 * z + LeapsBefore(z) + DaysBefore[l + 1]
                          + (IF l >= 2 /\ z \in LeapYears THEN 1 ELSE 0)
        <3>1. 12 * y + k <= 12 * Years /\ 12 * z + l <= 12 * Years
            BY <1>1
        <3>2. MonthStart[12 * y + k] = 365 * y + LeapsBefore(y) + DaysBefore[k + 1]
                            + (IF k >= 2 /\ y \in LeapYears THEN 1 ELSE 0)
            BY <1>1, <3>1, FirstOfMonth
        <3>3. MonthStart[12 * z + l] = 365 * z + LeapsBefore(z) + DaysBefore[l + 1]
                            + (IF l >= 2 /\ z \in LeapYears THEN 1 ELSE 0)
            BY <1>1, <3>1, FirstOfMonth
        <3> QED BY <3>2, <3>3
    <2> QED BY <1>1, <2>1
<1>3. \A n \in 0..11 : DaysBefore[n + 1] \in 0..334
    <2>1. SUFFICES ASSUME NEW n \in 0..11 PROVE DaysBefore[n + 1] \in 0..334
        OBVIOUS
    <2>2. \/ n = 0 \/ n = 1 \/ n = 2 \/ n = 3 \/ n = 4 \/ n = 5
          \/ n = 6 \/ n = 7 \/ n = 8 \/ n = 9 \/ n = 10 \/ n = 11
        OBVIOUS
    <2> QED BY <2>2, DaysOfAYear
<1>4. /\ LeapsBefore(y) \in Nat /\ LeapsBefore(z) \in Nat /\ (y <= z => LeapsBefore(y) <= LeapsBefore(z))
    BY <1>1, LeapsCounted
<1>5. CASE y < z
    <2>1. y + 1 <= z /\ k + 1 \in 1..12 /\ LeapsBefore(y) <= LeapsBefore(z)
        BY <1>1, <1>4, <1>5
    <2>2. DaysBefore[k + 1] \in 0..334 /\ DaysBefore[l + 1] \in 0..334
        BY <1>1, <1>3
    <2> DEFINE u == IF k >= 2 /\ y \in LeapYears THEN 1 ELSE 0
               v == IF l >= 2 /\ z \in LeapYears THEN 1 ELSE 0
    <2>3. u \in 0..1 /\ v \in 0..1
        OBVIOUS
    <2>4. /\ MonthStart[i] = 365 * y + LeapsBefore(y) + DaysBefore[k + 1] + u
          /\ MonthStart[j] = 365 * z + LeapsBefore(z) + DaysBefore[l + 1] + v
        BY <1>2
    <2> DEFINE a == LeapsBefore(y)
               b == LeapsBefore(z)
               p == DaysBefore[k + 1]
               q == DaysBefore[l + 1]
    <2>5. /\ a \in Nat /\ b \in Nat /\ a <= b /\ p \in 0..334 /\ q \in 0..334
          /\ MonthStart[i] = 365 * y + a + p + u /\ MonthStart[j] = 365 * z + b + q + v
        BY <1>4, <2>1, <2>2, <2>4
    <2> HIDE DEF u, v, a, b, p, q
    <2> QED BY <1>1, <2>1, <2>3, <2>5
<1>6. CASE y = z
    <2>1. k < l
        BY <1>1, <1>6
    <2>2. DaysBefore[k + 1] < DaysBefore[l + 1]
        <3>1. k = 0 \/ k = 1 \/ k = 2 \/ k = 3 \/ k = 4 \/ k = 5 \/ k = 6 \/ k = 7 \/ k = 8 \/ k = 9 \/ k = 10
            BY <1>1, <2>1
        <3>2. l = 11 \/ l = 1 \/ l = 2 \/ l = 3 \/ l = 4 \/ l = 5 \/ l = 6 \/ l = 7 \/ l = 8 \/ l = 9 \/ l = 10
            BY <1>1, <2>1
        <3> QED BY <2>1, <3>1, <3>2, DaysOfAYear
    <2>3. DaysBefore[k + 1] \in 0..334 /\ DaysBefore[l + 1] \in 0..334
        BY <1>1, <1>3
    <2> DEFINE u == IF k >= 2 /\ y \in LeapYears THEN 1 ELSE 0
               v == IF l >= 2 /\ y \in LeapYears THEN 1 ELSE 0
    <2>4. u \in 0..1 /\ v \in 0..1 /\ u <= v
        BY <1>1, <2>1
    <2>5. /\ MonthStart[i] = 365 * y + LeapsBefore(y) + DaysBefore[k + 1] + u
          /\ MonthStart[j] = 365 * y + LeapsBefore(y) + DaysBefore[l + 1] + v
        BY <1>2, <1>6
    <2> DEFINE a == LeapsBefore(y)
               p == DaysBefore[k + 1]
               q == DaysBefore[l + 1]
    <2>6. /\ a \in Nat /\ p \in 0..334 /\ q \in 0..334 /\ p < q
          /\ MonthStart[i] = 365 * y + a + p + u /\ MonthStart[j] = 365 * y + a + q + v
        BY <1>4, <2>2, <2>3, <2>5
    <2> HIDE DEF u, v, a, p, q
    <2> QED BY <1>1, <2>4, <2>6
<1>7. y <= z
    BY <1>1
<1> QED BY <1>1, <1>5, <1>6, <1>7

\* Every day of the calendar is of one month.
LEMMA DayIsOfAMonth ==
    ASSUME NEW d \in 0..(MonthStart[12 * Years] - 1), Years # 0
    PROVE  /\ MonthOf[d] \in Months
           /\ MonthStart[MonthOf[d]] <= d /\ d < MonthStart[MonthOf[d] + 1]
           /\ \A m \in Months : MonthStart[m] <= d /\ d < MonthStart[m + 1] => m = MonthOf[d]
<1>0. Years \in Nat \ {0} /\ MonthStart[0] = 0 /\ d \in Nat
    <2>1. Years \in Nat \ {0} /\ 12 * 0 + 0 = 0
        BY DateRangesAssumption
    <2>2. MonthStart[12 * 0 + 0] = 365 * 0 + LeapsBefore(0) + DaysBefore[0 + 1]
                          + (IF 0 >= 2 /\ 0 \in LeapYears THEN 1 ELSE 0)
        BY <2>1, FirstOfMonth
    <2>3. LeapsBefore(0) = 0
        <3>1. {l \in LeapYears : l < 0} = {}
            <4>1. LeapYears \subseteq 0..(Years - 1) /\ Years \in Nat
                BY DateRangesAssumption
            <4>2. \A l \in LeapYears : ~(l < 0)
                BY <4>1
            <4> QED BY <4>2
        <3> QED BY <3>1, FS_EmptySet DEF LeapsBefore
    <2> QED BY <2>1, <2>2, <2>3, DaysOfAYear
<1>1. \E m \in Months : MonthStart[m] <= d /\ d < MonthStart[m + 1]
    <2> DEFINE S == {i \in 0..(12 * Years) : d < MonthStart[i]}
    <2>1. S \in SUBSET Nat /\ 12 * Years \in S
        <3>1. 0 < 12 * Years /\ 0 \in 0..(12 * Years) /\ 12 * Years \in 0..(12 * Years)
            BY <1>0
        <3>2. MonthStart[12 * Years] \in Nat
            BY <3>1, MonthsAscend
        <3> QED BY <1>0, <3>1, <3>2
    <2>2. PICK i \in S : \A j \in S : i <= j
        BY <2>1, LeastNumber
    <2>3. i # 0 /\ i \in Nat /\ i <= 12 * Years /\ d < MonthStart[i]
        BY <1>0, <2>2
    <2>4. i - 1 \in Months /\ i - 1 \in 0..(12 * Years) /\ i - 1 \notin S
        BY <1>0, <2>2, <2>3 DEF Months
    <2>5. MonthStart[i - 1] \in Nat
        BY <2>4, MonthsFollow
    <2> QED BY <1>0, <2>3, <2>4, <2>5
<1>2. ASSUME NEW m \in Months, NEW n \in Months, MonthStart[m] <= d, d < MonthStart[m + 1],
             MonthStart[n] <= d, d < MonthStart[n + 1], m < n
      PROVE  FALSE
    <2>1. /\ m + 1 \in 0..(12 * Years) /\ n \in 0..(12 * Years) /\ m + 1 <= n
          /\ MonthStart[n] \in Nat
        BY <1>0, <1>2, MonthsFollow DEF Months
    <2>2. MonthStart[m + 1] <= MonthStart[n]
        <3>1. CASE m + 1 = n
            BY <2>1, <3>1
        <3>2. CASE m + 1 < n
            BY <2>1, <3>2, MonthsAscend
        <3> QED BY <2>1, <3>1, <3>2
    <2>3. MonthStart[m + 1] \in Nat
        BY <1>2, MonthsFollow
    <2> QED BY <1>0, <1>2, <2>1, <2>2, <2>3
<1>3. MonthOf[d] = CHOOSE m \in Months : MonthStart[m] <= d /\ d < MonthStart[m + 1]
    BY DEF MonthOf
<1>4. MonthOf[d] \in Months /\ MonthStart[MonthOf[d]] <= d /\ d < MonthStart[MonthOf[d] + 1]
    BY <1>1, <1>3
<1>5. \A m, n \in Months : m < n \/ n < m \/ m = n
    BY <1>0 DEF Months
<1> QED BY <1>2, <1>4, <1>5

\* Hours are of days: twenty-four of each.
LEMMA HoursOfADay ==
    ASSUME NEW d \in Int, NEW h \in 0..23
    PROVE  Day(24 * d + h) = d /\ Day(24 * d) = d /\ Hour(d) = 24 * d
<1>1. (24 * d + h) \div 24 = d /\ (24 * d) \div 24 = d
    OBVIOUS
<1> QED BY <1>1 DEF Day, Hour

\* An instant is an hour of a day.
LEMMA HourIsOfADay ==
    ASSUME NEW t \in Int
    PROVE  \E d \in Int, h \in 0..23 : Day(t) = d /\ t % 24 = h /\ t = 24 * d + h
<1>1. t \div 24 \in Int
    OBVIOUS
<1>2. t % 24 \in 0..23
    OBVIOUS
<1>3. t % 24 = t - 24 * (t \div 24)
    OBVIOUS
<1>4. \A d \in Int, h \in 0..23 : h = t - 24 * d => t = 24 * d + h
    OBVIOUS
<1> QED BY <1>1, <1>2, <1>3, <1>4, Zenon DEF Day

\* A week begins on its Monday, wherever in it one looks.
LEMMA MondaysBegin ==
    ASSUME NEW d \in Int
    PROVE  /\ Weekday(d) \in 0..6 /\ Weekday(d - Weekday(d)) = 0
           /\ Weekday(d - Weekday(d) - 7) = 0
<1>1. FirstWeekday \in Int
    BY DateRangesAssumption
<1>2. \A x \in Int : x % 7 \in 0..6
    OBVIOUS
<1>3. \A x \in Int : (x - (x % 7)) % 7 = 0
    OBVIOUS
<1>4. \A x \in Int : (x - (x % 7) - 7) % 7 = 0
    OBVIOUS
<1> DEFINE x == d + FirstWeekday
           k == Weekday(d)
<1>5. x \in Int /\ k = x % 7 /\ k \in 0..6 /\ (x - k) % 7 = 0 /\ (x - k - 7) % 7 = 0
    BY <1>1, <1>2, <1>3, <1>4 DEF Weekday
<1>6. d - k + FirstWeekday = x - k /\ d - k - 7 + FirstWeekday = x - k - 7
    BY <1>1, <1>5
<1>7. (d - k + FirstWeekday) % 7 = 0 /\ (d - k - 7 + FirstWeekday) % 7 = 0
    BY <1>5, <1>6
<1> QED BY <1>5, <1>7 DEF Weekday

\* In UTC the clocks show the time.
LEMMA UtcShowsTheTime ==
    ASSUME NEW t \in Int
    PROVE  Wall(Utc, t) = t /\ AtWall(Utc, t, 0) = t
BY DEF Utc, Wall, UtcOffset, AtWall

\* A question is asked on a day of the calendar, and not in its first year.
LEMMA TheCalendarHoldsNow ==
    ASSUME NEW t \in Nows
    PROVE  /\ t \in Nat /\ Years \in Nat \ {0} /\ MonthStart[12 * Years] \in Nat
           /\ Day(t) \in Nat /\ Day(t) \in 0..(MonthStart[12 * Years] - 1)
           /\ MonthOf[Day(t)] \in Months /\ MonthOf[Day(t)] >= 12
           /\ MonthStart[MonthOf[Day(t)]] <= Day(t) /\ Day(t) < MonthStart[MonthOf[Day(t)] + 1]
<1>1. t \in Nat /\ Years \in Nat /\ MonthStart[12] < Day(t) /\ Day(t) + 1 < MonthStart[12 * Years]
    BY DateRangesAssumption, CalendarAssumption
<1>2. Day(t) \in Nat
    BY <1>1 DEF Day
<1>3. Years # 0
    <2> SUFFICES ASSUME Years = 0 PROVE FALSE
        OBVIOUS
    <2>1. MonthStart[12 * 0 + 0] = 365 * 0 + LeapsBefore(0) + DaysBefore[0 + 1]
                          + (IF 0 >= 2 /\ 0 \in LeapYears THEN 1 ELSE 0)
        BY FirstOfMonth
    <2>2. LeapYears = {} /\ {l \in LeapYears : l < 0} = {}
        <3>1. LeapYears \subseteq 0..(0 - 1)
            BY DateRangesAssumption
        <3>2. 0..(0 - 1) = {}
            OBVIOUS
        <3>3. LeapYears = {}
            BY <3>1, <3>2
        <3> QED BY <3>3
    <2>3. LeapsBefore(0) = 0
        BY <2>2, FS_EmptySet DEF LeapsBefore
    <2>4. MonthStart[12 * Years] = 0
        <3>1. 12 * 0 + 0 = 12 * Years
            OBVIOUS
        <3> QED BY <2>1, <2>3, <3>1, DaysOfAYear
    <2> QED BY <1>1, <1>2, <2>4
<1>4. 12 \in 0..(12 * Years) /\ 12 * Years \in 0..(12 * Years) /\ Months = 0..(12 * Years - 1)
    BY <1>1, <1>3 DEF Months
<1>5. MonthStart[12 * Years] \in Nat /\ MonthStart[12] \in Nat
    <2>1. 0 \in 0..(12 * Years) /\ 0 < 12 * Years /\ 0 < 12
        BY <1>1, <1>3
    <2> QED BY <2>1, <1>4, MonthsAscend
<1>6. Day(t) \in 0..(MonthStart[12 * Years] - 1)
    BY <1>1, <1>2, <1>5
<1> DEFINE d == Day(t)
           m == MonthOf[d]
<1>7. m \in Months /\ MonthStart[m] <= d /\ d < MonthStart[m + 1]
    BY <1>3, <1>6, DayIsOfAMonth
<1>8. m >= 12
    <2> SUFFICES ASSUME m < 12 PROVE FALSE
        BY <1>4, <1>7
    <2>1. m + 1 \in 0..(12 * Years) /\ m + 1 <= 12
        BY <1>1, <1>4, <1>7
    <2>2. MonthStart[m + 1] \in Nat /\ MonthStart[m + 1] <= MonthStart[12]
        <3>1. CASE m + 1 < 12
            BY <2>1, <3>1, <1>4, MonthsAscend
        <3>2. CASE m + 1 = 12
            BY <3>2, <1>5
        <3> QED BY <2>1, <3>1, <3>2
    <2> QED BY <1>1, <1>2, <1>5, <1>7, <2>2
<1> QED BY <1>1, <1>2, <1>3, <1>5, <1>6, <1>7, <1>8

\* A day that lies between the ends of a month is of it.
LEMMA DaysOfTheMonth ==
    ASSUME Years \in Nat \ {0}, NEW m \in Months, NEW d \in Int,
           MonthStart[m] <= d, d < MonthStart[m + 1]
    PROVE  d \in 0..(MonthStart[12 * Years] - 1) /\ MonthOf[d] = m
<1>1. m \in Nat /\ m + 1 \in 0..(12 * Years) /\ 12 * Years \in 0..(12 * Years) /\ m + 1 <= 12 * Years
    BY DEF Months
<1>2. MonthStart[m] \in Nat /\ MonthStart[m + 1] \in Nat
    BY MonthsFollow
<1>3. MonthStart[12 * Years] \in Nat /\ MonthStart[m + 1] <= MonthStart[12 * Years]
    <2>1. CASE m + 1 < 12 * Years
        BY <1>1, <2>1, MonthsAscend
    <2>2. CASE m + 1 = 12 * Years
        BY <1>2, <2>2
    <2> QED BY <1>1, <2>1, <2>2
<1>4. d \in 0..(MonthStart[12 * Years] - 1)
    BY <1>2, <1>3
<1> QED BY <1>4, DayIsOfAMonth

\* What a page and the API answer for a preset, in UTC, over the time before t.
SameRange(p, t) ==
    LET page == ResolveDateRange(p, t)
        api == PresetRange(p, t, Utc)
    IN  /\ page.start \in Int /\ page.end \in Int
        /\ page.start = api.start /\ Least(page.end + 1, t) = Least(api.end, t)

\* A local day of UTC begins at its first hour.
LEMMA UtcDays ==
    ASSUME NEW d \in Int, NEW e \in Int
    PROVE  /\ LocalDay(Utc, d) = 24 * d
           /\ LocalDayRange(Utc, d, e) = DateRange(24 * d, 24 * e)
<1>1. \A x \in Int : Hour(x) = 24 * x /\ 24 * x \in Int
    BY DEF Hour
<1>2. LocalDay(Utc, d) = 24 * d /\ LocalDay(Utc, e) = 24 * e
    BY <1>1, UtcShowsTheTime DEF LocalDay
<1> QED BY <1>2 DEF LocalDayRange

\* The presets of so many hours or days until now.
LEMMA RollingPresetsAgree ==
    ASSUME NEW t \in Nows, NEW p \in DOMAIN HourPresets \cup DOMAIN DayPresets
    PROVE  SameRange(p, t)
<1>1. t \in Int
    BY DateRangesAssumption
<1>2. PICK d \in Int, h \in 0..23 : Day(t) = d /\ t = 24 * d + h
    BY <1>1, HourIsOfADay
<1>3. Wall(Utc, t) = t
    BY <1>1, UtcShowsTheTime
<1>4. CASE p \in DOMAIN HourPresets
    <2>1. ResolveDateRange(p, t) = DateRange(t - HourPresets[p], t)
        BY <1>4 DEF ResolveDateRange
    <2>2. PresetRange(p, t, Utc) = DateRange(t - HourPresets[p], t)
        BY <1>4 DEF PresetRange, HourPresets, DayPresets
    <2>3. t - HourPresets[p] \in Int
        BY <1>1, <1>4 DEF HourPresets
    <2> QED BY <1>1, <2>1, <2>2, <2>3 DEF SameRange, DateRange, Least
<1>5. CASE p \in DOMAIN DayPresets
    <2> DEFINE n == DayPresets[p]
    <2>1. n \in Nat /\ p \notin DOMAIN HourPresets
        BY <1>5 DEF DayPresets, HourPresets
    <2>2. ResolveDateRange(p, t) = DateRange(24 * d - 24 * n, 24 * d + 23)
        BY <1>2, <1>5, <2>1 DEF ResolveDateRange, StartOfDay, EndOfDay, Hour
    <2>3. PresetRange(p, t, Utc) = DateRange(LocalDay(Utc, d - n), t)
        BY <1>2, <1>3, <1>5, <2>1 DEF PresetRange, HourPresets, DayPresets
    <2>4. LocalDay(Utc, d - n) = 24 * (d - n)
        BY <2>1, UtcDays
    <2> HIDE DEF n
    <2>5. 24 * d - 24 * n = 24 * (d - n) /\ 24 * d + 24 > t
        BY <1>2, <2>1
    <2> QED BY <1>1, <1>2, <2>1, <2>2, <2>3, <2>4, <2>5 DEF SameRange, DateRange, Least
<1> QED BY <1>4, <1>5

\* The presets from the beginning of a period of the calendar until now.
LEMMA RunningPresetsAgree ==
    ASSUME NEW t \in Nows,
           NEW p \in {"today", "this_week", "this_month", "this_quarter", "this_year"}
    PROVE  SameRange(p, t)
<1>1. t \in Int
    BY DateRangesAssumption
<1> DEFINE d == Day(t)
           m == MonthOf[d]
<1>2. Wall(Utc, t) = t
    BY <1>1, UtcShowsTheTime
<1>3. d \in Nat /\ m \in Months /\ Years \in Nat /\ Months \subseteq Nat
    BY TheCalendarHoldsNow DEF Months
<1>4. Weekday(d) \in 0..6 /\ d - Weekday(d) \in Int
    BY <1>3, MondaysBegin
<1>5. \A i \in 0..m : MonthStart[i] \in Int
    <2> SUFFICES ASSUME NEW i \in 0..m PROVE MonthStart[i] \in Int
        OBVIOUS
    <2>1. i \in Months
        BY <1>3 DEF Months
    <2> QED BY <2>1, MonthsFollow
<1>6. QuarterMonth(m) \in 0..m /\ 12 * (m \div 12) \in 0..m
    <2>1. \A x \in Nat : (x \div 3) * 3 \in 0..x /\ 12 * (x \div 12) \in 0..x
        OBVIOUS
    <2> QED BY <1>3, <2>1 DEF QuarterMonth
<1>7. p \notin DOMAIN HourPresets /\ p \notin DOMAIN DayPresets
    BY DEF HourPresets, DayPresets
<1>8. ResolveDateRange(p, t) = CalendarRange(p, t)
    BY <1>7 DEF ResolveDateRange
<1>9. SameRange(p, t) <=> /\ CalendarRange(p, t).start \in Int /\ CalendarRange(p, t).end \in Int
                          /\ CalendarRange(p, t).start = PresetRange(p, t, Utc).start
                          /\ Least(CalendarRange(p, t).end + 1, t) = Least(PresetRange(p, t, Utc).end, t)
    BY <1>8 DEF SameRange
<1>10. ASSUME NEW x \in Int, NEW y \in Int, x = y,
              CalendarRange(p, t) = DateRange(x, t), PresetRange(p, t, Utc) = DateRange(y, t)
       PROVE  SameRange(p, t)
    BY <1>1, <1>9, <1>10 DEF DateRange, Least
<1>11. CASE p = "today"
    <2>1. CalendarRange(p, t) = DateRange(24 * d, t)
        BY <1>11 DEF CalendarRange, StartOfDay, Hour
    <2>2. PresetRange(p, t, Utc) = DateRange(24 * d, t)
        BY <1>2, <1>3, <1>7, <1>11, UtcDays DEF PresetRange
    <2> QED BY <1>3, <1>10, <2>1, <2>2
<1>12. CASE p = "this_week"
    <2>1. CalendarRange(p, t) = DateRange(24 * (d - Weekday(d)), t)
        BY <1>12 DEF CalendarRange, StartOfWeek, Hour
    <2>2. PresetRange(p, t, Utc) = DateRange(24 * (d - Weekday(d)), t)
        BY <1>2, <1>4, <1>7, <1>12, UtcDays DEF PresetRange
    <2> QED BY <1>4, <1>10, <2>1, <2>2
<1>13. CASE p = "this_month"
    <2>0. MonthStart[m] \in Int
        <3>1. m \in Months
            BY <1>3
        <3>2. MonthStart[m] \in Nat
            BY <3>1, MonthsFollow
        <3> QED BY <3>2
    <2>1. CalendarRange(p, t) = DateRange(24 * MonthStart[m], t)
        BY <1>13 DEF CalendarRange, StartOfMonth, Hour
    <2>2. PresetRange(p, t, Utc) = DateRange(24 * MonthStart[m], t)
        BY <1>2, <2>0, <1>7, <1>13, UtcDays DEF PresetRange
    <2> QED BY <1>10, <2>0, <2>1, <2>2
<1>14. CASE p = "this_quarter"
    <2>0. MonthStart[QuarterMonth(m)] \in Int
        BY <1>5, <1>6
    <2>1. CalendarRange(p, t) = DateRange(24 * MonthStart[QuarterMonth(m)], t)
        BY <1>14 DEF CalendarRange, StartOfQuarter, Hour
    <2>2. PresetRange(p, t, Utc) = DateRange(24 * MonthStart[QuarterMonth(m)], t)
        BY <1>2, <2>0, <1>7, <1>14, UtcDays DEF PresetRange
    <2> QED BY <1>10, <2>0, <2>1, <2>2
<1>15. CASE p = "this_year"
    <2>0. MonthStart[12 * (m \div 12)] \in Int
        BY <1>5, <1>6
    <2>1. CalendarRange(p, t) = DateRange(24 * MonthStart[12 * (m \div 12)], t)
        BY <1>15 DEF CalendarRange, StartOfYear, Hour
    <2>2. PresetRange(p, t, Utc) = DateRange(24 * MonthStart[12 * (m \div 12)], t)
        BY <1>2, <2>0, <1>7, <1>15, UtcDays DEF PresetRange
    <2> QED BY <1>10, <2>0, <2>1, <2>2
<1> QED BY <1>11, <1>12, <1>13, <1>14, <1>15

\* The presets of a period that is over: the page's last hour is the one before
\* the API's end.
LEMMA PastPresetsAgree ==
    ASSUME NEW t \in Nows, NEW p \in {"yesterday", "last_week", "last_month", "last_year"}
    PROVE  SameRange(p, t)
<1>1. t \in Int
    BY DateRangesAssumption
<1> DEFINE d == Day(t)
           m == MonthOf[d]
<1>2. Wall(Utc, t) = t
    BY <1>1, UtcShowsTheTime
<1>3. /\ d \in Nat /\ m \in Months /\ m >= 12 /\ Years \in Nat \ {0} /\ m \in Nat
      /\ MonthStart[m] <= d /\ d < MonthStart[m + 1] /\ m < 12 * Years
    BY TheCalendarHoldsNow DEF Months
<1>4. \A i \in 0..m : i \in Months /\ MonthStart[i] \in Int
    <2> SUFFICES ASSUME NEW i \in 0..m PROVE i \in Months /\ MonthStart[i] \in Int
        OBVIOUS
    <2>1. i \in Months
        BY <1>3 DEF Months
    <2> QED BY <2>1, MonthsFollow
<1>5. p \notin DOMAIN HourPresets /\ p \notin DOMAIN DayPresets
    BY DEF HourPresets, DayPresets
<1>6. ResolveDateRange(p, t) = CalendarRange(p, t)
    BY <1>5 DEF ResolveDateRange
<1>7. ASSUME NEW x \in Int, NEW e \in Int,
             CalendarRange(p, t) = DateRange(24 * x, 24 * e - 1),
             PresetRange(p, t, Utc) = DateRange(24 * x, 24 * e)
      PROVE  SameRange(p, t)
    <2>1. 24 * e - 1 + 1 = 24 * e /\ 24 * e - 1 \in Int /\ 24 * x \in Int
        BY <1>7
    <2> QED BY <1>6, <1>7, <2>1 DEF SameRange, DateRange
<1>8. CASE p = "yesterday"
    <2>0. PICK h \in 0..23 : t = 24 * d + h
        BY <1>1, HourIsOfADay
    <2>1. Day(t - 24) = d - 1
        <3>1. t - 24 = 24 * (d - 1) + h /\ d - 1 \in Int
            BY <1>3, <2>0
        <3> HIDE DEF d
        <3>2. Day(24 * (d - 1) + h) = d - 1
            BY <3>1, HoursOfADay
        <3> QED BY <3>1, <3>2
    <2>2. CalendarRange(p, t) = DateRange(24 * (d - 1), 24 * (d - 1) + 23)
        BY <1>8, <2>1 DEF CalendarRange, StartOfDay, EndOfDay, Hour
    <2>3. PresetRange(p, t, Utc) = DateRange(24 * (d - 1), 24 * d)
        BY <1>2, <1>3, <1>5, <1>8, UtcDays DEF PresetRange
    <2>4. 24 * (d - 1) + 23 = 24 * d - 1
        BY <1>3
    <2> QED BY <1>3, <1>7, <2>2, <2>3, <2>4
<1>9. CASE p = "last_week"
    <2> DEFINE w == d - Weekday(d)
               s == 24 * (w - 7)
    <2>1. w \in Int /\ Weekday(w - 7) = 0 /\ s \in Int
        BY <1>3, MondaysBegin
    <2>2. 24 * w - 7 * 24 = s
        BY <2>1
    <2>3. Day(s) = w - 7
        <3>1. w - 7 \in Int
            BY <2>1
        <3> QED BY <3>1, HoursOfADay
    <2>4. StartOfWeek(t) - 7 * 24 = s
        BY <2>2 DEF StartOfWeek, Hour
    <2>5. StartOfWeek(s) = s
        BY <2>1, <2>3 DEF StartOfWeek, Hour
    <2>6. EndOfWeek(StartOfWeek(t) - 7 * 24) = s + 6 * 24 + 23
        BY <2>4, <2>5 DEF EndOfWeek
    <2>7. CalendarRange(p, t) = DateRange(s, s + 6 * 24 + 23)
        BY <1>9, <2>4, <2>6 DEF CalendarRange
    <2>8. PresetRange(p, t, Utc) = DateRange(24 * (w - 7), 24 * w)
        BY <1>2, <2>1, <1>5, <1>9, UtcDays DEF PresetRange
    <2>9. s + 6 * 24 + 23 = 24 * w - 1
        BY <2>1
    <2> QED BY <2>1, <1>7, <2>7, <2>8, <2>9
<1>10. CASE p = "last_month"
    <2> DEFINE a == MonthStart[m]
               b == MonthStart[m - 1]
               s == 24 * (a - 1)
    <2>1. m - 1 \in 0..m /\ m \in 0..m /\ m - 1 + 1 = m
        BY <1>3
    <2>2. /\ a \in Int /\ b \in Int /\ m - 1 \in Months
          /\ a = b + MonthLength(m - 1) /\ MonthLength(m - 1) \in 28..31
        <3>1. a \in Int /\ b \in Int /\ m - 1 \in Months
            BY <1>4, <2>1
        <3> QED BY <2>1, <3>1, MonthsFollow
    <2>3. Day(s) = a - 1
        <3>1. a - 1 \in Int
            BY <2>2
        <3> HIDE DEF a
        <3> QED BY <3>1, HoursOfADay
    <2>4. MonthOf[a - 1] = m - 1
        <3>1. b <= a - 1 /\ a - 1 < MonthStart[m - 1 + 1] /\ a - 1 \in Int
            BY <2>1, <2>2
        <3> QED BY <1>3, <2>2, <3>1, DaysOfTheMonth
    <2>5. StartOfMonth(t) - 24 = s
        BY <2>2 DEF StartOfMonth, Hour
    <2>6. StartOfMonth(s) = 24 * b
        BY <2>3, <2>4 DEF StartOfMonth, Hour
    <2>7. EndOfMonth(s) = 24 * (a - 1) + 23
        BY <2>1, <2>3, <2>4, <2>2 DEF EndOfMonth, EndOfDay, StartOfDay, Hour
    <2>8. CalendarRange(p, t) = DateRange(24 * b, 24 * (a - 1) + 23)
        BY <1>10, <2>5, <2>6, <2>7 DEF CalendarRange
    <2>9. PresetRange(p, t, Utc) = DateRange(24 * b, 24 * a)
        BY <1>2, <2>2, <1>5, <1>10, UtcDays DEF PresetRange
    <2>10. 24 * (a - 1) + 23 = 24 * a - 1
        BY <2>2
    <2> QED BY <2>2, <1>7, <2>8, <2>9, <2>10
<1>11. CASE p = "last_year"
    <2> DEFINE n == m - 12
               k == Least(d - MonthStart[m], MonthLength(n) - 1)
               s == ShiftYear(t, -1)
               y == 12 * (m \div 12)
    <2>1. n \in 0..m /\ m + 12 * (-1) = n
        BY <1>3
    <2>2. n \in Months /\ MonthStart[n] \in Nat /\ MonthStart[m] \in Nat
          /\ MonthStart[n + 1] = MonthStart[n] + MonthLength(n) /\ MonthLength(n) \in 28..31
        <3>1. n \in Months
            BY <1>4, <2>1
        <3> QED BY <1>3, <3>1, MonthsFollow
    <2>3. k \in Nat /\ k < MonthLength(n)
        BY <1>3, <2>2 DEF Least
    <2>4. s = 24 * (MonthStart[n] + k) + (t % 24) /\ t % 24 \in 0..23
        <3>1. t % 24 \in 0..23
            BY <1>1
        <3>2. s = Hour(MonthStart[n] + k) + (t % 24)
            BY <2>1 DEF ShiftYear
        <3> QED BY <3>1, <3>2 DEF Hour
    <2>5. Day(s) = MonthStart[n] + k
        <3>1. MonthStart[n] + k \in Int
            BY <2>2, <2>3
        <3>2. Day(24 * (MonthStart[n] + k) + (t % 24)) = MonthStart[n] + k
            BY <2>4, <3>1, HoursOfADay
        <3> QED BY <2>4, <3>2
    <2>6. MonthOf[Day(s)] = n
        <3>1. MonthStart[n] + k \in Int /\ MonthStart[n] <= MonthStart[n] + k /\ MonthStart[n] + k < MonthStart[n + 1]
            BY <2>2, <2>3
        <3> QED BY <1>3, <2>2, <2>5, <3>1, DaysOfTheMonth
    <2>7. 12 * (n \div 12) = y - 12 /\ y \in 0..m /\ y - 12 \in 0..m /\ y - 12 + 12 = y
        <3>1. PICK q \in Nat, r \in 0..11 : m \div 12 = q /\ m = 12 * q + r
            BY <1>3, MonthIsOfAYear
        <3>2. q >= 1 /\ n = 12 * (q - 1) + r /\ q - 1 \in Nat
            BY <1>3, <3>1
        <3>3. n \div 12 = q - 1
            BY <3>2, MonthOfAYear
        <3>4. y = 12 * q /\ 12 * (q - 1) = 12 * q - 12 /\ 12 * q \in 0..m /\ 12 * q - 12 \in 0..m
              /\ 12 * q - 12 + 12 = 12 * q
            BY <1>3, <3>1, <3>2
        <3> QED BY <3>3, <3>4
    <2>8. MonthStart[y] \in Int /\ MonthStart[y - 12] \in Int
        BY <1>4, <2>7
    <2>9. StartOfYear(s) = 24 * MonthStart[y - 12] /\ EndOfYear(s) = 24 * MonthStart[y] - 1
        BY <2>6, <2>7 DEF StartOfYear, EndOfYear, Hour
    <2>10. CalendarRange(p, t) = DateRange(24 * MonthStart[y - 12], 24 * MonthStart[y] - 1)
        BY <1>11, <2>9 DEF CalendarRange
    <2>11. PresetRange(p, t, Utc) = DateRange(24 * MonthStart[y - 12], 24 * MonthStart[y])
        BY <1>2, <2>8, <1>5, <1>11, UtcDays DEF PresetRange
    <2> QED BY <2>8, <1>7, <2>10, <2>11
<1> QED BY <1>8, <1>9, <1>10, <1>11

\* Every preset but last_quarter.
LEMMA AllPresetsAgree ==
    ASSUME NEW t \in Nows, NEW p \in Presets, p # "last_quarter"
    PROVE  SameRange(p, t)
<1>1. \/ p \in DOMAIN HourPresets \cup DOMAIN DayPresets
      \/ p \in {"today", "this_week", "this_month", "this_quarter", "this_year"}
      \/ p \in {"yesterday", "last_week", "last_month", "last_year"}
    BY DEF Presets, CalendarPresets
<1> QED BY <1>1, RollingPresetsAgree, RunningPresetsAgree, PastPresetsAgree

\* A clock runs through every hour between its changes: the instant is found
\* again from what it showed, the earlier of the two if there were two.
LEMMA ClocksAreRead ==
    ASSUME NEW z \in Zones, NEW t \in Int
    PROVE  /\ Wall(z, t) \in Int /\ Wall(z, t) \in (t - 12)..(t + 15)
           /\ AtWall(z, Wall(z, t), Fold(z, t)) = t
           /\ AtWall(z, Wall(z, t), 0) \in Int /\ AtWall(z, Wall(z, t), 0) <= t
           /\ Wall(z, AtWall(z, Wall(z, t), 0)) = Wall(z, t)
<1> DEFINE b == z.base
           f == z.from
           e == z.to
<1>1. b \in (-12)..14 /\ f \in Int /\ e \in Int /\ (f = e \/ f + 32 * 24 < e)
    BY DateRangesAssumption
<1>2. /\ \A x \in Int : Wall(z, x) = IF f <= x /\ x < e THEN x + (b + 1) ELSE x + b
      /\ Fold(z, t) = IF e <= t /\ t < e + 1 THEN 1 ELSE 0
      /\ \A w, k \in Int : AtWall(z, w, k) =
            IF f + b + (1 - k) <= w /\ w < e + b + (1 - k) THEN w - (b + 1) ELSE w - b
    BY DEF Wall, UtcOffset, Fold, AtWall
<1> HIDE DEF b, f, e
<1>3. Wall(z, t) \in Int /\ Wall(z, t) \in (t - 12)..(t + 15)
    BY <1>1, <1>2
<1>4. CASE f <= t /\ t < e
    BY <1>1, <1>2, <1>3, <1>4
<1>5. CASE t < f
    BY <1>1, <1>2, <1>3, <1>5
<1>6. CASE f <= t /\ e <= t /\ t < e + 1
    <2>1. t = e /\ Wall(z, t) = t + b /\ Fold(z, t) = 1
        BY <1>1, <1>2, <1>6
    <2>2. AtWall(z, t + b, 1) = t
        BY <1>1, <1>2, <2>1
    <2>3. CASE f = e
        <3>1. AtWall(z, t + b, 0) = t
            BY <1>1, <1>2, <2>1, <2>3
        <3> QED BY <1>3, <2>1, <2>2, <3>1
    <2>4. CASE f + 32 * 24 < e
        <3>1. AtWall(z, t + b, 0) = t - 1
            BY <1>1, <1>2, <2>1, <2>4
        <3>2. Wall(z, t - 1) = t + b
            BY <1>1, <1>2, <2>1, <2>4
        <3> QED BY <1>3, <2>1, <2>2, <3>1, <3>2
    <2> QED BY <1>1, <2>3, <2>4
<1>7. CASE f <= t /\ e + 1 <= t
    BY <1>1, <1>2, <1>3, <1>7
<1> QED BY <1>1, <1>4, <1>5, <1>6, <1>7

\* An earlier reading of the clock is of an earlier instant.  It shows that
\* reading, or the clocks were put forward over it just before.
LEMMA EarlierReadings ==
    ASSUME NEW z \in Zones, NEW t \in Int, NEW w \in Int, w < Wall(z, t)
    PROVE  /\ \A k \in 0..1 : AtWall(z, w, k) \in Int /\ AtWall(z, w, k) <= t
           /\ \/ Wall(z, AtWall(z, w, 0)) = w
              \/ Wall(z, AtWall(z, w, 0)) = w + 1 /\ Wall(z, AtWall(z, w, 0) - 1) = w - 1
           /\ Fold(z, t) = 1 /\ Wall(z, t) < w + 32 * 24 => Wall(z, AtWall(z, w, 1)) = w
<1> DEFINE b == z.base
           f == z.from
           e == z.to
<1>1. b \in (-12)..14 /\ f \in Int /\ e \in Int /\ (f = e \/ f + 32 * 24 < e)
    BY DateRangesAssumption
<1>2. /\ \A x \in Int : Wall(z, x) = IF f <= x /\ x < e THEN x + (b + 1) ELSE x + b
      /\ Fold(z, t) = IF e <= t /\ t < e + 1 THEN 1 ELSE 0
      /\ \A x, k \in Int : AtWall(z, x, k) =
            IF f + b + (1 - k) <= x /\ x < e + b + (1 - k) THEN x - (b + 1) ELSE x - b
    BY DEF Wall, UtcOffset, Fold, AtWall
<1> HIDE DEF b, f, e
<1>3. \A k \in 0..1 : AtWall(z, w, k) \in {w - b, w - b - 1}
    BY <1>1, <1>2
<1>4. Wall(z, t) \in {t + b, t + b + 1}
    BY <1>1, <1>2
<1>5. \A k \in 0..1 : AtWall(z, w, k) \in Int /\ AtWall(z, w, k) <= t
    BY <1>1, <1>3, <1>4
<1>6. \/ Wall(z, AtWall(z, w, 0)) = w
      \/ Wall(z, AtWall(z, w, 0)) = w + 1 /\ Wall(z, AtWall(z, w, 0) - 1) = w - 1
    <2>1. CASE f + b + 1 <= w /\ w < e + b + 1
        <3>1. AtWall(z, w, 0) = w - b - 1
            BY <1>1, <1>2, <2>1
        <3>2. f <= w - b - 1 /\ w - b - 1 < e /\ w - b - 1 \in Int
            BY <1>1, <2>1
        <3> QED BY <1>1, <1>2, <3>1, <3>2
    <2>2. CASE ~(f + b + 1 <= w /\ w < e + b + 1)
        <3>1. AtWall(z, w, 0) = w - b
            BY <1>1, <1>2, <2>2
        <3>2. CASE f <= w - b /\ w - b < e
            <4>1. w - b = f /\ Wall(z, w - b) = w + 1
                BY <1>1, <1>2, <2>2, <3>2
            <4>2. Wall(z, w - b - 1) = w - 1
                BY <1>1, <1>2, <4>1
            <4> QED BY <3>1, <4>1, <4>2
        <3>3. CASE ~(f <= w - b /\ w - b < e)
            <4>1. Wall(z, w - b) = w
                BY <1>1, <1>2, <3>3
            <4> QED BY <3>1, <4>1
        <3> QED BY <3>2, <3>3
    <2> QED BY <2>1, <2>2
<1>7. ASSUME Fold(z, t) = 1, Wall(z, t) < w + 32 * 24
      PROVE  Wall(z, AtWall(z, w, 1)) = w
    <2>1. t = e /\ Wall(z, t) = e + b
        BY <1>1, <1>2, <1>7
    <2>2. CASE f = e
        <3>1. AtWall(z, w, 1) = w - b /\ Wall(z, w - b) = w
            BY <1>1, <1>2, <2>2
        <3> QED BY <3>1
    <2>3. CASE f + 32 * 24 < e
        <3>1. f + b + 1 <= w /\ w < e + b
            BY <1>1, <1>7, <2>1, <2>3
        <3>2. AtWall(z, w, 1) = w - b - 1
            BY <1>1, <1>2, <3>1
        <3>3. Wall(z, w - b - 1) = w
            BY <1>1, <1>2, <3>1
        <3> QED BY <3>2, <3>3
    <2> QED BY <1>1, <2>2, <2>3
<1> QED BY <1>5, <1>6, <1>7

\* A boundary is taken as the only instant that shows it.
LEMMA BoundariesAreTheOnlyOnes ==
    ASSUME NEW z \in Zones, NEW w \in Int, LocalizeStrict(z, w) # -1
    PROVE  /\ LocalizeStrict(z, w) \in Int /\ Wall(z, LocalizeStrict(z, w)) = w
           /\ {t \in (w - z.base - 1)..(w - z.base) : Wall(z, t) = w} = {LocalizeStrict(z, w)}
<1> DEFINE b == z.base
           f == z.from
           e == z.to
           c == w - b - 1
           d == w - b
           first == AtWall(z, w, 0)
           second == AtWall(z, w, 1)
<1>1. b \in (-12)..14 /\ f \in Int /\ e \in Int /\ (f = e \/ f + 32 * 24 < e)
    BY DateRangesAssumption
<1>2. /\ \A x \in Int : Wall(z, x) = IF f <= x /\ x < e THEN x + (b + 1) ELSE x + b
      /\ first = IF f + b + 1 <= w /\ w < e + b + 1 THEN c ELSE d
      /\ second = IF f + b <= w /\ w < e + b THEN c ELSE d
    BY <1>1 DEF Wall, UtcOffset, AtWall
<1>3. /\ c \in Int /\ d \in Int /\ d = c + 1
      /\ (w - z.base - 1)..(w - z.base) = {c, d}
    BY <1>1
<1>4. /\ ~(Wall(z, first) # w /\ Wall(z, second) # w)
      /\ ~(Wall(z, first) = w /\ Wall(z, second) = w /\ first # second)
      /\ Wall(z, first) = w => LocalizeStrict(z, w) = first
      /\ Wall(z, first) # w /\ Wall(z, second) = w => LocalizeStrict(z, w) = second
    BY DEF LocalizeStrict
<1> HIDE DEF b, f, e, c, d, first, second
<1>5. /\ Wall(z, c) = w <=> f <= c /\ c < e
      /\ Wall(z, d) = w <=> ~(f <= d /\ d < e)
    <2>1. c = w - b - 1 /\ d = w - b
        BY DEF c, d
    <2> QED BY <1>1, <1>2, <1>3, <2>1
<1>6. LocalizeStrict(z, w) \in {first, second} /\ Wall(z, LocalizeStrict(z, w)) = w
    BY <1>4
<1>7. first \in {c, d} /\ second \in {c, d}
    BY <1>2
<1>8. Wall(z, c) = w /\ Wall(z, d) = w => first = c /\ second = d
    <2>1. c = w - b - 1 /\ d = w - b
        BY DEF c, d
    <2> QED BY <1>1, <1>2, <1>3, <1>5, <2>1
<1>9. ~(Wall(z, c) = w /\ Wall(z, d) = w)
    BY <1>3, <1>4, <1>8
<1>10. \A t \in {c, d} : Wall(z, t) = w => t = LocalizeStrict(z, w)
    BY <1>6, <1>7, <1>9
<1>11. {t \in {c, d} : Wall(z, t) = w} = {LocalizeStrict(z, w)}
    BY <1>6, <1>7, <1>10
<1> QED BY <1>3, <1>6, <1>7, <1>11

\* A reading of the clock lies in its bucket, which begins a month before it at
\* most and is the bucket of its own first hour, and of the one after that if
\* the reading is later.
LEMMA BucketsHold ==
    ASSUME Years \in Nat \ {0}, NEW w \in Int, Day(w) \in 0..(MonthStart[12 * Years] - 1),
           NEW g \in Granularities
    PROVE  /\ Floor(w, g) \in Int /\ Floor(w, g) <= w /\ w < Floor(w, g) + 31 * 24
           /\ Floor(Floor(w, g), g) = Floor(w, g)
           /\ Floor(w, g) < w => Floor(Floor(w, g) + 1, g) = Floor(w, g)
<1>1. PICK d \in Int, h \in 0..23 : Day(w) = d /\ w = 24 * d + h
    BY HourIsOfADay
<1>2. ASSUME NEW x \in Int, x <= d, d < x + 31, Floor(w, g) = 24 * x,
             \A u \in Int : Day(u) = x => Floor(u, g) = 24 * x
      PROVE  /\ Floor(w, g) \in Int /\ Floor(w, g) <= w /\ w < Floor(w, g) + 31 * 24
             /\ Floor(Floor(w, g), g) = Floor(w, g)
             /\ Floor(w, g) < w => Floor(Floor(w, g) + 1, g) = Floor(w, g)
    <2>1. 24 * x \in Int /\ 24 * x + 1 \in Int /\ 24 * x <= w /\ w < 24 * x + 31 * 24
        BY <1>1, <1>2
    <2>2. Day(24 * x) = x /\ Day(24 * x + 1) = x
        <3>1. 0 \in 0..23 /\ 1 \in 0..23
            OBVIOUS
        <3> QED BY <3>1, HoursOfADay
    <2> QED BY <1>2, <2>1, <2>2
<1>3. CASE g \in {"minute", "hour"}
    <2>1. \A u \in Int : Floor(u, g) = u
        BY <1>3 DEF Floor
    <2> QED BY <2>1
<1>4. CASE g = "day"
    <2>1. \A u \in Int : Floor(u, g) = 24 * Day(u)
        BY <1>4 DEF Floor, Hour
    <2>2. Floor(w, g) = 24 * d /\ \A u \in Int : Day(u) = d => Floor(u, g) = 24 * d
        BY <1>1, <2>1
    <2> QED BY <1>2, <2>2
<1>5. CASE g = "week"
    <2> DEFINE x == d - Weekday(d)
    <2>1. x \in Int /\ Weekday(d) \in 0..6 /\ Weekday(x) = 0
        BY MondaysBegin
    <2>2. \A u \in Int : Floor(u, g) = 24 * (Day(u) - Weekday(Day(u)))
        BY <1>5 DEF Floor, Hour
    <2>3. Floor(w, g) = 24 * x
        BY <1>1, <2>2
    <2>4. \A u \in Int : Day(u) = x => Floor(u, g) = 24 * x
        <3>1. x - 0 = x
            BY <2>1
        <3> HIDE DEF x
        <3> QED BY <2>1, <2>2, <3>1
    <2>5. x <= d /\ d < x + 31
        BY <2>1
    <2> HIDE DEF x
    <2> QED BY <1>2, <2>1, <2>3, <2>4, <2>5
<1>6. CASE g = "month"
    <2> DEFINE m == MonthOf[d]
               x == MonthStart[m]
    <2>1. m \in Months /\ x <= d /\ d < MonthStart[m + 1]
        BY <1>1, DayIsOfAMonth
    <2>2. x \in Nat /\ MonthStart[m + 1] = x + MonthLength(m) /\ MonthLength(m) \in 28..31
        BY <2>1, MonthsFollow
    <2>3. MonthOf[x] = m
        <3>1. x \in Int /\ x <= x /\ x < MonthStart[m + 1]
            BY <2>2
        <3> QED BY <2>1, <3>1, DaysOfTheMonth
    <2>4. \A u \in Int : Floor(u, g) = 24 * MonthStart[MonthOf[Day(u)]]
        BY <1>6 DEF Floor, Hour
    <2>5. Floor(w, g) = 24 * x
        BY <1>1, <2>4
    <2>6. \A u \in Int : Day(u) = x => Floor(u, g) = 24 * x
        BY <2>3, <2>4
    <2>7. x \in Int /\ x <= d /\ d < x + 31
        BY <2>1, <2>2
    <2> HIDE DEF m, x
    <2> QED BY <1>2, <2>5, <2>6, <2>7
<1> QED BY <1>3, <1>4, <1>5, <1>6 DEF Granularities

\* Where a bucket of the zone's calendar begins, by the clock at e.
BucketBegins(z, e, g) ==
    \/ Wall(z, e) = Floor(Wall(z, e), g)
    \/ Wall(z, e - 1) < Floor(Wall(z, e), g)

\* The beginning of the bucket an instant is in is one, and is not later.
LEMMA BucketsBegin ==
    ASSUME Years \in Nat \ {0}, NEW z \in Zones, NEW t \in Int, NEW g \in Granularities,
           Day(Wall(z, t)) \in 0..(MonthStart[12 * Years] - 1)
    PROVE  /\ FloorInstant(z, t, g) \in Int /\ FloorInstant(z, t, g) <= t
           /\ BucketBegins(z, FloorInstant(z, t, g), g)
<1> DEFINE w == Wall(z, t)
           s == Floor(w, g)
           k == IF g = "week" THEN 0 ELSE Fold(z, t)
           c == FloorInstant(z, t, g)
<1>1. /\ w \in Int
      /\ AtWall(z, w, Fold(z, t)) = t
      /\ AtWall(z, w, 0) \in Int /\ AtWall(z, w, 0) <= t /\ Wall(z, AtWall(z, w, 0)) = w
    BY ClocksAreRead
<1>2. /\ s \in Int /\ s <= w /\ w < s + 31 * 24 /\ Floor(s, g) = s
      /\ s < w => Floor(s + 1, g) = s
    BY <1>1, BucketsHold
<1>3. c = AtWall(z, s, k)
    BY DEF FloorInstant
<1>4. k \in 0..1 /\ (k = 1 => Fold(z, t) = 1) /\ (k = 0 \/ k = Fold(z, t))
    BY DEF Fold
<1>5. CASE s = w
    <2>1. c \in Int /\ c <= t /\ Wall(z, c) = w
        <3>1. CASE k = 0
            BY <1>1, <1>3, <1>5, <3>1
        <3>2. CASE k = Fold(z, t)
            <4>1. c = t
                BY <1>1, <1>3, <1>5, <3>2
            <4> QED BY <4>1
        <3> QED BY <1>4, <3>1, <3>2
    <2> QED BY <1>2, <1>5, <2>1 DEF BucketBegins
<1>6. CASE s < w
    <2>1. /\ c \in Int /\ c <= t
          /\ \/ Wall(z, AtWall(z, s, 0)) = s
             \/ Wall(z, AtWall(z, s, 0)) = s + 1 /\ Wall(z, AtWall(z, s, 0) - 1) = s - 1
          /\ Fold(z, t) = 1 => Wall(z, AtWall(z, s, 1)) = s
        <3>1. w < s + 32 * 24
            BY <1>1, <1>2
        <3> HIDE DEF s, k, c
        <3> QED BY <1>2, <1>3, <1>4, <1>6, <3>1, EarlierReadings
    <2>2. \/ Wall(z, c) = s
          \/ Wall(z, c) = s + 1 /\ Wall(z, c - 1) = s - 1
        <3>1. CASE k = 0
            BY <1>3, <2>1, <3>1
        <3>2. CASE k = 1
            BY <1>3, <1>4, <2>1, <3>2
        <3> QED BY <1>4, <3>1, <3>2
    <2>3. BucketBegins(z, c, g)
        <3>1. CASE Wall(z, c) = s
            BY <1>2, <3>1 DEF BucketBegins
        <3>2. CASE Wall(z, c) = s + 1 /\ Wall(z, c - 1) = s - 1
            <4>1. Floor(Wall(z, c), g) = s /\ s - 1 < s
                BY <1>2, <1>6, <3>2
            <4> QED BY <3>2, <4>1 DEF BucketBegins
        <3> QED BY <2>2, <3>1, <3>2
    <2> QED BY <2>1, <2>3
<1> QED BY <1>1, <1>2, <1>5, <1>6

\* A local day begins at its first hour, or at the next if there is none.
LEMMA LocalDaysBegin ==
    ASSUME NEW z \in Zones, NEW d \in Int
    PROVE  LocalDay(z, d) \in Int /\ Day(Wall(z, LocalDay(z, d))) = d
<1> DEFINE t == 24 * d + 20
           w == 24 * d
<1>1. t \in Int /\ w \in Int /\ w < Wall(z, t)
    <2>1. t \in Int /\ w \in Int /\ t - 12 > w
        OBVIOUS
    <2>2. Wall(z, t) \in (t - 12)..(t + 15)
        BY <2>1, ClocksAreRead
    <2> HIDE DEF t, w
    <2> QED BY <2>1, <2>2
<1>2. LocalDay(z, d) = AtWall(z, w, 0)
    BY DEF LocalDay, Hour
<1> HIDE DEF t
<1>3. AtWall(z, w, 0) \in Int /\ Wall(z, AtWall(z, w, 0)) \in {w, w + 1}
    <2>1. 0 \in 0..1
        OBVIOUS
    <2> HIDE DEF w
    <2> QED BY <1>1, <2>1, EarlierReadings
<1>4. Day(w) = d /\ Day(w + 1) = d
    <2>1. 0 \in 0..23 /\ 1 \in 0..23
        OBVIOUS
    <2> QED BY <2>1, HoursOfADay
<1> QED BY <1>2, <1>3, <1>4

\* A date is taken as the one instant its day begins at.
LEMMA DaysBeginOnce ==
    ASSUME NEW z \in Zones, NEW d \in Int
    PROVE  /\ LocalDay(z, d) \in (24 * d - z.base - 1)..(24 * d - z.base)
           /\ {u \in (24 * d - z.base - 1)..(24 * d - z.base) :
                  Day(Wall(z, u)) = d /\ Day(Wall(z, u - 1)) < d} = {LocalDay(z, d)}
<1> DEFINE b == z.base
           f == z.from
           e == z.to
           w == 24 * d
           early == w - b - 1
           late == w - b
           Begins(u) == Day(Wall(z, u)) = d /\ Day(Wall(z, u - 1)) < d
<1>1. b \in (-12)..14 /\ f \in Int /\ e \in Int /\ w \in Int
    BY DateRangesAssumption
<1>2. /\ \A x \in Int : Wall(z, x) = IF f <= x /\ x < e THEN x + (b + 1) ELSE x + b
      /\ LocalDay(z, d) = IF f + b + 1 <= w /\ w < e + b + 1 THEN early ELSE late
    BY <1>1 DEF Wall, UtcOffset, AtWall, LocalDay, Hour
<1>3. /\ early \in Int /\ late \in Int /\ late - 1 = early /\ early - 1 \in Int
      /\ (24 * d - z.base - 1)..(24 * d - z.base) = {early, late}
    BY <1>1
<1>4. /\ Day(w) = d /\ Day(w + 1) = d /\ Day(w - 1) < d /\ Day(w - 2) < d
    <2>1. 0 \in 0..23 /\ 1 \in 0..23 /\ 23 \in 0..23 /\ 22 \in 0..23 /\ d - 1 \in Int
        OBVIOUS
    <2>2. Day(24 * (d - 1) + 23) = d - 1 /\ Day(24 * (d - 1) + 22) = d - 1
        BY <2>1, HoursOfADay
    <2>3. Day(24 * d + 0) = d /\ Day(24 * d + 1) = d
        BY <2>1, HoursOfADay
    <2>4. /\ 24 * d + 0 = w /\ 24 * d + 1 = w + 1
          /\ 24 * (d - 1) + 23 = w - 1 /\ 24 * (d - 1) + 22 = w - 2 /\ d - 1 < d
        OBVIOUS
    <2> HIDE DEF w
    <2> QED BY <2>2, <2>3, <2>4
<1>5. /\ f <= early /\ early < e <=> f + b + 1 <= w /\ w < e + b + 1
      /\ Wall(z, early) = IF f <= early /\ early < e THEN w ELSE w - 1
      /\ Wall(z, early - 1) \in {w - 1, w - 2}
      /\ Wall(z, late) \in {w, w + 1}
    BY <1>1, <1>2, <1>3
<1> HIDE DEF b, f, e, w, early, late
<1>6. CASE f <= early /\ early < e
    <2>1. LocalDay(z, d) = early /\ Wall(z, early) = w
        BY <1>2, <1>5, <1>6
    <2>2. Begins(early) /\ ~Begins(late)
        BY <1>1, <1>3, <1>4, <1>5, <2>1
    <2> QED BY <1>3, <2>1, <2>2
<1>7. CASE ~(f <= early /\ early < e)
    <2>1. LocalDay(z, d) = late /\ Wall(z, early) = w - 1
        BY <1>2, <1>5, <1>7
    <2>2. Begins(late) /\ ~Begins(early)
        BY <1>1, <1>3, <1>4, <1>5, <2>1
    <2> QED BY <1>3, <2>1, <2>2
<1> QED BY <1>6, <1>7

\* Whatever way a boundary is written, it is taken as the one instant it can be,
\* and its zone's clocks show a day of the calendar then.
LEMMA BoundariesAreExact ==
    ASSUME NEW z \in Zones, NEW b \in Explicit, ParseBoundary(z, b) # -1,
           MonthStart[12 * Years] \in Nat
    PROVE  /\ ParseBoundary(z, b) \in Int /\ ParseBoundary(z, b) \in Possible(z, b)
           /\ OnlyInstant(z, b, ParseBoundary(z, b))
           /\ Day(Wall(z, ParseBoundary(z, b))) \in 0..(MonthStart[12 * Years] - 1)
<1> DEFINE t == ParseBoundary(z, b)
           last == MonthStart[12 * Years]
<1>1. b.kind \in {"date", "local", "offset"} /\ b.at \in Nat
      /\ (b.kind = "date" => b.at % 24 = 0)
      /\ 0 < Day(b.at) /\ Day(b.at) + 1 < last /\ last \in Nat /\ z.base \in (-12)..14
    BY DateRangesAssumption, CalendarAssumption DEF Boundary
<1>2. PICK d \in Int, h \in 0..23 : Day(b.at) = d /\ b.at % 24 = h /\ b.at = 24 * d + h
    BY <1>1, HourIsOfADay
<1>3. d \in 0..(last - 1)
    BY <1>1, <1>2
<1>4. CASE b.kind = "date"
    <2>1. t = LocalDay(z, d) /\ b.at = 24 * d
        BY <1>1, <1>2, <1>4 DEF ParseBoundary
    <2>2. Possible(z, b) = (24 * d - z.base - 1)..(24 * d - z.base)
        BY <1>4, <2>1 DEF Possible
    <2>3. \A u \in Possible(z, b) :
             StandsFor(z, b, u) <=> Day(Wall(z, u)) = d /\ Day(Wall(z, u - 1)) < d
        BY <1>2, <1>4 DEF StandsFor
    <2>4. /\ LocalDay(z, d) \in Possible(z, b)
          /\ {u \in Possible(z, b) : Day(Wall(z, u)) = d /\ Day(Wall(z, u - 1)) < d} = {LocalDay(z, d)}
        BY <2>2, DaysBeginOnce
    <2>5. LocalDay(z, d) \in Int /\ Day(Wall(z, LocalDay(z, d))) = d
        BY LocalDaysBegin
    <2> HIDE DEF t, last
    <2> QED BY <1>3, <2>1, <2>3, <2>4, <2>5 DEF OnlyInstant, t, last
<1>5. CASE b.kind = "local"
    <2>1. t = LocalizeStrict(z, b.at) /\ t # -1 /\ b.at \in Int
        BY <1>1, <1>5 DEF ParseBoundary
    <2>2. /\ t \in Int /\ Wall(z, t) = b.at
          /\ {u \in (b.at - z.base - 1)..(b.at - z.base) : Wall(z, u) = b.at} = {t}
        BY <2>1, BoundariesAreTheOnlyOnes
    <2>3. Possible(z, b) = (b.at - z.base - 1)..(b.at - z.base)
        BY <1>5 DEF Possible
    <2>4. \A u \in Possible(z, b) : StandsFor(z, b, u) <=> Wall(z, u) = b.at
        BY <1>5 DEF StandsFor
    <2> HIDE DEF t, last
    <2>5. {u \in Possible(z, b) : StandsFor(z, b, u)} = {t}
        BY <2>2, <2>3, <2>4
    <2>6. t \in {u \in Possible(z, b) : StandsFor(z, b, u)}
        BY <2>5
    <2> QED BY <1>2, <1>3, <2>2, <2>5, <2>6 DEF OnlyInstant, t, last
<1>6. CASE b.kind = "offset"
    <2>1. t = b.at /\ Possible(z, b) = {b.at} /\ \A u \in {b.at} : StandsFor(z, b, u) <=> u = b.at
        BY <1>6 DEF ParseBoundary, Possible, StandsFor
    <2>2. OnlyInstant(z, b, t)
        BY <2>1 DEF OnlyInstant
    <2>3. Wall(z, b.at) \in (b.at - 12)..(b.at + 15)
        <3>1. b.at \in Int
            BY <1>1
        <3> QED BY <3>1, ClocksAreRead
    <2>4. PICK x \in Int, k \in 0..23 : Day(Wall(z, b.at)) = x /\ Wall(z, b.at) = 24 * x + k
        BY <1>1, <2>3, HourIsOfADay
    <2>5. x \in 0..(last - 1)
        <3>1. 24 * x + k >= 24 * d + h - 12 /\ 24 * x + k <= 24 * d + h + 15
            BY <1>1, <1>2, <2>3, <2>4
        <3>2. d - 1 <= x /\ x <= d + 1
            BY <1>2, <2>4, <3>1
        <3>3. 1 <= d /\ d + 1 < last
            BY <1>1, <1>2
        <3> HIDE DEF last
        <3> QED BY <1>1, <2>4, <3>2, <3>3 DEF last
    <2> HIDE DEF last
    <2> QED BY <1>1, <2>1, <2>2, <2>4, <2>5 DEF last
<1> HIDE DEF t, last
<1> QED BY <1>1, <1>4, <1>5, <1>6 DEF t, last

\* Today is in the calendar wherever one is, and not in its first year.
LEMMA TodayIsKnown ==
    ASSUME NEW z \in Zones, NEW t \in Nows
    PROVE  /\ Day(Wall(z, t)) \in 0..(MonthStart[12 * Years] - 1)
           /\ Day(Wall(z, t)) >= 365
           /\ MonthOf[Day(Wall(z, t))] \in Months /\ MonthOf[Day(Wall(z, t))] >= 12
<1> DEFINE last == MonthStart[12 * Years]
           w == Wall(z, t)
<1>1. t \in Int /\ Years \in Nat \ {0} /\ MonthStart[12] < Day(t) /\ Day(t) + 1 < last
    BY TheCalendarHoldsNow, CalendarAssumption
<1>2. MonthStart[12] \in Nat /\ MonthStart[12] >= 365 /\ last \in Nat
    <2>1. 12 * 1 + 0 = 12 /\ 12 <= 12 * Years /\ 1 \in Nat /\ 0 \in 0..11
        BY <1>1
    <2>2. MonthStart[12 * 1 + 0] = 365 * 1 + LeapsBefore(1) + DaysBefore[0 + 1]
                          + (IF 0 >= 2 /\ 1 \in LeapYears THEN 1 ELSE 0)
        BY <2>1, FirstOfMonth
    <2>3. LeapsBefore(1) \in Nat
        BY LeapsCounted
    <2>4. MonthStart[12] = 365 + LeapsBefore(1)
        BY <2>1, <2>2, <2>3, DaysOfAYear
    <2>5. last \in Nat
        <3>1. 0 \in 0..(12 * Years) /\ 12 * Years \in 0..(12 * Years) /\ 0 < 12 * Years
            BY <1>1
        <3> QED BY <3>1, MonthsAscend
    <2> QED BY <2>3, <2>4, <2>5
<1>3. w \in Int /\ w \in (t - 12)..(t + 15)
    BY <1>1, ClocksAreRead
<1>4. Day(w) \in Int /\ Day(w) \in (Day(t) - 1)..(Day(t) + 1)
    <2>1. PICK d \in Int, h \in 0..23 : Day(t) = d /\ t = 24 * d + h
        BY <1>1, HourIsOfADay
    <2>2. PICK e \in Int, k \in 0..23 : Day(w) = e /\ w = 24 * e + k
        BY <1>3, HourIsOfADay
    <2>3. 24 * e + k \in (24 * d + h - 12)..(24 * d + h + 15)
        BY <1>3, <2>1, <2>2
    <2>4. e \in (d - 1)..(d + 1)
        BY <2>3
    <2> QED BY <2>1, <2>2, <2>4
<1> DEFINE d == Day(w)
<1>5. Day(t) \in Int
    BY <1>1, HourIsOfADay
<1> HIDE DEF last, w
<1>6. d \in 0..(last - 1) /\ d >= 365 /\ d >= MonthStart[12]
    BY <1>1, <1>2, <1>4, <1>5
<1>7. MonthOf[d] \in Months /\ MonthStart[MonthOf[d]] <= d /\ d < MonthStart[MonthOf[d] + 1]
    BY <1>1, <1>6, DayIsOfAMonth DEF last
<1>8. MonthOf[d] >= 12
    <2> DEFINE m == MonthOf[d]
    <2> SUFFICES ASSUME m < 12 PROVE FALSE
        BY <1>1, <1>7 DEF Months
    <2>1. m \in Int /\ m + 1 \in 0..(12 * Years) /\ m + 1 <= 12 /\ 12 \in 0..(12 * Years)
        BY <1>1, <1>7 DEF Months
    <2>2. MonthStart[m + 1] \in Nat /\ MonthStart[m + 1] <= MonthStart[12]
        <3>1. CASE m + 1 < 12
            BY <2>1, <3>1, MonthsAscend
        <3>2. CASE m + 1 = 12
            BY <3>2, <1>2
        <3> QED BY <2>1, <3>1, <3>2
    <2> QED BY <1>2, <1>6, <1>7, <2>2
<1> QED BY <1>6, <1>7, <1>8 DEF last, w

\* What a preset asks for ends now or on a day of the calendar.
LEMMA PresetsEnd ==
    ASSUME NEW z \in Zones, NEW t \in Nows, NEW p \in Presets
    PROVE  /\ PresetRange(p, t, z).start \in Int /\ PresetRange(p, t, z).end \in Int
           /\ \/ PresetRange(p, t, z).end = t
              \/ Day(Wall(z, PresetRange(p, t, z).end)) \in 0..(MonthStart[12 * Years] - 1)
<1> DEFINE today == Day(Wall(z, t))
           last == MonthStart[12 * Years]
           week == today - Weekday(today)
           month == MonthOf[today]
           quarter == QuarterMonth(month)
           year == 12 * (month \div 12)
           r == PresetRange(p, t, z)
           Good == /\ r.start \in Int /\ r.end \in Int
                   /\ r.end = t \/ Day(Wall(z, r.end)) \in 0..(last - 1)
<1>1. /\ today \in 0..(last - 1) /\ today >= 365 /\ month \in Months /\ month >= 12
      /\ t \in Int /\ Years \in Nat \ {0} /\ Months \subseteq Nat /\ last \in Nat
    BY TodayIsKnown, TheCalendarHoldsNow DEF Months
<1>2. \A d \in Int : LocalDay(z, d) \in Int /\ Day(Wall(z, LocalDay(z, d))) = d
    BY LocalDaysBegin
<1>3. today \in Int /\ week \in Int /\ week \in 0..(last - 1)
    <2>1. today \in Int
        BY <1>1
    <2>2. Weekday(today) \in 0..6
        BY <2>1, MondaysBegin
    <2> HIDE DEF today, last
    <2> QED BY <1>1, <2>1, <2>2
<1>4. \A i \in 0..month : MonthStart[i] \in Int /\ MonthStart[i] \in 0..(last - 1)
    <2> SUFFICES ASSUME NEW i \in 0..month
                 PROVE  MonthStart[i] \in Int /\ MonthStart[i] \in 0..(last - 1)
        OBVIOUS
    <2>1. month \in Nat /\ month < 12 * Years
        BY <1>1 DEF Months
    <2>2. i \in 0..(12 * Years) /\ 12 * Years \in 0..(12 * Years) /\ i < 12 * Years
        BY <1>1, <2>1
    <2>3. MonthStart[i] \in Nat /\ last \in Nat /\ MonthStart[i] < last
        BY <2>2, MonthsAscend
    <2> QED BY <2>3
<1>5. /\ month \in 0..month /\ month - 1 \in 0..month
      /\ quarter \in 0..month /\ quarter - 3 \in 0..month
      /\ year \in 0..month /\ year - 12 \in 0..month
    <2>1. \A x \in Nat : x >= 12 => /\ (x \div 3) * 3 \in 3..x /\ 12 * (x \div 12) \in 12..x
        OBVIOUS
    <2>2. month \in Nat /\ month >= 12 /\ quarter \in 3..month /\ year \in 12..month
        BY <1>1, <2>1 DEF QuarterMonth
    <2> HIDE DEF month, quarter, year
    <2> QED BY <2>2
<1>6. ASSUME NEW d \in Int, r = DateRange(LocalDay(z, d), t)
      PROVE  Good
    BY <1>1, <1>2, <1>6 DEF DateRange
<1>7. ASSUME NEW c \in Int, NEW d \in Int, d \in 0..(last - 1), r = LocalDayRange(z, c, d)
      PROVE  Good
    BY <1>2, <1>7 DEF LocalDayRange, DateRange
<1>8. ASSUME p \in DOMAIN HourPresets
      PROVE  Good
    <2>1. r = DateRange(t - HourPresets[p], t) /\ HourPresets[p] \in Nat
        BY <1>8 DEF PresetRange, HourPresets, DayPresets
    <2> QED BY <1>1, <2>1 DEF DateRange
<1>9. ASSUME p \in DOMAIN DayPresets
      PROVE  Good
    <2>1. r = DateRange(LocalDay(z, today - DayPresets[p]), t) /\ DayPresets[p] \in Nat
        BY <1>9 DEF PresetRange, HourPresets, DayPresets
    <2>2. today - DayPresets[p] \in Int
        BY <1>3, <2>1
    <2> QED BY <1>6, <2>1, <2>2
<1> HIDE DEF Good
<1>10. ASSUME p \in CalendarPresets
       PROVE  Good
    <2>1. p \notin DOMAIN HourPresets /\ p \notin DOMAIN DayPresets
        BY <1>10 DEF HourPresets, DayPresets, CalendarPresets
    <2>2. /\ p = "today" => r = DateRange(LocalDay(z, today), t)
          /\ p = "yesterday" => r = LocalDayRange(z, today - 1, today)
          /\ p = "this_week" => r = DateRange(LocalDay(z, week), t)
          /\ p = "last_week" => r = LocalDayRange(z, week - 7, week)
          /\ p = "this_month" => r = DateRange(LocalDay(z, MonthStart[month]), t)
          /\ p = "last_month" => r = LocalDayRange(z, MonthStart[month - 1], MonthStart[month])
          /\ p = "this_quarter" => r = DateRange(LocalDay(z, MonthStart[quarter]), t)
          /\ p = "last_quarter" => r = LocalDayRange(z, MonthStart[quarter - 3], MonthStart[quarter])
          /\ p = "this_year" => r = DateRange(LocalDay(z, MonthStart[year]), t)
          /\ p = "last_year" => r = LocalDayRange(z, MonthStart[year - 12], MonthStart[year])
        BY <2>1 DEF PresetRange
    <2>3. today - 1 \in Int /\ week - 7 \in Int /\ today \in 0..(last - 1)
        BY <1>1, <1>3
    <2> HIDE DEF today, last, week, month, quarter, year, r
    <2>4. CASE p \in {"today", "yesterday", "this_week", "last_week"}
        BY <1>3, <1>6, <1>7, <2>2, <2>3, <2>4
    <2>5. CASE p \in {"this_month", "last_month"}
        BY <1>4, <1>5, <1>6, <1>7, <2>2, <2>5
    <2>6. CASE p \in {"this_quarter", "last_quarter"}
        BY <1>4, <1>5, <1>6, <1>7, <2>2, <2>6
    <2>7. CASE p \in {"this_year", "last_year"}
        BY <1>4, <1>5, <1>6, <1>7, <2>2, <2>7
    <2> QED BY <1>10, <2>4, <2>5, <2>6, <2>7 DEF CalendarPresets
<1>11. Good
    BY <1>8, <1>9, <1>10 DEF Presets, Good
<1> QED BY <1>11 DEF Good

\* What is queried: all that was asked for, up to now, or up to where the bucket
\* that is not over begins.
LEMMA WhatIsQueried ==
    ASSUME now \in Nows, NEW z \in Zones, NEW r, r.start \in Int, r.end \in Int,
           r.end >= now \/ Day(Wall(z, r.end)) \in 0..(MonthStart[12 * Years] - 1),
           NEW g \in Granularities \cup {"none"}, NEW include \in BOOLEAN,
           Effective(z, r, g, include) # Refused
    PROVE  LET e == Effective(z, r, g, include)
           IN  /\ e.start = r.start /\ e.end \in Int
               /\ e.end <= Least(r.end, now)
               /\ include \/ g = "none" => e.end = Least(r.end, now)
               /\ ~include /\ g # "none" /\ e.start < now =>
                    e.start < e.end /\ e.end <= now /\ BucketBegins(z, e.end, g)
<1> DEFINE e == Effective(z, r, g, include)
           last == Least(r.end, now)
           bucket == IF g = "none" THEN "day" ELSE g
           partial == r.end > now \/ Wall(z, last) # Floor(Wall(z, last), bucket)
           complete == FloorInstant(z, last, bucket)
           whole == include \/ g = "none" \/ ~partial \/ last <= r.start
<1>1. now \in Int /\ Years \in Nat \ {0}
    BY TheCalendarHoldsNow
<1>2. last \in Int /\ last <= now /\ last <= r.end /\ (last = now \/ (last = r.end /\ r.end < now))
    BY <1>1 DEF Least
<1>3. Day(Wall(z, last)) \in 0..(MonthStart[12 * Years] - 1)
    BY <1>1, <1>2, TodayIsKnown
<1>4. r.end > r.start
    BY DEF Effective
<1>5. CASE whole
    <2>1. e.start = r.start /\ e.end = last
        BY <1>4, <1>5 DEF Effective, WithPartialBucket
    <2>2. ASSUME ~include, g # "none", e.start < now
          PROVE  e.start < e.end /\ e.end <= now /\ BucketBegins(z, e.end, g)
        <3>1. last > r.start
            BY <1>1, <1>4, <2>1, <2>2 DEF Least
        <3>2. ~partial
            BY <1>2, <1>5, <2>2, <3>1
        <3>3. Wall(z, last) = Floor(Wall(z, last), g)
            BY <2>2, <3>2
        <3> HIDE DEF e, last
        <3> QED BY <1>2, <2>1, <3>1, <3>3 DEF BucketBegins
    <2>3. e.end \in Int /\ e.end <= last /\ e.end = last
        <3> HIDE DEF e, last
        <3> QED BY <1>2, <2>1
    <2> QED BY <2>1, <2>2, <2>3
<1>6. CASE ~whole
    <2>1. g \in Granularities /\ bucket = g /\ ~include
        BY <1>6
    <2>2. complete \in Int /\ complete <= last /\ BucketBegins(z, complete, g)
        <3>1. complete = FloorInstant(z, last, g)
            BY <2>1
        <3>2. last \in Int /\ g \in Granularities
            BY <1>2, <2>1
        <3>3. \A x \in Int : Day(Wall(z, x)) \in 0..(MonthStart[12 * Years] - 1) =>
                /\ FloorInstant(z, x, g) \in Int /\ FloorInstant(z, x, g) <= x
                /\ BucketBegins(z, FloorInstant(z, x, g), g)
            BY <1>1, <3>2, BucketsBegin
        <3> HIDE DEF last, complete
        <3> QED BY <1>3, <3>1, <3>2, <3>3
    <2>3. complete > r.start /\ e.start = r.start /\ e.end = complete
        BY <1>4, <1>6 DEF Effective
    <2>4. e.start < e.end /\ e.end <= now /\ BucketBegins(z, e.end, g) /\ e.end \in Int
        <3> HIDE DEF e, last, complete
        <3> QED BY <1>1, <1>2, <2>2, <2>3
    <2>5. e.end <= Least(r.end, now) /\ include = FALSE /\ g # "none"
        <3>1. g # "none"
            BY <1>6
        <3> HIDE DEF e, complete
        <3> QED BY <2>1, <2>2, <2>3, <3>1
    <2> QED BY <2>3, <2>4, <2>5
<1> QED BY <1>5, <1>6

\* No question asked, or one that was refused, has nothing to be right about.
LEMMA NothingAsked ==
    asked \in {Nothing, Refused} => PresetsAgree /\ RangesAreExact
<1> SUFFICES ASSUME asked \in {Nothing, Refused}
             PROVE  PresetsAgree /\ RangesAreExact
    OBVIOUS
<1>1. asked.kind # "page" /\ asked.kind # "query"
    BY DEF Nothing, Refused
<1> QED BY <1>1 DEF PresetsAgree, RangesAreExact

\* A page shows the preset's range.
LEMMA PagesAgree ==
    ASSUME now \in Nows, NEW p \in Presets, NEW n \in Offsets,
           NEW g \in Granularities \cup {"auto"}, NEW mode \in {"previous_period", "previous_year"},
           ViewPage(p, n, g, mode)
    PROVE  (PresetsAgree /\ RangesAreExact)'
<1> DEFINE r == ResolveDateRange(p, now)
           q == Stepped(r, n)
<1>1. /\ asked' = [kind |-> "page", preset |-> p, offset |-> n, range |-> q,
                   granularity |-> ResolveGranularity(g, q), compared |-> GetComparisonRange(q, mode)]
      /\ now' = now
    BY DEF ViewPage
<1>2. /\ asked'.kind = "page" /\ asked'.preset = p /\ asked'.offset = n
      /\ asked'.range = q
    BY <1>1
<1>3. RangesAreExact'
    BY <1>2 DEF RangesAreExact
<1>4. ASSUME p # "last_quarter", n = 0
      PROVE  q.start = r.start /\ q.end = r.end /\ SameRange(p, now)
    <2>1. SameRange(p, now)
        BY <1>4, AllPresetsAgree
    <2>2. r.start \in Int /\ r.end \in Int
        BY <2>1 DEF SameRange
    <2>3. \A x, y \in Int : (y - x) * 0 = 0 /\ x - 0 = x
        OBVIOUS
    <2>4. q = DateRange(r.start - (r.end - r.start) * 0, r.end - (r.end - r.start) * 0)
        BY <1>4 DEF Stepped
    <2> HIDE DEF q, r
    <2> QED BY <2>1, <2>2, <2>3, <2>4 DEF DateRange
<1>5. ASSUME p # "last_quarter", n = 0
      PROVE  /\ q.start = PresetRange(p, now, Utc).start
             /\ Least(q.end + 1, now) = Least(PresetRange(p, now, Utc).end, now)
    BY <1>4, <1>5 DEF SameRange
<1>6. PresetsAgree'
    <2> HIDE DEF q
    <2> QED BY <1>1, <1>2, <1>5 DEF PresetsAgree
<1> QED BY <1>3, <1>6

\* A query of the API is answered for exact boundaries.
LEMMA QueriesAreExact ==
    ASSUME now \in Nows, NEW z \in Zones, NEW r, r.start \in Int, r.end \in Int,
           r.end >= now \/ Day(Wall(z, r.end)) \in 0..(MonthStart[12 * Years] - 1),
           NEW g \in Granularities \cup {"none"}, NEW include \in BOOLEAN, NEW mode, NEW bounds,
           bounds # <<>> =>
             /\ OnlyInstant(z, bounds[1], r.start)
             /\ r.end \in Possible(z, bounds[2]) /\ OnlyInstant(z, bounds[2], r.end),
           Queried(z, Effective(z, r, g, include), g, include, mode, bounds), now' = now
    PROVE  (PresetsAgree /\ RangesAreExact)'
<1> DEFINE e == Effective(z, r, g, include)
<1>1. CASE e = Refused
    <2>1. asked' = Refused
        BY <1>1 DEF Queried
    <2>2. asked'.kind # "page" /\ asked'.kind # "query"
        BY <2>1 DEF Refused
    <2> QED BY <2>2 DEF PresetsAgree, RangesAreExact
<1>2. CASE e # Refused
    <2>1. asked' = [kind |-> "query", zone |-> z, range |-> e, granularity |-> g, bounds |-> bounds,
                    complete |-> ~include, compared |-> ComparisonRange(z, e, mode)]
        BY <1>2 DEF Queried
    <2>2. /\ asked'.kind = "query" /\ asked'.zone = z /\ asked'.range = e /\ asked'.granularity = g
          /\ asked'.bounds = bounds /\ asked'.complete = ~include
        BY <2>1
    <2>3. /\ e.start = r.start
          /\ e.end <= Least(r.end, now)
          /\ include \/ g = "none" => e.end = Least(r.end, now)
          /\ ~include /\ g # "none" /\ e.start < now =>
               e.start < e.end /\ e.end <= now /\ BucketBegins(z, e.end, g)
        BY <1>2, WhatIsQueried
    <2>4. PresetsAgree'
        BY <2>2 DEF PresetsAgree
    <2>5. RangesAreExact'
        <3> DEFINE whole == ~include /\ g # "none"
        <3> HIDE DEF e
        <3>1. bounds # <<>> =>
                /\ OnlyInstant(z, bounds[1], e.start)
                /\ \E x \in Possible(z, bounds[2]) :
                      /\ OnlyInstant(z, bounds[2], x)
                      /\ e.end <= Least(x, now) /\ (whole \/ e.end = Least(x, now))
            BY <2>3
        <3>2. whole /\ e.start < now =>
                /\ e.start < e.end /\ e.end <= now
                /\ \/ Wall(z, e.end) = Floor(Wall(z, e.end), g)
                   \/ Wall(z, e.end - 1) < Floor(Wall(z, e.end), g)
            BY <2>3 DEF BucketBegins
        <3> QED BY <2>2, <3>1, <3>2 DEF RangesAreExact, OnlyInstant
    <2> QED BY <2>4, <2>5
<1> QED BY <1>1, <1>2

\* A question is answered right, and the time passes with none.
LEMMA DatesStep ==
    ASSUME now \in Nows, PresetsAgree /\ RangesAreExact, [NextDates]_dateVars
    PROVE  now' \in Nows /\ (PresetsAgree /\ RangesAreExact)'
<1>1. CASE UNCHANGED dateVars
    <2>1. now' = now /\ asked' = asked
        BY <1>1 DEF dateVars
    <2> QED BY <2>1 DEF PresetsAgree, RangesAreExact
<1>2. CASE TimePasses
    <2>1. now' \in Nows /\ asked' = Nothing
        BY <1>2 DEF TimePasses
    <2>2. asked'.kind # "page" /\ asked'.kind # "query"
        BY <2>1 DEF Nothing
    <2> QED BY <2>1, <2>2 DEF PresetsAgree, RangesAreExact
<1>3. ASSUME NEW p \in Presets, NEW n \in Offsets, NEW g \in Granularities \cup {"auto"},
             NEW mode \in {"previous_period", "previous_year"}, ViewPage(p, n, g, mode)
      PROVE  now' \in Nows /\ (PresetsAgree /\ RangesAreExact)'
    <2>1. now' = now
        BY <1>3 DEF ViewPage
    <2> QED BY <1>3, <2>1, PagesAgree
<1>4. ASSUME NEW p, NEW s, NEW e, RunCommand(p, s, e)
      PROVE  now' \in Nows /\ (PresetsAgree /\ RangesAreExact)'
    <2>1. now' = now /\ asked' = [kind |-> "command", range |-> ParsedArgs(p, s, e)]
        BY <1>4 DEF RunCommand
    <2>2. asked'.kind # "page" /\ asked'.kind # "query"
        BY <2>1
    <2> QED BY <2>1, <2>2 DEF PresetsAgree, RangesAreExact
<1>5. ASSUME NEW z \in Zones, NEW g \in Granularities \cup {"none"}, NEW include \in BOOLEAN,
             NEW mode, NEW p \in Presets, QueryPreset(p, z, g, include, mode)
      PROVE  now' \in Nows /\ (PresetsAgree /\ RangesAreExact)'
    <2> DEFINE r == PresetRange(p, now, z)
    <2>1. now' = now /\ Queried(z, Effective(z, r, g, include), g, include, mode, <<>>)
        BY <1>5 DEF QueryPreset
    <2>2. /\ r.start \in Int /\ r.end \in Int /\ now \in Int
          /\ r.end >= now \/ Day(Wall(z, r.end)) \in 0..(MonthStart[12 * Years] - 1)
        <3>1. now \in Int
            BY TheCalendarHoldsNow
        <3>2. /\ r.start \in Int /\ r.end \in Int
              /\ r.end = now \/ Day(Wall(z, r.end)) \in 0..(MonthStart[12 * Years] - 1)
            BY PresetsEnd
        <3> HIDE DEF r
        <3> QED BY <3>1, <3>2
    <2> HIDE DEF r
    <2> QED BY <2>1, <2>2, QueriesAreExact
<1>6. ASSUME NEW z \in Zones, NEW g \in Granularities \cup {"none"}, NEW include \in BOOLEAN,
             NEW mode, NEW b1 \in Explicit, NEW b2 \in Explicit, QueryBetween(b1, b2, z, g, include, mode)
      PROVE  now' \in Nows /\ (PresetsAgree /\ RangesAreExact)'
    <2> DEFINE s == ParseBoundary(z, b1)
               e == ParseBoundary(z, b2)
    <2>1. now' = now /\ Queried(z, ResolveExplicit(z, b1, b2, g, include), g, include, mode, <<b1, b2>>)
        BY <1>6 DEF QueryBetween
    <2>2. CASE s = -1 \/ e = -1
        <3>1. asked' = Refused
            BY <2>1, <2>2 DEF Queried, ResolveExplicit
        <3>2. asked'.kind # "page" /\ asked'.kind # "query"
            BY <3>1 DEF Refused
        <3> QED BY <2>1, <3>2 DEF PresetsAgree, RangesAreExact
    <2>3. CASE ~(s = -1 \/ e = -1)
        <3>1. MonthStart[12 * Years] \in Nat
            BY TheCalendarHoldsNow
        <3>2. /\ s \in Int /\ e \in Int
              /\ OnlyInstant(z, b1, s) /\ OnlyInstant(z, b2, e) /\ e \in Possible(z, b2)
              /\ Day(Wall(z, e)) \in 0..(MonthStart[12 * Years] - 1)
            BY <2>3, <3>1, BoundariesAreExact
        <3>3. Queried(z, Effective(z, DateRange(s, e), g, include), g, include, mode, <<b1, b2>>)
            BY <2>1, <2>3 DEF ResolveExplicit
        <3> DEFINE r == DateRange(s, e)
                   bounds == <<b1, b2>>
        <3>4. r.start = s /\ r.end = e /\ bounds[1] = b1 /\ bounds[2] = b2
            BY DEF DateRange
        <3> HIDE DEF s, e, r, bounds
        <3> QED BY <2>1, <3>2, <3>3, <3>4, QueriesAreExact DEF r, bounds
    <2> QED BY <2>2, <2>3
<1>7. NextDates \/ UNCHANGED dateVars
    OBVIOUS
<1> QED BY <1>1, <1>2, <1>3, <1>4, <1>5, <1>6, <1>7 DEF NextDates, Asks

\* Both at once, of a moment questions are asked at.
THEOREM DatesHold == DatesSpec => [](now \in Nows /\ PresetsAgree /\ RangesAreExact)
<1>1. InitDates => now \in Nows /\ PresetsAgree /\ RangesAreExact
    BY NothingAsked DEF InitDates
<1>2. now \in Nows /\ PresetsAgree /\ RangesAreExact /\ [NextDates]_dateVars
        => (now \in Nows /\ PresetsAgree /\ RangesAreExact)'
    BY DatesStep
<1> QED BY <1>1, <1>2, PTL DEF DatesSpec

\* date_utils and contracts._preset_range resolve a preset to the same hours, in
\* UTC: for every calendar, moment and preset but last_quarter.
THEOREM PresetsAgreeEverywhere == DatesSpec => []PresetsAgree
BY DatesHold, PTL

\* A boundary is the one instant it can be - a wall clock without an offset the
\* only one that shows it, a date the one its day begins at - and a query without
\* its partial bucket ends where a bucket begins: for every zone whose clocks are
\* put forward and back, at whatever hour.
THEOREM RangesAreExactEverywhere == DatesSpec => []RangesAreExact
BY DatesHold, PTL
=============================================================================
