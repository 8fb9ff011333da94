----------------------------- MODULE WebAccess -----------------------------
(* What every page and API call goes through before it shows anything (apps/   *)
(* common/mixins.py, mantecato/middleware.py, the guards of apps/settings_app  *)
(* and apps/api): who is asking, which site is meant, whether bots are left    *)
(* out; and the two writes behind it, site rows and the bot preferences, whose *)
(* transaction is several statements long.                                     *)
EXTENDS Naturals, FiniteSets
LOCAL INSTANCE TLC

CONSTANTS
    Principals,      \* who asks: [user, admin, write]
    WebSites,        \* primary keys of websites, in the order of their names
    SiteRank,        \* website -> its place in that order
    NoSite,
    Preferences,     \* bound: the preferences stored already
    SaveForms,       \* bound: configurations sent, some of BOT_CONFIG_DEFAULTS' keys
    BotDefaults,     \* BOT_CONFIG_DEFAULTS: [enabled, bots]
    Savers,          \* saves in progress at a time
    MaxSaves, MaxSiteWrites   \* bounds

\* keys are unique, and no site has two rows yet
OneRowEach(rows) == \A c, d \in rows : c.id = d.id \/ c.site = d.site => c = d
ASSUME PreferencesAssumption ==
    \A P \in Preferences : OneRowEach(P) /\ \A c \in P : c.id \in Nat \ {0}

VARIABLES
    webSites,     \* website rows: [owner, deleted], or the absent row
    botConfigs,   \* report rows of type bot-config: [id, site, parameters]
    saver,        \* each save in progress
    reply,        \* the first answer; asking ends the behaviour
    latest,       \* history: the configuration last committed for a site
    written       \* [saves, sites], for the bounds

webVars == <<webSites, botConfigs, saver, reply, latest, written>>
NoRow == [owner |-> NoSite, deleted |-> FALSE]
NotSaving == [phase |-> "none"]
Unsaved == [saved |-> FALSE]

-----------------------------------------------------------------------------
(* Who is asking: ApiKeyMiddleware, ApiAuthMixin, ApiWriteMixin.               *)

Headers == {"none", "malformed", "unknown", "valid"}
\* a bad key is refused below /api/ and ignored elsewhere
Rejected(header, path) == header \in {"malformed", "unknown"} /\ path = "api"
Authenticated(header) == header = "valid"
ApiRefusal(header, writes, p) ==
    CASE ~Authenticated(header) -> 401
      [] Authenticated(header) /\ writes /\ ~p.write -> 403
      [] Authenticated(header) /\ ~(writes /\ ~p.write) -> 0

-----------------------------------------------------------------------------
(* Which site: resolve_websites_for_user, and the guards made of it.           *)

SitesOf(p) == {s \in WebSites : webSites[s] # NoRow /\ ~webSites[s].deleted /\ (p.admin \/ webSites[s].owner = p.user)}
FirstOf(S) == IF S = {} THEN NoSite ELSE CHOOSE s \in S : \A t \in S : SiteRank[s] <= SiteRank[t]
\* WebsiteContextMixin.setup
WebsiteContext(p, asked) ==
    IF asked = NoSite THEN [site |-> FirstOf(SitesOf(p)), forbidden |-> FALSE]
    ELSE IF asked \in SitesOf(p) THEN [site |-> asked, forbidden |-> FALSE]
    ELSE [site |-> NoSite, forbidden |-> TRUE]
\* _assert_website_accessible of the settings, _website_accessible of the API
WebsiteAccessible(p, s) == s # NoSite /\ s \in SitesOf(p)

-----------------------------------------------------------------------------
(* Whether bots are left out: FiltersMixin.                                    *)

MergeBotConfig(given) == [k \in DOMAIN BotDefaults |-> IF k \in DOMAIN given THEN given[k] ELSE BotDefaults[k]]
RowsFor(s) == {c \in botConfigs : c.site = s}
FirstRow(s) == CHOOSE c \in RowsFor(s) : \A d \in RowsFor(s) : c.id <= d.id
GetBotConfig(s) == IF RowsFor(s) = {} THEN MergeBotConfig(<<>>) ELSE FirstRow(s).parameters

BotFilterDefault(s) == RowsFor(s) # {} /\ FirstRow(s).parameters.enabled
BotFilterOn(param, s) ==
    IF param # "absent" THEN param = "1" ELSE s # NoSite /\ BotFilterDefault(s)
\* load_bot_filter_payload: the saved rules, whether they are enabled or not
BotPayload(s) == GetBotConfig(s).bots

-----------------------------------------------------------------------------
(* Requests that only read.                                                    *)

Answer(status, body) == reply' = [status |-> status] @@ body
ReadsOnly == reply.status = 0 /\ UNCHANGED <<webSites, botConfigs, saver, latest, written>>

\* an analytics page; without a site it says so
AskAnalyticsPage(p, asked, param) ==
    LET ctx == WebsiteContext(p, asked)
    IN  /\ Answer(200, [kind |-> "page", by |-> p, site |-> ctx.site, noData |-> ctx.site = NoSite,
                        filtered |-> BotFilterOn(param, ctx.site)])
        /\ ReadsOnly
\* _AnalyticsJSONView: _precheck asks for a site first, so that its 403 is never given
AskAnalyticsApi(p, header, asked, validRange, param) ==
    LET ctx == WebsiteContext(p, asked)
        status == CASE Rejected(header, "api") \/ ~Authenticated(header) -> 401
                    [] Authenticated(header) /\ (ctx.site = NoSite \/ ~validRange) -> 400
                    [] Authenticated(header) /\ ctx.site # NoSite /\ validRange -> 200
    IN  /\ Answer(status, [kind |-> "data", by |-> p, site |-> ctx.site,
                           filtered |-> status = 200 /\ BotFilterOn(param, ctx.site)])
        /\ ReadsOnly
\* SiteListView and SitesListView
AskSites(p) == Answer(200, [kind |-> "sites", by |-> p, sites |-> SitesOf(p)]) /\ ReadsOnly
\* BotConfigView.get, BotConfigGetView
AskBotConfig(p, s) ==
    /\ IF WebsiteAccessible(p, s)
       THEN Answer(200, [kind |-> "botConfig", by |-> p, site |-> s, config |-> GetBotConfig(s)])
       ELSE Answer(IF s = NoSite THEN 400 ELSE 403, [kind |-> "refused", by |-> p])
    /\ ReadsOnly

-----------------------------------------------------------------------------
(* save_bot_config: lock, look for the row, write it, commit.                  *)

Saving(r, phase) == saver[r].phase = phase
LockHolders(s) == {r \in Savers : saver[r].phase \in {"look", "write"} /\ saver[r].site = s}

\* BotConfigView.post, BotConfigSaveView.post
PostBotConfig(r, p, s, given, viaApi) ==
    /\ saver[r] = NotSaving
    /\ viaApi => ApiRefusal("valid", TRUE, p) = 0
    /\ WebsiteAccessible(p, s)
    /\ written.saves < MaxSaves
    /\ written' = [written EXCEPT !.saves = @ + 1]
    /\ saver' = [saver EXCEPT ![r] = [phase |-> "lock", site |-> s, merged |-> MergeBotConfig(given), found |-> 0]]
    /\ UNCHANGED <<webSites, botConfigs, reply, latest>>

\* Mutant: the advisory lock is not taken.
EnterUnlocked(r) ==
    /\ Saving(r, "lock")
    /\ saver' = [saver EXCEPT ![r].phase = "look"]
    /\ UNCHANGED <<webSites, botConfigs, reply, latest, written>>

TakeBotConfigLock(r) ==
    /\ Saving(r, "lock")
    /\ LockHolders(saver[r].site) = {}
    /\ saver' = [saver EXCEPT ![r].phase = "look"]
    /\ UNCHANGED <<webSites, botConfigs, reply, latest, written>>

LookForBotConfig(r) ==
    /\ Saving(r, "look")
    /\ saver' = [saver EXCEPT ![r].phase = "write",
                              ![r].found = IF RowsFor(saver[r].site) = {} THEN 0 ELSE FirstRow(saver[r].site).id]
    /\ UNCHANGED <<webSites, botConfigs, reply, latest, written>>

\* keys are random: a new row may come before or after the others
WriteBotConfig(r) ==
    /\ Saving(r, "write")
    /\ LET save == saver[r]
           row(id) == [id |-> id, site |-> save.site, parameters |-> save.merged]
       IN  /\ IF save.found # 0
              THEN botConfigs' = {IF c.id = save.found THEN row(c.id) ELSE c : c \in botConfigs}
              ELSE \E id \in 1..(MaxSaves + Cardinality(botConfigs)) \ {c.id : c \in botConfigs} :
                      botConfigs' = botConfigs \cup {row(id)}
           /\ latest' = [latest EXCEPT ![save.site] = [saved |-> TRUE, config |-> save.merged]]
    /\ saver' = [saver EXCEPT ![r] = NotSaving]
    /\ UNCHANGED <<webSites, reply, written>>

\* a statement raises: the transaction and its lock are gone
SaveFails(r) ==
    /\ saver[r] # NotSaving
    /\ saver' = [saver EXCEPT ![r] = NotSaving]
    /\ UNCHANGED <<webSites, botConfigs, reply, latest, written>>

-----------------------------------------------------------------------------
(* Site rows: create_website, soft_delete_website.                             *)

CreateSite(p) ==
    /\ written.sites < MaxSiteWrites
    /\ \E s \in WebSites :
          /\ webSites[s] = NoRow
          /\ webSites' = [webSites EXCEPT ![s] = [owner |-> p.user, deleted |-> FALSE]]
    /\ written' = [written EXCEPT !.sites = @ + 1]
    /\ UNCHANGED <<botConfigs, saver, reply, latest>>
DeleteSite(p, s) ==
    /\ written.sites < MaxSiteWrites
    /\ s \in SitesOf(p)
    /\ webSites' = [webSites EXCEPT ![s].deleted = TRUE]
    /\ written' = [written EXCEPT !.sites = @ + 1]
    /\ UNCHANGED <<botConfigs, saver, reply, latest>>

InitWeb ==
    /\ webSites \in [WebSites -> {NoRow} \cup [owner : {p.user : p \in Principals}, deleted : {FALSE}]]
    /\ botConfigs \in Preferences
    /\ saver = [r \in Savers |-> NotSaving]
    /\ reply = [status |-> 0]
    /\ latest = [s \in WebSites |->
          IF RowsFor(s) = {} THEN Unsaved ELSE [saved |-> TRUE, config |-> FirstRow(s).parameters]]
    /\ written = [saves |-> 0, sites |-> 0]

Params == {"absent", "0", "1"}
NextWeb ==
    \/ \E p \in Principals :
          \/ AskSites(p) \/ CreateSite(p)
          \/ \E s \in WebSites \cup {NoSite} :
                \/ AskBotConfig(p, s)
                \/ \E param \in Params : AskAnalyticsPage(p, s, param)
                \/ \E h \in Headers, ok \in BOOLEAN, param \in Params : AskAnalyticsApi(p, h, s, ok, param)
          \/ \E s \in WebSites : DeleteSite(p, s)
          \/ \E r \in Savers, s \in WebSites, given \in SaveForms, viaApi \in BOOLEAN :
                PostBotConfig(r, p, s, given, viaApi)
    \/ \E r \in Savers : TakeBotConfigLock(r) \/ LookForBotConfig(r) \/ WriteBotConfig(r) \/ SaveFails(r)

-----------------------------------------------------------------------------
(* The table of reports has no unique key on (type, website).  Still there is  *)
(* never a second row of preferences for a site, of which every page would     *)
(* read an arbitrary one: what pages filter by is what was last saved.         *)
PreferenceIsTheLastSaved ==
    \A s \in WebSites :
        /\ Cardinality(RowsFor(s)) <= 1
        /\ latest[s] # Unsaved => GetBotConfig(s) = latest[s].config

-----------------------------------------------------------------------------
(* The component by itself, and the inductive invariant of its preferences.    *)

WebSpec == InitWeb /\ [][NextWeb]_webVars

Saves == [phase : {"lock", "look", "write"}, site : WebSites,
          merged : {MergeBotConfig(given) : given \in SaveForms}, found : Nat]
SavesTyped ==
    /\ saver = [r \in Savers |-> saver[r]] /\ \A r \in Savers : saver[r] \in Saves \cup {NotSaving}
    /\ latest = [s \in WebSites |-> latest[s]]
\* one save at a time has looked for the row of a site ...
LockIsExclusive ==
    \A s \in WebSites : \A q, r \in LockHolders(s) : q = r
\* ... so that what it found is still so when it writes
FoundHolds(r) ==
    Saving(r, "write") =>
        IF saver[r].found = 0 THEN RowsFor(saver[r].site) = {}
        ELSE \E c \in RowsFor(saver[r].site) : c.id = saver[r].found
PreferencesInv ==
    /\ OneRowEach(botConfigs) /\ \A c \in botConfigs : c.id \in Nat \ {0}
    /\ LockIsExclusive
    /\ \A r \in Savers : FoundHolds(r)
    /\ \A s \in WebSites : latest[s] # Unsaved =>
          \E c \in botConfigs : c.site = s /\ c.parameters = latest[s].config
=============================================================================
