----------------------------- MODULE TrackerTab -----------------------------
(* The browser tracker (packages/tracker/src/tracker.ts, script.ts) in one tab  *)
(* of a single-page application: the page navigates, is hidden and shown, calls *)
(* the tracker, and timers and network answers come back in between.  A tick is *)
(* half a second, longer than SPA_DELAY; a timer fires before the tick after    *)
(* the one in which it was set is over.  There is no beforeSend.                *)
EXTENDS Naturals, Sequences, SequencesExt

CONSTANTS
    Pages,      \* normalised URLs
    MaxTicks,   \* bound of the clock
    MaxMoves    \* bound: navigations and calls

VARIABLES
    tick,       \* Date.now() in half seconds, from 1
    location,   \* the page shown
    tab,        \* closure variables of createTracker and the tab's visibility
    timers,     \* pending setTimeout callbacks, in firing order
    inflight,   \* engagement beacons not answered yet
    moves,      \* for the bound
    asked,      \* history: pageviews each page should have had
    views,      \* history: pageviews sent for each page
    shown,      \* history: how long this page and the one before were visible
    beacon,     \* history: the last engagement beacon, and what it should be under
    calm        \* history: no move has overtaken a pending timer, no URL was made up

tabVars == <<tick, location, tab, timers, inflight, moves, asked, views, shown, beacon, calm>>

NoTime == 0
NoBeacon == [url |-> "none"]
Round(halves) == (halves + 1) \div 2        \* Math.round(ms / 1000)

ShouldTrack(t) == t.enabled /\ t.welcome    \* no bot, no opt-out, a domain of ours

-----------------------------------------------------------------------------
(* Engagement: time accrued while visible, sent when it has grown.             *)

ActiveTicks(t) == t.active + (IF t.since = NoTime THEN 0 ELSE tick - t.since)

StartActive(t) == IF t.since = NoTime /\ t.visible THEN [t EXCEPT !.since = tick] ELSE t
StopActive(t) == [t EXCEPT !.active = ActiveTicks(t), !.since = NoTime]
ResetCounter(t) == [t EXCEPT !.page = @ + 1, !.last = 0, !.active = 0]
ResetActive(t) ==
    [t EXCEPT !.page = @ + 1, !.last = 0, !.active = 0,
              !.since = IF t.visible THEN tick ELSE NoTime]

\* last = 0 stands for -1: a report of 0 is never sent
Due(t) ==
    LET s == Round(ActiveTicks(t)) IN ShouldTrack(t) /\ s > 0 /\ s # t.last

\* what the page a beacon names can have been visible for: a history state is
\* noticed SPA_DELAY late
LongestFor(url) ==
    IF url = shown.page THEN Round(shown.ticks)
    ELSE IF url = shown.before THEN Round(shown.ticksBefore + 1) ELSE 0

\* sendEngagement: t is the tab the beacon is computed from
SendEngagement(t) ==
    IF Due(t)
    THEN LET s == Round(ActiveTicks(t))
         IN /\ inflight' = inflight \cup {[page |-> t.page, seconds |-> s]}
            /\ beacon' = [url |-> t.current, seconds |-> s, longest |-> LongestFor(t.current)]
    ELSE UNCHANGED <<inflight, beacon>>

Reported(t) == IF Due(t) THEN [t EXCEPT !.last = Round(ActiveTicks(t))] ELSE t

NextPage(t) == ResetActive(Reported(t))

SendView(t, url) ==
    views' = IF ShouldTrack(t) THEN [views EXCEPT ![url] = @ + 1] ELSE views

-----------------------------------------------------------------------------
(* Loading: init on the first readystatechange.                                *)

Load ==
    /\ tab.listening /\ ~tab.loaded
    /\ LET t == ResetActive([tab EXCEPT !.loaded = TRUE, !.current = location])
       IN tab' = t /\ SendView(t, location)
    /\ asked' = IF ShouldTrack(tab) THEN [asked EXCEPT ![location] = @ + 1] ELSE asked
    /\ UNCHANGED <<tick, location, timers, inflight, moves, shown, beacon, calm>>

-----------------------------------------------------------------------------
(* Navigation.  pushState and replaceState are wrapped: the tracker runs, then  *)
(* the page changes.  A history move changes the page and is noticed later.     *)

Move ==
    /\ moves < MaxMoves
    /\ moves' = moves + 1

Watching == tab.loaded /\ tab.listening
Arrive(url) ==
    /\ location' = url
    /\ shown' = IF url = location THEN shown
                ELSE [page |-> url, ticks |-> 0, before |-> location, ticksBefore |-> shown.ticks]
    /\ asked' = IF url # location /\ Watching /\ ShouldTrack(tab)
                THEN [asked EXCEPT ![url] = @ + 1] ELSE asked
    /\ calm' = (calm /\ (url # location => timers = <<>>))

Push(url) ==
    /\ Move
    /\ IF Watching /\ url # tab.current
       THEN /\ SendEngagement(tab)
            /\ tab' = [NextPage(tab) EXCEPT !.current = url]
            /\ timers' = Append(timers, [kind |-> "send", at |-> tick])
       ELSE UNCHANGED <<tab, timers, inflight, beacon>>
    /\ Arrive(url)
    /\ UNCHANGED <<tick, views>>

HistoryMove(url) ==
    /\ Move
    /\ Arrive(url)
    /\ timers' = IF Watching THEN Append(timers, [kind |-> "pop", at |-> tick]) ELSE timers
    /\ UNCHANGED <<tick, tab, inflight, views, beacon>>

\* the payload is built when the timer fires, for the page shown then
FireSend ==
    /\ timers # <<>> /\ Head(timers).kind = "send"
    /\ timers' = Tail(timers)
    /\ SendView(tab, location)
    /\ UNCHANGED <<tick, location, tab, inflight, moves, asked, shown, beacon, calm>>

FirePopAlways ==
    /\ timers # <<>> /\ Head(timers).kind = "pop"
    /\ timers' = Tail(timers)
    /\ SendEngagement(tab)
    /\ tab' = [NextPage(tab) EXCEPT !.current = location]
    /\ SendView(tab, location)
    /\ UNCHANGED <<tick, location, moves, asked, shown, calm>>

FirePop ==
    /\ timers # <<>> /\ Head(timers).kind = "pop"
    /\ timers' = Tail(timers)
    /\ IF location # tab.current
       THEN /\ SendEngagement(tab)
            /\ tab' = [NextPage(tab) EXCEPT !.current = location]
            /\ SendView(tab, location)
       ELSE UNCHANGED <<tab, inflight, views, beacon>>
    /\ UNCHANGED <<tick, location, moves, asked, shown, calm>>

-----------------------------------------------------------------------------
(* Calls of the page: pageview(), event() and track(), for the page shown or a  *)
(* URL of its own; the others switch the tracker off and on.                    *)

CallPageview(url) ==
    /\ Move
    /\ IF url # tab.current
       THEN SendEngagement(tab) /\ tab' = [NextPage(tab) EXCEPT !.current = url]
       ELSE UNCHANGED <<tab, inflight, beacon>>
    /\ SendView(tab, url)
    /\ asked' = IF ShouldTrack(tab) THEN [asked EXCEPT ![url] = @ + 1] ELSE asked
    /\ calm' = (calm /\ Watching /\ url = location /\ timers = <<>>)
    /\ UNCHANGED <<tick, location, timers, shown>>

CallEvent(url) ==
    /\ Move
    /\ tab' = [tab EXCEPT !.current = url]
    /\ calm' = (calm /\ Watching /\ url = location /\ timers = <<>>)
    /\ UNCHANGED <<tick, location, timers, inflight, asked, views, shown, beacon>>

Switch(on) ==
    /\ Move
    /\ tab' = [tab EXCEPT !.enabled = on]
    /\ calm' = (calm /\ timers = <<>>)
    /\ UNCHANGED <<tick, location, timers, inflight, asked, views, shown, beacon>>

\* destroy: timers that are pending still fire
Destroy ==
    /\ Move
    /\ tab' = [tab EXCEPT !.enabled = FALSE, !.listening = FALSE]
    /\ calm' = (calm /\ timers = <<>>)
    /\ UNCHANGED <<tick, location, timers, inflight, asked, views, shown, beacon>>

-----------------------------------------------------------------------------
(* Visibility, leaving, and the heartbeat, whose phase is left open.           *)

Hide ==
    /\ tab.visible
    /\ LET t == StopActive([tab EXCEPT !.visible = FALSE])
       IN IF Watching THEN SendEngagement(t) /\ tab' = Reported(t)
          ELSE tab' = [tab EXCEPT !.visible = FALSE] /\ UNCHANGED <<inflight, beacon>>
    /\ UNCHANGED <<tick, location, timers, moves, asked, views, shown, calm>>

Show ==
    /\ ~tab.visible
    /\ LET t == [tab EXCEPT !.visible = TRUE]
       IN tab' = IF Watching THEN StartActive(t) ELSE t
    /\ UNCHANGED <<tick, location, timers, inflight, moves, asked, views, shown, beacon, calm>>

\* pagehide without a change of visibility, as into the back/forward cache
PageHide ==
    /\ Watching
    /\ SendEngagement(StopActive(tab))
    /\ tab' = Reported(StopActive(tab))
    /\ UNCHANGED <<tick, location, timers, moves, asked, views, shown, calm>>

Heartbeat ==
    /\ Watching /\ tab.visible
    /\ SendEngagement(tab)
    /\ tab' = Reported(tab)
    /\ UNCHANGED <<tick, location, timers, moves, asked, views, shown, calm>>

\* allowRetry: a failure of the newest report of this page lets it be sent again
AnswerBeacon(b, ok) ==
    /\ inflight' = inflight \ {b}
    /\ tab' = IF ~ok /\ b.page = tab.page /\ b.seconds = tab.last
              THEN [tab EXCEPT !.last = 0] ELSE tab
    /\ UNCHANGED <<tick, location, timers, moves, asked, views, shown, beacon, calm>>

PassHalfSecond ==
    /\ tick < MaxTicks
    /\ \A i \in DOMAIN timers : timers[i].at = tick
    /\ tick' = tick + 1
    /\ shown' = IF tab.visible THEN [shown EXCEPT !.ticks = @ + 1] ELSE shown
    /\ UNCHANGED <<location, tab, timers, inflight, moves, asked, views, beacon, calm>>

-----------------------------------------------------------------------------
InitTab ==
    /\ tick = 1
    /\ location \in Pages
    /\ \E welcome \in BOOLEAN, visible \in BOOLEAN :
          tab = [enabled |-> TRUE, welcome |-> welcome, listening |-> welcome,
                 loaded |-> FALSE, visible |-> visible, current |-> "",
                 active |-> 0, since |-> NoTime, last |-> 0, page |-> 0]
    /\ timers = <<>>
    /\ inflight = {}
    /\ moves = 0
    /\ asked = [p \in Pages |-> 0]
    /\ views = [p \in Pages |-> 0]
    /\ shown = [page |-> location, ticks |-> 0, before |-> location, ticksBefore |-> 0]
    /\ beacon = NoBeacon
    /\ calm = TRUE

NextTab ==
    \/ Load \/ FireSend \/ FirePop
    \/ \E p \in Pages : Push(p) \/ HistoryMove(p) \/ CallPageview(p) \/ CallEvent(p)
    \/ \E on \in BOOLEAN : Switch(on)
    \/ Destroy \/ Hide \/ Show \/ PageHide \/ Heartbeat
    \/ \E b \in inflight, ok \in BOOLEAN : AnswerBeacon(b, ok)
    \/ PassHalfSecond

TabSpec == InitTab /\ [][NextTab]_tabVars

-----------------------------------------------------------------------------
(* Every page an application shows is counted, once: as long as no navigation   *)
(* or call falls within SPA_DELAY of another navigation, what has been sent is  *)
(* what was shown and asked for, except what a pending timer will send.         *)
EveryPageCountedOnce ==
    calm /\ timers = <<>> => views = asked

(* Time is reported for the page it was spent on and never more of it than the  *)
(* page was visible, give or take SPA_DELAY, whatever hides, shows, heartbeats, *)
(* failed beacons and retries come in between.                                  *)
TimeIsOfItsPage ==
    calm /\ beacon # NoBeacon => beacon.seconds <= beacon.longest

-----------------------------------------------------------------------------
(* The inductive invariant behind EveryPageCountedOnce and TimeIsOfItsPage.     *)

TabTyped ==
    /\ tick \in Nat \ {0} /\ location \in Pages
    /\ tab = [f \in {"enabled", "welcome", "listening", "loaded", "visible", "current",
                     "active", "since", "last", "page"} |-> tab[f]]
    /\ \A f \in {"enabled", "welcome", "listening", "loaded", "visible"} : tab[f] \in BOOLEAN
    /\ tab.active \in Nat /\ tab.since \in 0..tick
    /\ timers \in Seq([kind : {"send", "pop"}, at : Nat])
    /\ asked \in [Pages -> Nat] /\ views \in [Pages -> Nat]
    /\ shown \in [page : Pages, ticks : Nat, before : Pages, ticksBefore : Nat]
    /\ shown.page = location
    /\ calm \in BOOLEAN

Sends == {i \in DOMAIN timers : timers[i].kind = "send"}

\* a change of page is known at once, and then one view is to be sent, or it has
\* yet to be noticed, by the timer that is first in the queue
NavigationInv ==
    calm =>
        /\ ~Watching => timers = <<>>
        /\ Watching =>
              IF tab.current = location THEN \A i, j \in Sends : i = j
              ELSE timers # <<>> /\ Sends = {}

\* the view of the page shown that has been asked for and not been sent
Owed == ShouldTrack(tab) /\ Watching /\ (tab.current # location \/ Sends # {})
CountInv == calm => asked = IF Owed THEN [views EXCEPT ![location] = @ + 1] ELSE views

\* time accrues while the tab is visible, for the page the tracker knows of,
\* which it leaves half a second late at most
TimeInv ==
    /\ \A i \in DOMAIN timers : timers[i].at <= tick /\ tick <= timers[i].at + 1
    /\ Watching /\ ~tab.visible => tab.since = NoTime
    /\ calm /\ Watching =>
          IF tab.current = location THEN ActiveTicks(tab) <= shown.ticks
          ELSE /\ tab.current = shown.before
               /\ ActiveTicks(tab) + timers[1].at <= shown.ticksBefore + tick
    /\ TimeIsOfItsPage
=============================================================================
