------------------------------ MODULE AppScreens ------------------------------
(***************************************************************************)
(* What every page of the web application puts into the browser, as far as *)
(* the traveler's next step goes: which state of the screen is shown and   *)
(* from which model, the links it offers, whether it has tabs, a sheet or  *)
(* an action bar that sticks to the bottom.                                *)
(*                                                                         *)
(* A link is the path it leads to, as its segments and without fragment; a *)
(* link that a model may leave out is a set of at most one.  Texts, facts  *)
(* and layout are left out: what evidence a page shows is Presentation's   *)
(* matter.  Sources: apps/web/app, components/screens, lib/presentation.   *)
(***************************************************************************)
EXTENDS Integers, FiniteSets, SequencesExt

showcase == <<"showcase">>
external == <<"https:">>    \* any other site: official pages, providers, example.invalid

Links(views) == UNION views

-------------------------------------------------------------------------------
(* What a screen is *)

NoSheet == [kind |-> "none", links |-> {}, bar |-> FALSE]

\* Where a screen has an action bar: nowhere, always, or only while the Overview tab is shown.
Plain(state, model, links) ==
  [state |-> state, from |-> model.from, links |-> links, tabs |-> <<>>, mirrored |-> FALSE,
   sheet |-> NoSheet, bar |-> "none"]

AppHeader(back, actions) == back \cup actions

-------------------------------------------------------------------------------
(* Components with links *)

RouteCard(route) == route.watchHref \cup route.viewHref
CommercialBaselineCard(baseline) == baseline.watchHref \cup baseline.openHref
TripCard(trip) == trip.href
TerminalCard(terminal) == terminal.href
MapMarkerList(markers) == Links({ marker.href : marker \in markers })
SourceLedger(rows) == Links({ row.href : row \in rows })
AlertRow(alert) == alert.href
AlertList(alerts) == Links({ AlertRow(alert) : alert \in alerts })
HistoricalStats(history) == history.methodologyHref
NotRankedNotice(notice) == SourceLedger(notice.rows) \cup notice.href
HonestAbsencePanel(absence) ==
  SourceLedger(absence.ledger) \cup absence.nextAction \cup
  Links({ CommercialBaselineCard(baseline) : baseline \in absence.commercial }) \cup absence.whyHref

-------------------------------------------------------------------------------
(* Synthetic views, for the showcase only *)

fixtureRoute == [viewHref |-> {showcase}, watchHref |-> {showcase}]
fixtureCandidate == [viewHref |-> {showcase}, watchHref |-> {}]
fixtureCommercial == [openHref |-> {showcase}, watchHref |-> {showcase}]
fixtureMap == { [href |-> {showcase}], [href |-> {}] }
fixtureTerminal == [href |-> {showcase}]
fixtureTerminalUnverified == [href |-> {showcase}]
fixtureLedger == { [href |-> {}], [href |-> {external}] }
fixtureAlertRows == { [href |-> {showcase}] }
fixtureTrip == [href |-> {showcase}]
tripWithoutRoute == [href |-> {showcase}]
fixtureHistory == [methodologyHref |-> {showcase}]
fixtureAskAnswer == [options |-> {showcase}, actions |-> {showcase}]
fixtureAskAnswerUnknown == [options |-> {}, actions |-> {showcase}]
fixtureNotices ==
  [notRanked |-> [rows |-> fixtureLedger, href |-> {showcase}],
   absence |-> [ledger |-> fixtureLedger, nextAction |-> {showcase},
                commercial |-> {fixtureCommercial}, whyHref |-> {showcase}]]

-------------------------------------------------------------------------------
(* Plan *)

emptyPlan == [status |-> "empty", from |-> "empty", watching |-> {}, nearbyTerminals |-> {},
              settings |-> [party |-> {}, whyHref |-> {<<"profile">>}]]

\* The eligibility's own link is in the model and on no screen but the profile.
fixturePlan == [status |-> "ready", from |-> "fixture", watching |-> {fixtureTrip},
                nearbyTerminals |-> {fixtureTerminal, fixtureTerminalUnverified},
                settings |-> [party |-> {showcase}, whyHref |-> {showcase}]]

TripSettingsSheet(settings) ==
  [kind |-> "while_open", links |-> settings.party \cup settings.whyHref, bar |-> TRUE]

PlanScreen(model) ==
  CASE model.status = "empty" -> Plain("empty", model, {<<"terminals">>})
    [] model.status \in {"loading", "error"} -> Plain(model.status, model, {})
    [] OTHER ->
         [Plain("ready", model, {<<"trips">>} \cup Links({ TripCard(trip) : trip \in model.watching })
                                \cup Links({ terminal.href : terminal \in model.nearbyTerminals }))
          EXCEPT !.sheet = TripSettingsSheet(model.settings)]

-------------------------------------------------------------------------------
(* Results *)

WhyOrderSheet == [kind |-> "while_open", links |-> {}, bar |-> FALSE]

fixtureResults ==
  [status |-> "ready", from |-> "fixture", map |-> fixtureMap, baseline |-> {fixtureCommercial},
   routes |-> {fixtureRoute, fixtureCandidate}, notRanked |-> {fixtureNotices.notRanked},
   absence |-> {}, compareHref |-> {<<"showcase", "results">>}]
fixtureResultsRefreshing == [fixtureResults EXCEPT !.status = "refreshing"]
fixtureResultsNoRoute ==
  [fixtureResults EXCEPT !.status = "no_route", !.baseline = {}, !.routes = {}, !.notRanked = {},
                         !.absence = {fixtureNotices.absence}]

\* While results are refreshed, the last ones stay.  Without a route the sheet is rendered too, but
\* the button that opens it is not.
ResultsScreen(model) ==
  LET header == AppHeader({<<"trips">>}, {}) IN
  CASE model.status \in {"loading", "error"} -> Plain(model.status, model, header)
    [] model.status = "no_route" ->
         Plain("no_route", model, header \cup Links({ HonestAbsencePanel(a) : a \in model.absence }))
    [] OTHER ->
         [Plain("ready", model,
            header \cup MapMarkerList(model.map) \cup model.compareHref
            \cup Links({ CommercialBaselineCard(baseline) : baseline \in model.baseline })
            \cup Links({ RouteCard(route) : route \in model.routes })
            \cup Links({ NotRankedNotice(notice) : notice \in model.notRanked }))
          EXCEPT !.sheet = WhyOrderSheet]

-------------------------------------------------------------------------------
(* Trips, comparison and one route *)

emptyTrips == [status |-> "empty", from |-> "empty", trips |-> {}, newTripHref |-> {<<>>}]
fixtureTrips == [status |-> "ready", from |-> "fixture", trips |-> {fixtureTrip, tripWithoutRoute},
                 newTripHref |-> {showcase}]

TripsScreen(model) ==
  LET header == AppHeader({}, model.newTripHref) IN
  CASE model.status \in {"empty", "loading", "error"} -> Plain(model.status, model, header)
    [] OTHER -> Plain("ready", model, header \cup Links({ TripCard(trip) : trip \in model.trips }))

\* Defect: the live model is made from the synthetic one and keeps where it leads to.
emptyCompare_from_fixture ==
  [status |-> "empty", from |-> "empty", options |-> {}, watchAllHref |-> {}, openHref |-> {showcase}]

emptyCompare == [status |-> "empty", from |-> "empty", options |-> {}, watchAllHref |-> {},
                 openHref |-> {<<"trips">>}]
fixtureCompare == [status |-> "ready", from |-> "fixture", options |-> {showcase},
                   watchAllHref |-> {showcase}, openHref |-> {showcase}]

CompareScreen(model) ==
  LET header == AppHeader({<<"trips">>}, {}) IN
  CASE model.status = "empty" -> Plain("empty", model, header \cup model.openHref)
    [] model.status \in {"loading", "error"} -> Plain(model.status, model, header)
    [] OTHER -> [Plain("ready", model, header \cup model.options \cup model.watchAllHref
                                       \cup model.openHref) EXCEPT !.bar = "always"]

emptyRouteDetail ==
  [status |-> "empty", from |-> "empty", map |-> {},
   openHref |-> {<<"trips">>}, reportHref |-> {<<"trips">>},
   primary |-> {}, others |-> {}, history |-> [methodologyHref |-> {}], prepareHref |-> {<<"trips">>},
   watchHref |-> {}, shareHref |-> {}]
fixtureRouteDetail ==
  [status |-> "ready", from |-> "fixture", map |-> fixtureMap, openHref |-> {external},
   reportHref |-> {showcase}, primary |-> {fixtureCommercial}, others |-> {showcase},
   history |-> fixtureHistory, prepareHref |-> {showcase}, watchHref |-> {showcase},
   shareHref |-> {showcase}]

TAB_IDS == <<"overview", "evidence", "fallback", "history">>

\* The action bar is mounted only while the mirror of the Tabs says Overview.
RouteActions == "overview"

\* The panels of all tabs are mounted, so all their links are on the page.
RouteDetailScreen(model) ==
  LET header == AppHeader({<<"trips">>}, model.shareHref) IN
  CASE model.status = "empty" -> Plain("empty", model, header \cup {<<"trips">>})
    [] model.status \in {"loading", "error"} -> Plain(model.status, model, header)
    [] OTHER ->
         [Plain("ready", model,
            header \cup MapMarkerList(model.map) \cup model.openHref \cup model.reportHref
            \cup Links({ CommercialBaselineCard(baseline) : baseline \in model.primary })
            \cup model.others \cup HistoricalStats(model.history)
            \cup model.watchHref \cup model.prepareHref)
          EXCEPT !.tabs = TAB_IDS, !.mirrored = TRUE, !.bar = RouteActions]

-------------------------------------------------------------------------------
(* Alerts, Ask, Profile *)

emptyAlerts == [status |-> "empty", from |-> "empty", alerts |-> {}, settingsHref |-> {<<"profile">>}]
fixtureAlerts == [status |-> "ready", from |-> "fixture", alerts |-> fixtureAlertRows,
                  settingsHref |-> {showcase}]

AlertsScreen(model) ==
  LET header == AppHeader({}, model.settingsHref) IN
  CASE model.status \in {"empty", "loading", "error"} -> Plain(model.status, model, header)
    [] OTHER -> Plain("ready", model, header \cup AlertList(model.alerts))

emptyAsk == [status |-> "empty", from |-> "empty", answer |-> {}]
fixtureAsk == [status |-> "ready", from |-> "fixture", answer |-> {fixtureAskAnswer}]
fixtureAskUnknown == [fixtureAsk EXCEPT !.answer = {fixtureAskAnswerUnknown}]

\* The composer is always disabled; a ready model without an answer is an error.
AskScreen(model) ==
  LET header == AppHeader({}, {<<>>}) IN
  CASE model.status \in {"empty", "loading", "error"} -> Plain(model.status, model, header)
    [] model.status = "ready" /\ model.answer = {} -> Plain("error", model, header)
    [] OTHER -> Plain("ready", model,
                  header \cup Links({ answer.options \cup answer.actions : answer \in model.answer }))

emptyProfile == [status |-> "empty", from |-> "empty", party |-> {}, detailHref |-> {},
                 notificationsHref |-> {<<"profile">>}, advancedHref |-> {<<"advanced">>}]
fixtureProfile == [status |-> "ready", from |-> "fixture", party |-> {showcase},
                   detailHref |-> {<<"showcase", "profile", "eligibility">>},
                   notificationsHref |-> {showcase}, advancedHref |-> {<<"advanced">>}]

ProfileScreen(model) ==
  LET header == AppHeader({}, model.advancedHref) IN
  CASE model.status \in {"empty", "loading", "error"} -> Plain(model.status, model, header)
    [] OTHER -> Plain("ready", model, header \cup model.party \cup model.detailHref
                                      \cup {<<"profile", "readiness">>} \cup model.notificationsHref)

emptyEligibilityDetail == [status |-> "empty", from |-> "empty"]
fixtureEligibilityDetail == [status |-> "ready", from |-> "fixture"]

EligibilityDetailScreen(model) == Plain(model.status, model, AppHeader({<<"profile">>}, {}))

ReadinessScreen(model, backHref) ==
  LET header == AppHeader(backHref, {}) IN
  CASE model.status \in {"empty", "loading", "error"} -> Plain(model.status, model, header)
    [] OTHER -> [Plain("ready", model, header) EXCEPT !.bar = "always"]

-------------------------------------------------------------------------------
(* Terminals and sources *)

fixtureTerminalNetwork ==
  [status |-> "ready", from |-> "fixture", map |-> fixtureMap,
   terminals |-> {fixtureTerminal, fixtureTerminalUnverified}, selected |-> {fixtureHistory}]

\* The sheet of the selected terminal is mounted all the time; live, none is selected.
TerminalNetworkScreen(model) ==
  LET header == AppHeader({<<>>}, {}) IN
  CASE model.status \in {"empty", "loading", "error"} -> Plain(model.status, model, header)
    [] OTHER ->
         [Plain("ready", model, header \cup MapMarkerList(model.map)
                  \cup Links({ TerminalCard(terminal) : terminal \in model.terminals }))
          EXCEPT !.sheet = IF model.selected = {} THEN NoSheet
                           ELSE [kind |-> "kept", bar |-> FALSE,
                                 links |-> Links({ HistoricalStats(h) : h \in model.selected })]]

fixtureTerminalDetail ==
  [status |-> "ready", from |-> "fixture", map |-> fixtureMap, directionsHref |-> {external},
   watchHref |-> {showcase}, officialHref |-> {external}, handoffs |-> {external},
   history |-> fixtureHistory, compareHref |-> {<<"showcase", "terminals">>}]

\* Here nobody follows the Tabs' selection: no panel holds an action bar.
TerminalDetailScreen(model) ==
  LET header == AppHeader({<<"terminals">>}, {}) IN
  CASE model.status \in {"empty", "loading", "error"} -> Plain(model.status, model, header)
    [] OTHER ->
         [Plain("ready", model,
            header \cup MapMarkerList(model.map) \cup model.directionsHref \cup model.watchHref
            \cup model.officialHref \cup model.handoffs \cup HistoricalStats(model.history)
            \cup model.compareHref)
          EXCEPT !.tabs = <<"overview", "travel", "evidence", "history">>]

fixtureSourceHealth == [status |-> "ready", from |-> "fixture", rows |-> {external}]

SourceHealthScreen(model) ==
  LET header == AppHeader({<<"profile">>}, {}) IN
  CASE model.status \in {"empty", "loading", "error"} -> Plain(model.status, model, header)
    [] OTHER -> Plain("ready", model, header \cup model.rows)

-------------------------------------------------------------------------------
(* The gallery of components *)

Showcase ==
  [Plain("ready", [from |-> "fixture"],
     AppHeader({<<>>}, {}) \cup SourceLedger(fixtureLedger) \cup RouteCard(fixtureRoute)
     \cup RouteCard(fixtureCandidate) \cup CommercialBaselineCard(fixtureCommercial)
     \cup MapMarkerList(fixtureMap) \cup HistoricalStats(fixtureHistory)
     \cup TerminalCard(fixtureTerminal) \cup TerminalCard(fixtureTerminalUnverified)
     \cup TripCard(fixtureTrip) \cup AlertList(fixtureAlertRows))
   EXCEPT !.tabs = TAB_IDS, !.bar = "always",
          !.sheet = [kind |-> "kept", links |-> {}, bar |-> FALSE]]

ShowcaseNotices ==
  Plain("ready", [from |-> "fixture"],
    AppHeader({<<>>}, {}) \cup NotRankedNotice(fixtureNotices.notRanked)
    \cup HonestAbsencePanel(fixtureNotices.absence))

-------------------------------------------------------------------------------
(* Pages; data says how the page's read of the API ended *)

NotFound == Plain("not_found", [from |-> "empty"], {<<>>})

PlanPage(data) == Plain(data, [from |-> "api"], {})

TripsPage(data) ==
  TripsScreen([emptyTrips EXCEPT !.status = data, !.from = "api",
               !.trips = IF data = "ready" THEN {[href |-> {<<"trips", "id">>}]} ELSE {}])

\* The links are to schedules, official pages and flight searches.
TripPage(data) ==
  IF data = "empty" THEN NotFound ELSE Plain(data, [from |-> "api"], {external})

\* A terminal's card and its marker lead to its page.
TerminalsPage(data) ==
  LET listed == IF data = "ready" THEN {[href |-> {<<"terminals", "id">>}]} ELSE {} IN
  TerminalNetworkScreen([status |-> data, from |-> "api", map |-> listed, terminals |-> listed,
                         selected |-> {}])

TerminalDetailPage(data) ==
  IF data = "empty" THEN NotFound
  ELSE TerminalDetailScreen(
         [status |-> data, from |-> "api", map |-> {[href |-> {<<"terminals", "id">>}]},
          directionsHref |-> {external}, watchHref |-> {}, officialHref |-> {external}, handoffs |-> {},
          history |-> [methodologyHref |-> {}], compareHref |-> {}])

AdvancedPage(data) == SourceHealthScreen([status |-> data, from |-> "api", rows |-> {external}])

LoginPage == Plain("login", [from |-> "empty"], {})

\* The pages without a contract of the API: none of them reads anything.
ComparePage == CompareScreen(emptyCompare)
RouteDetailPage == RouteDetailScreen(emptyRouteDetail)
AlertsPage == AlertsScreen(emptyAlerts)
AskPage == AskScreen(emptyAsk)
ProfilePage == ProfileScreen(emptyProfile)
EligibilityPage == EligibilityDetailScreen(emptyEligibilityDetail)
ReadinessPage == ReadinessScreen(emptyProfile, {<<"profile">>})

\* Every page under /showcase renders a fixture; none of them reads anything.
ShowcasePage(path) ==
  CASE path = <<"showcase">> -> Showcase
    [] path = <<"showcase", "plan">> -> PlanScreen(fixturePlan)
    [] path \in {<<"showcase", "results">>, <<"showcase", "advanced", "desktop">>} ->
         ResultsScreen(fixtureResults)
    [] path = <<"showcase", "results", "refreshing">> -> ResultsScreen(fixtureResultsRefreshing)
    [] path = <<"showcase", "results", "no-route">> -> ResultsScreen(fixtureResultsNoRoute)
    [] path = <<"showcase", "trips">> -> TripsScreen(fixtureTrips)
    [] path = <<"showcase", "compare">> -> CompareScreen(fixtureCompare)
    [] path = <<"showcase", "route-detail">> -> RouteDetailScreen(fixtureRouteDetail)
    [] path = <<"showcase", "alerts">> -> AlertsScreen(fixtureAlerts)
    [] path = <<"showcase", "ask">> -> AskScreen(fixtureAsk)
    [] path = <<"showcase", "ask", "unknown">> -> AskScreen(fixtureAskUnknown)
    [] path = <<"showcase", "profile">> -> ProfileScreen(fixtureProfile)
    [] path = <<"showcase", "profile", "eligibility">> ->
         EligibilityDetailScreen(fixtureEligibilityDetail)
    [] path = <<"showcase", "profile", "readiness">> ->
         ReadinessScreen(fixtureProfile, {<<"showcase", "profile">>})
    [] path = <<"showcase", "terminals">> -> TerminalNetworkScreen(fixtureTerminalNetwork)
    [] path = <<"showcase", "terminals", "detail">> -> TerminalDetailScreen(fixtureTerminalDetail)
    [] path = <<"showcase", "advanced">> -> SourceHealthScreen(fixtureSourceHealth)
    [] path = <<"showcase", "notices">> -> ShowcaseNotices
    [] OTHER -> NotFound

ShowcaseLayout(path, production) == IF production THEN NotFound ELSE ShowcasePage(path)

\* The routes of the application are the directories of app/.
Page(path, production, data) ==
  CASE IsPrefix(showcase, path) -> ShowcaseLayout(path, production)
    [] path = <<>> -> PlanPage(data)
    [] path = <<"login">> -> LoginPage
    [] path = <<"trips">> -> TripsPage(data)
    [] path = <<"trips", "id">> -> TripPage(data)
    [] path = <<"trips", "id", "compare">> -> ComparePage
    [] path = <<"trips", "id", "routes", "id">> -> RouteDetailPage
    [] path = <<"alerts">> -> AlertsPage
    [] path = <<"terminals">> -> TerminalsPage(data)
    [] path = <<"terminals", "id">> -> TerminalDetailPage(data)
    [] path = <<"advanced">> -> AdvancedPage(data)
    [] path = <<"ask">> -> AskPage
    [] path = <<"profile">> -> ProfilePage
    [] path = <<"profile", "eligibility">> -> EligibilityPage
    [] path = <<"profile", "readiness">> -> ReadinessPage
    [] OTHER -> NotFound

\* The paths with a read of the API, and how it may end ("error": not configured, or failed).
Data(path) ==
  IF path \in {<<>>, <<"trips">>, <<"trips", "id">>, <<"terminals">>, <<"terminals", "id">>,
               <<"advanced">>}
  THEN {"ready", "empty", "error"} ELSE {"ready"}

-------------------------------------------------------------------------------
(* Navigation *)

MOBILE_NAV == {<<>>, <<"trips">>, <<"alerts">>, <<"terminals">>, <<"profile">>}
RAIL_PRIMARY == {<<>>, <<"trips">>, <<"terminals">>, <<"alerts">>}
RAIL_SECONDARY == {<<"profile">>, <<"advanced">>}
ASK_HREF == <<"ask">>

isActive(pathname, href) == IF href = <<>> THEN pathname = <<>> ELSE IsPrefix(href, pathname)
===============================================================================
