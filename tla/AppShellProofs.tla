----------------------------- MODULE AppShellProofs -----------------------------
(***************************************************************************)
(* What holds of one browser tab for every set of paths that may be typed  *)
(* in: its parts stay in their domains, the marks on the body match what   *)
(* is in sight once React and the browser have caught up, and live pages   *)
(* lead to live pages only.                                                *)
(*                                                                         *)
(* The marks hang on two facts about the screens: no screen has two action *)
(* bars, and the one whose bar belongs to a tab follows the Tabs.          *)
(***************************************************************************)
EXTENDS AppShell, TLAPS

-------------------------------------------------------------------------------
(* What all screens have in common *)

TerminalTabs == <<"overview", "travel", "evidence", "history">>

\* Only a mirrored screen has a bar on a tab, and no screen has a bar on the page and in a sheet;
\* a sheet that is mounted while it is closed has none.
Shape(s) ==
  /\ s.tabs \in {<<>>, TAB_IDS, TerminalTabs}
  /\ s.mirrored \in BOOLEAN /\ s.sheet.bar \in BOOLEAN
  /\ s.bar \in {"none", "always", "overview"} /\ s.sheet.kind \in {"none", "while_open", "kept"}
  /\ s.mirrored => s.tabs = TAB_IDS /\ s.bar = "overview"
  /\ s.bar = "overview" => s.mirrored
  /\ s.sheet.bar => s.sheet.kind = "while_open" /\ s.bar = "none"

\* The plain screen, with any state, model and links.
LEMMA PlainShape ==
  ASSUME NEW state, NEW model, NEW links
  PROVE  /\ Shape(Plain(state, model, links))
         /\ Shape([Plain(state, model, links) EXCEPT !.bar = "always"])
         /\ Shape([Plain(state, model, links) EXCEPT !.sheet = WhyOrderSheet])
         /\ Shape([Plain(state, model, links) EXCEPT !.tabs = TerminalTabs])
         /\ Shape([Plain(state, model, links)
                    EXCEPT !.tabs = TAB_IDS, !.mirrored = TRUE, !.bar = RouteActions])
BY DEF Plain, Shape, NoSheet, WhyOrderSheet, RouteActions

\* The screens, whatever their models.
LEMMA ScreenShapes ==
  ASSUME NEW model, NEW back
  PROVE  /\ Shape(PlanScreen(model)) /\ Shape(ResultsScreen(model)) /\ Shape(TripsScreen(model))
         /\ Shape(CompareScreen(model)) /\ Shape(RouteDetailScreen(model))
         /\ Shape(AlertsScreen(model)) /\ Shape(AskScreen(model)) /\ Shape(ProfileScreen(model))
         /\ Shape(EligibilityDetailScreen(model)) /\ Shape(ReadinessScreen(model, back))
         /\ Shape(TerminalNetworkScreen(model)) /\ Shape(TerminalDetailScreen(model))
         /\ Shape(SourceHealthScreen(model))
<1>1. Shape(PlanScreen(model))
  <2>1. ASSUME NEW links
        PROVE  Shape([Plain("ready", model, links) EXCEPT !.sheet = TripSettingsSheet(model.settings)])
    BY DEF Plain, Shape, NoSheet, TripSettingsSheet
  <2> QED
    BY <2>1, PlainShape DEF PlanScreen
<1>2. Shape(ResultsScreen(model))
  BY PlainShape DEF ResultsScreen
<1>3. Shape(TripsScreen(model)) /\ Shape(CompareScreen(model))
  BY PlainShape DEF TripsScreen, CompareScreen
<1>4. Shape(RouteDetailScreen(model))
  BY PlainShape DEF RouteDetailScreen
<1>5. Shape(AlertsScreen(model)) /\ Shape(AskScreen(model)) /\ Shape(ProfileScreen(model))
  BY PlainShape DEF AlertsScreen, AskScreen, ProfileScreen
<1>6. Shape(EligibilityDetailScreen(model)) /\ Shape(ReadinessScreen(model, back))
  BY PlainShape DEF EligibilityDetailScreen, ReadinessScreen
<1>7. Shape(TerminalNetworkScreen(model))
  <2>1. ASSUME NEW links, NEW s
        PROVE  Shape([Plain("ready", model, links) EXCEPT !.sheet =
                        IF model.selected = {} THEN NoSheet
                        ELSE [kind |-> "kept", bar |-> FALSE, links |-> s]])
    BY DEF Plain, Shape, NoSheet
  <2> QED
    BY <2>1, PlainShape DEF TerminalNetworkScreen
<1>8. Shape(TerminalDetailScreen(model)) /\ Shape(SourceHealthScreen(model))
  BY PlainShape DEF TerminalDetailScreen, SourceHealthScreen, TerminalTabs
<1> QED
  BY <1>1, <1>2, <1>3, <1>4, <1>5, <1>6, <1>7, <1>8

\* So every page, of the application and of the gallery, has this shape.
LEMMA PageShape ==
  ASSUME NEW p, NEW built, NEW read
  PROVE  Shape(Page(p, built, read))
<1>1. Shape(NotFound) /\ Shape(LoginPage) /\ Shape(PlanPage(read)) /\ Shape(ShowcaseNotices)
  BY PlainShape DEF NotFound, LoginPage, PlanPage, ShowcaseNotices
<1>2. Shape(Showcase)
  <2>1. ASSUME NEW model, NEW links
        PROVE  Shape([Plain("ready", model, links)
                       EXCEPT !.tabs = TAB_IDS, !.bar = "always",
                              !.sheet = [kind |-> "kept", links |-> {}, bar |-> FALSE]])
    BY DEF Plain, Shape
  <2> QED
    BY <2>1 DEF Showcase
<1>3. /\ Shape(TripsPage(read)) /\ Shape(TripPage(read)) /\ Shape(TerminalsPage(read))
      /\ Shape(TerminalDetailPage(read)) /\ Shape(AdvancedPage(read))
  BY <1>1, PlainShape, ScreenShapes DEF TripsPage, TripPage, TerminalsPage, TerminalDetailPage, AdvancedPage
<1>4. Shape(ShowcaseLayout(p, built))
  BY <1>1, <1>2, ScreenShapes DEF ShowcaseLayout, ShowcasePage
<1>5. /\ Shape(ComparePage) /\ Shape(RouteDetailPage) /\ Shape(AlertsPage) /\ Shape(AskPage)
      /\ Shape(ProfilePage) /\ Shape(EligibilityPage) /\ Shape(ReadinessPage)
  BY ScreenShapes DEF ComparePage, RouteDetailPage, AlertsPage, AskPage, ProfilePage, EligibilityPage,
                      ReadinessPage
<1> QED
  BY <1>1, <1>3, <1>4, <1>5 DEF Page

-------------------------------------------------------------------------------
(* The invariant *)

PlaceInv ==
  /\ production \in BOOLEAN /\ data \in Data(path)
  /\ IF screen.tabs = <<>> THEN tab = "none" ELSE tab \in ToSet(screen.tabs)
  /\ activeTab \in ToSet(TAB_IDS)
  /\ screen.mirrored => activeTab = tab

\* A dialog exists while its sheet is mounted; it has room for the event of a closing React asks for.
SheetInv ==
  /\ sheet \in BOOLEAN /\ dialog \in {"absent", "closed", "open"} /\ closing \in 0..MaxClosing
  /\ dialog = "absent" <=> ~sheet_mounted
  /\ ~sheet /\ dialog = "open" => closing < MaxClosing
  /\ ran.open = {<<path, sheet>>} /\ sheet /\ sheet_mounted => dialog = "open" \/ closing > 0

\* A mark says whether its effect ran last for something; there was one action bar at most.
MarksInv ==
  /\ marks \in [stickyBar : BOOLEAN, noFab : BOOLEAN]
  /\ marks.stickyBar <=> ran.bars # {}
  /\ marks.noFab <=> ran.hidden
  /\ ran.hidden \in BOOLEAN
  /\ \E bar : ran.bars \subseteq {bar}

IInv == PlaceInv /\ SheetInv /\ MarksInv

\* At most one action bar is mounted.
LEMMA OneBar == \E bar : Bars \subseteq {bar}
<1>1. Shape(screen)
  BY PageShape DEF screen
<1>2. CASE screen.bar = "none"
  BY <1>2 DEF Bars
<1>3. CASE screen.bar # "none"
  BY <1>1, <1>3 DEF Bars, Shape
<1> QED
  BY <1>2, <1>3

LEMMA HiddenIsBoolean == hidden \in BOOLEAN
BY DEF hidden, isActive, IsPrefix, ASK_HREF

\* A page starts with its first tab, if it has any.
LEMMA FirstTab ==
  ASSUME NEW p, NEW d
  PROVE  LET tabs == Page(p, production, d).tabs IN
         IF tabs = <<>> THEN firstTab(p, d) = "none" ELSE firstTab(p, d) \in ToSet(tabs)
<1>1. Page(p, production, d).tabs \in {<<>>, TAB_IDS, TerminalTabs}
  BY PageShape DEF Shape
<1>2. TAB_IDS # <<>> /\ TAB_IDS[1] \in ToSet(TAB_IDS)
  BY DEF TAB_IDS, ToSet
<1>3. TerminalTabs # <<>> /\ TerminalTabs[1] \in ToSet(TerminalTabs)
  BY DEF TerminalTabs, ToSet
<1> QED
  BY <1>1, <1>2, <1>3 DEF firstTab

\* A page that has just been shown satisfies the parts of the invariant that are about it.
Fresh ==
  /\ production \in BOOLEAN /\ data \in Data(path) /\ tab = firstTab(path, data)
  /\ activeTab = "overview" /\ sheet = FALSE /\ closing = 0
  /\ dialog = IF screen.sheet.kind = "kept" THEN "closed" ELSE "absent"

LEMMA FreshPage == Fresh => PlaceInv /\ SheetInv
<1> SUFFICES ASSUME Fresh PROVE PlaceInv /\ SheetInv
  OBVIOUS
<1>1. Shape(screen)
  BY PageShape DEF screen
<1>2. screen.mirrored => tab = "overview"
  BY <1>1 DEF Fresh, firstTab, screen, Shape, TAB_IDS
<1>3. activeTab \in ToSet(TAB_IDS)
  BY DEF Fresh, ToSet, TAB_IDS
<1>4. PlaceInv
  BY <1>2, <1>3, FirstTab DEF Fresh, PlaceInv, screen
<1>5. closing \in 0..MaxClosing /\ closing < MaxClosing
  BY DEF Fresh, MaxClosing
<1>6. dialog = "absent" <=> ~sheet_mounted
  BY DEF Fresh, sheet_mounted
<1>7. SheetInv
  BY <1>5, <1>6 DEF Fresh, SheetInv
<1> QED
  BY <1>4, <1>7

LEMMA InitialInvariant == Init => IInv
<1> SUFFICES ASSUME Init PROVE IInv
  OBVIOUS
<1>1. PlaceInv /\ SheetInv
  BY FreshPage DEF Init, Fresh
<1>2. MarksInv
  BY DEF Init, MarksInv, NothingRan
<1> QED
  BY <1>1, <1>2 DEF IInv

\* Navigation: what holds of a fresh page holds after the step that showed it.
LEMMA ShowKeeps ==
  ASSUME IInv, NEW p, Show(p)
  PROVE  (PlaceInv /\ SheetInv)'
<1>1. Fresh'
  BY DEF IInv, PlaceInv, Show, screen, firstTab, Fresh
<1> QED
  BY <1>1, FreshPage, PTL

\* Every step of a sheet keeps what holds of sheets, and nothing but it changes.
LEMMA SetSheetKeeps ==
  ASSUME IInv, NEW open \in BOOLEAN, SetSheet(open),
         open => settled /\ ~sheet /\ screen.sheet.kind # "none" /\ closing' = closing,
         ~open => /\ closing' \in 0..MaxClosing
                  /\ screen.sheet.kind = "kept" /\ dialog = "open" => closing' < MaxClosing
  PROVE  IInv'
<1>1. PlaceInv' /\ MarksInv'
  BY DEF IInv, PlaceInv, MarksInv, SetSheet, place, screen
<1>2. screen' = screen /\ path' = path /\ sheet' = open /\ ran' = ran
  BY DEF SetSheet, place, screen
<1>3. Shape(screen)
  BY PageShape DEF screen
<1>4. (dialog = "absent" <=> ~sheet_mounted)'
  BY <1>2, <1>3 DEF IInv, SheetInv, SetSheet, sheet_mounted, Shape
<1>5. sheet' \in BOOLEAN /\ dialog' \in {"absent", "closed", "open"} /\ closing' \in 0..MaxClosing
  BY <1>2 DEF IInv, SheetInv, SetSheet
<1>6. (~sheet /\ dialog = "open" => closing < MaxClosing)'
  BY <1>2 DEF SetSheet
<1>7. ~(ran.open = {<<path, sheet>>} /\ sheet)'
  <2>1. CASE open
    <3>1. sheet = FALSE /\ sheet' = TRUE
      BY <2>1, <1>2 DEF IInv, SheetInv
    <3>2. ran.open = IF sheet_mounted THEN {<<path, sheet>>} ELSE {}
      BY <2>1 DEF settled, committed
    <3>3. <<path, FALSE>> # <<path, TRUE>>
      OBVIOUS
    <3> QED
      BY <1>2, <3>1, <3>2, <3>3
  <2>2. CASE ~open
    BY <2>2, <1>2
  <2> QED
    BY <2>1, <2>2
<1> QED
  BY <1>1, <1>4, <1>5, <1>6, <1>7 DEF IInv, SheetInv

\* The browser's part, and React's.
LEMMA EscapeKeeps == IInv /\ Escape => IInv'
<1> SUFFICES ASSUME IInv, Escape PROVE IInv'
  OBVIOUS
<1>1. screen' = screen /\ path' = path /\ sheet' = sheet /\ ran' = ran /\ sheet_mounted' = sheet_mounted
  BY DEF Escape, place, screen, sheet_mounted
<1>2. PlaceInv' /\ MarksInv'
  BY DEF Escape, IInv, PlaceInv, MarksInv, place, screen
<1>3. SheetInv'
  BY <1>1 DEF Escape, IInv, SheetInv, MaxClosing
<1> QED
  BY <1>2, <1>3 DEF IInv

LEMMA EffectsKeep == IInv /\ RunEffects => IInv'
<1> SUFFICES ASSUME IInv, RunEffects PROVE IInv'
  OBVIOUS
<1>1. screen' = screen /\ path' = path /\ sheet' = sheet /\ sheet_mounted' = sheet_mounted
  BY DEF RunEffects, place, screen, sheet_mounted
<1>2. PlaceInv'
  BY DEF RunEffects, IInv, PlaceInv, place, screen
<1>3. ran' = [bars |-> Bars, open |-> committed.open, hidden |-> hidden]
  BY DEF RunEffects, committed
<1>4. committed.open = IF sheet_mounted THEN {<<path, sheet>>} ELSE {}
  BY DEF committed
<1>5. SheetInv'
  <2>1. CASE committed.open \in {{}, ran.open}
    <3>1. dialog' = dialog /\ closing' = closing
      BY <2>1 DEF RunEffects, Sheet
    <3>2. sheet_mounted => ran'.open = ran.open
      BY <2>1, <1>3, <1>4
    <3> QED
      BY <1>1, <3>1, <3>2 DEF IInv, SheetInv
  <2>2. CASE committed.open \notin {{}, ran.open}
    <3>1. sheet_mounted
      BY <2>2, <1>4
    <3>2. /\ dialog' = IF sheet THEN "open" ELSE "closed"
          /\ closing' = IF ~sheet /\ dialog = "open" THEN closing + 1 ELSE closing
      BY <2>2 DEF RunEffects, Sheet
    <3> QED
      BY <1>1, <3>1, <3>2 DEF IInv, SheetInv, MaxClosing
  <2> QED
    BY <2>1, <2>2
<1>6. MarksInv'
  <2>1. marks' = [stickyBar |-> StickyActionBar(marks.stickyBar), noFab |-> AskPaxPivotAction(marks.noFab)]
    BY DEF RunEffects
  <2>2. StickyActionBar(marks.stickyBar) <=> Bars # {}
    BY OneBar DEF IInv, MarksInv, StickyActionBar
  <2>3. StickyActionBar(marks.stickyBar) \in BOOLEAN
    BY DEF IInv, MarksInv, StickyActionBar
  <2>4. AskPaxPivotAction(marks.noFab) <=> hidden
    BY HiddenIsBoolean DEF IInv, MarksInv, AskPaxPivotAction
  <2>5. AskPaxPivotAction(marks.noFab) \in BOOLEAN
    BY HiddenIsBoolean DEF IInv, MarksInv, AskPaxPivotAction
  <2> QED
    BY <1>3, <2>1, <2>2, <2>3, <2>4, <2>5, OneBar, HiddenIsBoolean DEF MarksInv
<1> QED
  BY <1>2, <1>5, <1>6 DEF IInv

\* A tab of the page is selected.
LEMMA SelectKeeps ==
  ASSUME IInv, NEW index \in DOMAIN screen.tabs, select(index)
  PROVE  IInv'
<1>1. screen' = screen /\ sheet' = sheet /\ sheet_mounted' = sheet_mounted /\ path' = path
  BY DEF select, place, screen, sheet_mounted
<1>2. Shape(screen)
  BY PageShape DEF screen
<1>3. screen.tabs[index] \in ToSet(screen.tabs)
  BY DEF ToSet
<1>4. PlaceInv'
  BY <1>1, <1>2, <1>3 DEF select, place, IInv, PlaceInv, Shape
<1>5. SheetInv' /\ MarksInv'
  BY <1>1 DEF select, place, IInv, SheetInv, MarksInv
<1> QED
  BY <1>4, <1>5 DEF IInv

\* The arrow keys stay among the tabs of the page.
LEMMA KeysSelectATab ==
  ASSUME IInv, onKeyDown
  PROVE  \E index \in DOMAIN screen.tabs : select(index)
<1> DEFINE last == Len(screen.tabs)
           current == CHOOSE i \in 1..last : screen.tabs[i] = tab
<1>1. screen.tabs \in {TAB_IDS, TerminalTabs}
  BY PageShape DEF screen, Shape, onKeyDown
<1>2. last = 4 /\ DOMAIN screen.tabs = 1..4
  BY <1>1 DEF TAB_IDS, TerminalTabs
<1>3. \E i \in 1..last : screen.tabs[i] = tab
  BY <1>2 DEF IInv, PlaceInv, ToSet, onKeyDown
<1>4. current \in 1..last
  BY <1>3
<1>5. \/ select(IF current = last THEN 1 ELSE current + 1)
      \/ select(IF current = 1 THEN last ELSE current - 1)
      \/ select(1)
      \/ select(last)
  BY DEF onKeyDown
<1>6. (IF current = last THEN 1 ELSE current + 1) \in 1..4
  BY <1>2, <1>4
<1>7. (IF current = 1 THEN last ELSE current - 1) \in 1..4
  BY <1>2, <1>4
<1> HIDE DEF current, last
<1> QED
  BY <1>2, <1>5, <1>6, <1>7

LEMMA NextKeeps == IInv /\ [Next]_vars => IInv'
<1> SUFFICES ASSUME IInv, [Next]_vars PROVE IInv'
  OBVIOUS
<1>1. CASE RunEffects
  BY <1>1, EffectsKeep
<1>2. CASE OpenSheet
  BY <1>2, SetSheetKeeps DEF OpenSheet
<1>3. CASE CloseSheet
  <2>1. closing' \in 0..MaxClosing /\ (screen.sheet.kind = "kept" => closing' < MaxClosing)
    BY <1>3 DEF CloseSheet, IInv, SheetInv, MaxClosing
  <2> QED
    BY <1>3, <2>1, SetSheetKeeps DEF CloseSheet
<1>4. CASE Escape
  BY <1>4, EscapeKeeps
<1>5. CASE onClose
  <2>1. closing' \in 0..MaxClosing /\ (screen.sheet.kind = "kept" => closing' < MaxClosing)
    BY <1>5 DEF onClose, IInv, SheetInv, MaxClosing
  <2> QED
    BY <1>5, <2>1, SetSheetKeeps DEF onClose
<1>6. CASE SelectTab
  BY <1>6, SelectKeeps DEF SelectTab
<1>7. CASE onKeyDown
  BY <1>7, KeysSelectATab, SelectKeeps
<1>8. CASE Follow
  <2>1. PICK p : Show(p)
    BY <1>8 DEF Follow
  <2>2. MarksInv'
    BY <1>8 DEF Follow, IInv, MarksInv
  <2> QED
    BY <2>1, <2>2, ShowKeeps DEF IInv
<1>9. CASE GoBack
  <2>1. MarksInv'
    BY <1>9 DEF GoBack, IInv, MarksInv
  <2> QED
    BY <1>9, <2>1, ShowKeeps DEF IInv, GoBack
<1>10. CASE Load
  <2>1. PICK p : Show(p)
    BY <1>10 DEF Load
  <2>2. MarksInv'
    BY <1>10 DEF Load, MarksInv, NothingRan
  <2> QED
    BY <2>1, <2>2, ShowKeeps DEF IInv
<1>11. CASE UNCHANGED vars
  BY <1>11 DEF vars, place, IInv, PlaceInv, SheetInv, MarksInv, screen, sheet_mounted
<1> QED
  BY <1>1, <1>2, <1>3, <1>4, <1>5, <1>6, <1>7, <1>8, <1>9, <1>10, <1>11 DEF Next

LEMMA Invariance == Spec => []IInv
<1> QED
  BY InitialInvariant, NextKeeps, PTL DEF Spec

-------------------------------------------------------------------------------
(* The parts of the page stay in their domains, and the marks match what is in sight *)

\* TypeOK: a selected tab is one of the page's, a dialog exists exactly while its sheet is mounted,
\* and no more close events are queued than there were closings (Tabs.tsx, Sheet.tsx).
THEOREM TypeCorrect == Spec => []TypeOK
<1>1. IInv => TypeOK
  BY DEF IInv, PlaceInv, SheetInv, MarksInv, TypeOK
<1> QED
  BY <1>1, Invariance, PTL

\* Once everything has settled, each action bar that is mounted is in sight.
LEMMA MountedIsVisible ==
  ASSUME IInv, quiet
  PROVE  VisibleBars = Bars
<1>1. Shape(screen)
  BY PageShape DEF screen
<1>2. <<path, "page">> \in Bars => (screen.mirrored => tab = "overview")
  <2>1. <<path, "page">> \in Bars =>
          screen.bar = "always" \/ (screen.bar = "overview" /\ activeTab = "overview")
    BY DEF Bars
  <2> QED
    BY <2>1, <1>1 DEF Shape, IInv, PlaceInv
<1>3. <<path, "sheet">> \in Bars => dialog = "open"
  <2>1. <<path, "sheet">> \in Bars => sheet_mounted /\ screen.sheet.bar
    BY DEF Bars
  <2>2. <<path, "sheet">> \in Bars => sheet_mounted /\ sheet
    BY <2>1, <1>1 DEF sheet_mounted, Shape
  <2>3. sheet_mounted => ran.open = {<<path, sheet>>}
    BY DEF quiet, settled, committed
  <2>4. sheet_mounted /\ sheet => dialog = "open" \/ closing > 0
    BY <2>3 DEF IInv, SheetInv
  <2> QED
    BY <2>2, <2>4 DEF quiet
<1>4. \A bar \in Bars : bar = <<path, "page">> \/ bar = <<path, "sheet">>
  BY DEF Bars
<1> QED
  BY <1>2, <1>3, <1>4 DEF VisibleBars

\* MarksMatchWhatIsShown: the floating Ask action gives way exactly to an action bar in sight, on
\* every page, whatever was clicked while effects and close events were pending.
THEOREM MarksMatch == Spec => []MarksMatchWhatIsShown
<1>1. IInv => MarksMatchWhatIsShown
  <2> SUFFICES ASSUME IInv, quiet
               PROVE  (marks.stickyBar <=> VisibleBars # {}) /\ (marks.noFab <=> hidden)
    BY DEF MarksMatchWhatIsShown
  <2>1. ran.bars = Bars /\ ran.hidden = hidden
    BY DEF quiet, settled, committed
  <2> QED
    BY <2>1, MountedIsVisible DEF IInv, MarksInv
<1> QED
  BY <1>1, Invariance, PTL

-------------------------------------------------------------------------------
(* Live pages lead to live pages *)

\* The paths that live pages lead to.
LiveLinks ==
  {<<>>, <<"trips">>, <<"trips", "id">>, <<"alerts">>, <<"terminals">>, <<"terminals", "id">>,
   <<"advanced">>, <<"ask">>, <<"profile">>}

\* Nothing synthetic, and no way out but to these.
Live(s) ==
  s.from # "fixture" /\ s.links \subseteq LiveLinks \cup {external}
                     /\ s.sheet.links \subseteq LiveLinks \cup {external}

\* The pages that read nothing.
LEMMA LiveUnread ==
  /\ Live(NotFound) /\ Live(LoginPage) /\ Live(ComparePage) /\ Live(RouteDetailPage)
  /\ Live(AlertsPage) /\ Live(AskPage) /\ Live(ProfilePage) /\ Live(EligibilityPage)
  /\ Live(ReadinessPage)
<1>1. Live(NotFound) /\ Live(LoginPage)
  BY DEF NotFound, LoginPage, Live, Plain, NoSheet, LiveLinks
<1>2. Live(ComparePage) /\ Live(RouteDetailPage)
  BY DEF ComparePage, CompareScreen, emptyCompare, RouteDetailPage, RouteDetailScreen, emptyRouteDetail,
         AppHeader, Live, Plain, NoSheet, LiveLinks
<1>3. Live(AlertsPage) /\ Live(AskPage)
  BY DEF AlertsPage, AlertsScreen, emptyAlerts, AskPage, AskScreen, emptyAsk, AppHeader, Live, Plain,
         NoSheet, LiveLinks
<1>4. Live(ProfilePage) /\ Live(EligibilityPage)
  BY DEF ProfilePage, ProfileScreen, emptyProfile, EligibilityPage, EligibilityDetailScreen,
         emptyEligibilityDetail, AppHeader, Live, Plain, NoSheet, LiveLinks
<1>5. Live(ReadinessPage)
  BY DEF ReadinessPage, ReadinessScreen, emptyProfile, AppHeader, Live, Plain, NoSheet, LiveLinks
<1> QED
  BY <1>1, <1>2, <1>3, <1>4, <1>5

\* The pages that read the API, however the read ended.
LEMMA LiveRead ==
  ASSUME NEW read
  PROVE  /\ Live(PlanPage(read)) /\ Live(TripsPage(read)) /\ Live(TripPage(read))
         /\ Live(TerminalsPage(read)) /\ Live(TerminalDetailPage(read)) /\ Live(AdvancedPage(read))
<1>1. Live(PlanPage(read)) /\ Live(TripPage(read))
  BY LiveUnread DEF PlanPage, TripPage, Live, Plain, NoSheet
<1>2. Live(AdvancedPage(read))
  BY DEF AdvancedPage, SourceHealthScreen, AppHeader, Live, Plain, NoSheet, LiveLinks
<1>3. Live(TripsPage(read))
  <2> DEFINE listed == IF read = "ready" THEN {[href |-> {<<"trips", "id">>}]} ELSE {}
             model == [emptyTrips EXCEPT !.status = read, !.from = "api", !.trips = listed]
  <2>1. Links({ TripCard(trip) : trip \in listed }) \subseteq LiveLinks
    BY DEF Links, TripCard, LiveLinks
  <2>2. model.from = "api" /\ model.newTripHref = {<<>>} /\ model.trips = listed
    BY DEF emptyTrips
  <2> HIDE DEF listed, model
  <2>3. Live(TripsScreen(model))
    BY <2>1, <2>2 DEF TripsScreen, AppHeader, Live, Plain, NoSheet, LiveLinks
  <2> QED
    BY <2>3 DEF TripsPage, model, listed
<1>4. Live(TerminalsPage(read))
  <2> DEFINE listed == IF read = "ready" THEN {[href |-> {<<"terminals", "id">>}]} ELSE {}
             model == [status |-> read, from |-> "api", map |-> listed, terminals |-> listed, selected |-> {}]
  <2>1. /\ MapMarkerList(listed) \subseteq LiveLinks
        /\ Links({ TerminalCard(terminal) : terminal \in listed }) \subseteq LiveLinks
    BY DEF Links, MapMarkerList, TerminalCard, LiveLinks
  <2>2. model.from = "api" /\ model.map = listed /\ model.terminals = listed /\ model.selected = {}
    OBVIOUS
  <2> HIDE DEF listed, model
  <2>3. Live(TerminalNetworkScreen(model))
    BY <2>1, <2>2 DEF TerminalNetworkScreen, AppHeader, Live, Plain, NoSheet, LiveLinks
  <2> QED
    BY <2>3 DEF TerminalsPage, model, listed
<1>5. Live(TerminalDetailPage(read))
  <2>1. MapMarkerList({[href |-> {<<"terminals", "id">>}]}) \subseteq LiveLinks
    BY DEF Links, MapMarkerList, LiveLinks
  <2> QED
    BY <2>1, LiveUnread DEF TerminalDetailPage, TerminalDetailScreen, AppHeader, HistoricalStats,
                            Live, Plain, NoSheet, LiveLinks
<1> QED
  BY <1>1, <1>2, <1>3, <1>4, <1>5

LEMMA LivePage ==
  ASSUME NEW p, NEW built \in BOOLEAN, NEW read, built \/ ~IsPrefix(showcase, p)
  PROVE  Live(Page(p, built, read))
BY LiveUnread, LiveRead DEF Page, ShowcaseLayout

\* Each of these paths is a page of the application, and none is in the gallery.
LEMMA LiveLinkIsReal ==
  ASSUME NEW link \in LiveLinks, NEW built
  PROVE  ~IsPrefix(showcase, link) /\ Page(link, built, "ready").state # "not_found"
<1>1. ~IsPrefix(showcase, link)
  BY DEF LiveLinks, IsPrefix, showcase
<1>2. CASE link \in {<<>>, <<"trips">>, <<"trips", "id">>}
  BY <1>1, <1>2 DEF Page, PlanPage, TripsPage, TripPage, TripsScreen, emptyTrips, Plain
<1>3. CASE link \in {<<"terminals">>, <<"terminals", "id">>, <<"advanced">>}
  BY <1>1, <1>3 DEF Page, TerminalsPage, TerminalDetailPage, AdvancedPage, TerminalNetworkScreen,
                    TerminalDetailScreen, SourceHealthScreen, Plain
<1>4. CASE link \in {<<"alerts">>, <<"ask">>, <<"profile">>}
  BY <1>1, <1>4 DEF Page, AlertsPage, AskPage, ProfilePage, AlertsScreen, AskScreen, ProfileScreen,
                    emptyAlerts, emptyAsk, emptyProfile, Plain
<1> QED
  BY <1>2, <1>3, <1>4 DEF LiveLinks

\* LivePagesAreReal: outside the gallery, and everywhere in production, every link in sight leads to
\* a page that exists outside the gallery, and nothing synthetic is shown, for any address typed in.
THEOREM LiveStaysLive == Spec => []LivePagesAreReal
<1>1. IInv => LivePagesAreReal
  <2> SUFFICES ASSUME IInv, production \/ ~IsPrefix(showcase, path)
               PROVE  /\ screen.from # "fixture"
                      /\ \A link \in offered \ {external} :
                           ~IsPrefix(showcase, link) /\ Page(link, production, "ready").state # "not_found"
    BY DEF LivePagesAreReal
  <2>1. Live(screen)
    BY LivePage DEF screen, IInv, PlaceInv
  <2>2. MOBILE_NAV \cup RAIL_PRIMARY \cup RAIL_SECONDARY \cup {ASK_HREF} \subseteq LiveLinks
    BY DEF MOBILE_NAV, RAIL_PRIMARY, RAIL_SECONDARY, ASK_HREF, LiveLinks
  <2>3. offered \subseteq LiveLinks \cup {external}
    BY <2>1, <2>2 DEF offered, Live
  <2> QED
    BY <2>1, <2>3, LiveLinkIsReal DEF Live
<1> QED
  BY <1>1, Invariance, PTL
===============================================================================
