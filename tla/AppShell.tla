------------------------------- MODULE AppShell -------------------------------
(***************************************************************************)
(* One browser tab of the application: client-side navigation, tabs, modal *)
(* sheets and the marks on the document's body by which the floating Ask   *)
(* action gives way.  Three parties act on it: the traveler, React, which  *)
(* runs effects some time after it committed a page (at the latest before  *)
(* it commits the next), and the browser's own <dialog>, which closes on   *)
(* Escape by itself and tells about any closing in an event that comes     *)
(* later.                                                                  *)
(*                                                                         *)
(* Sources: apps/web/components/shell, components/ui (Tabs, Sheet,         *)
(* StickyActionBar), screens/route-detail, app/layout.tsx.                 *)
(***************************************************************************)
EXTENDS AppScreens

CONSTANT Path       \* the paths a traveler may type in

VARIABLES
  production, \* NODE_ENV of the build
  path, data, \* the page, and how its read of the API ended
  previous,   \* the page before it, for the browser's Back
  tab,        \* what Tabs has selected
  activeTab,  \* RouteDetailScreen's mirror of it
  sheet,      \* whether the page's sheet is open, for React
  dialog,     \* its <dialog>: "absent", "closed" or "open" on the screen
  closing,    \* close events that are queued
  ran,        \* what effects have run for
  marks       \* the two marks on the body

vars == <<production, path, data, previous, tab, activeTab, sheet, dialog, closing, ran, marks>>
place == <<production, path, data, previous>>
MaxClosing == 2     \* bound on queued close events

screen == Page(path, production, data)

hidden == isActive(path, ASK_HREF)

-------------------------------------------------------------------------------
(* What React has committed for the page, and its effects *)

sheet_mounted == screen.sheet.kind = "kept" \/ (screen.sheet.kind = "while_open" /\ sheet)

\* The action bars mounted now.
Bars ==
  (IF screen.bar = "always" \/ (screen.bar = "overview" /\ activeTab = "overview")
   THEN {<<path, "page">>} ELSE {}) \cup
  (IF sheet_mounted /\ screen.sheet.bar THEN {<<path, "sheet">>} ELSE {})

committed == [bars |-> Bars, open |-> IF sheet_mounted THEN {<<path, sheet>>} ELSE {}, hidden |-> hidden]
settled == ran = committed
NothingRan == [bars |-> {}, open |-> {}, hidden |-> FALSE]

\* Defect: the mark is set and never taken back.
StickyActionBar_without_cleanup(mark) == mark \/ Bars \ ran.bars # {}

\* All clean-ups run before the effects of what was mounted.
StickyActionBar(mark) == (mark /\ ran.bars \ Bars = {}) \/ Bars \ ran.bars # {}

AskPaxPivotAction(mark) == IF hidden # ran.hidden THEN hidden ELSE mark

\* A sheet's effect runs when it was mounted or its open changed.
Sheet ==
  IF committed.open \in {{}, ran.open} THEN UNCHANGED <<dialog, closing>>
  ELSE /\ dialog' = IF sheet THEN "open" ELSE "closed"
       /\ closing' = IF ~sheet /\ dialog = "open" THEN closing + 1 ELSE closing

RunEffects ==
  /\ ~settled
  /\ Sheet
  /\ marks' = [stickyBar |-> StickyActionBar(marks.stickyBar), noFab |-> AskPaxPivotAction(marks.noFab)]
  /\ ran' = committed
  /\ UNCHANGED <<place, tab, activeTab, sheet>>

-------------------------------------------------------------------------------
(* Sheets *)

\* setOpen: a sheet that is mounted only while open comes and goes with its dialog and events.
SetSheet(open) ==
  /\ sheet' = open
  /\ dialog' = IF screen.sheet.kind = "kept" THEN dialog
               ELSE IF open THEN IF dialog = "absent" THEN "closed" ELSE dialog ELSE "absent"
  /\ UNCHANGED <<place, tab, activeTab, ran, marks>>

\* The button that opens it is out of reach behind an open dialog.
OpenSheet ==
  /\ settled /\ screen.sheet.kind # "none" /\ dialog # "open" /\ ~sheet
  /\ SetSheet(TRUE) /\ UNCHANGED closing

\* The X, the backdrop, and the buttons of the trip settings, which save nothing.
CloseSheet ==
  /\ settled /\ dialog = "open" /\ closing < MaxClosing
  /\ SetSheet(FALSE) /\ closing' = IF screen.sheet.kind = "kept" THEN closing ELSE 0

\* The browser closes its dialog itself.
Escape ==
  /\ dialog = "open" /\ closing < MaxClosing
  /\ dialog' = "closed" /\ closing' = closing + 1
  /\ UNCHANGED <<place, tab, activeTab, sheet, ran, marks>>

\* Defect: the dialog's own closing is not listened to.
onClose_not_heard ==
  /\ settled /\ closing > 0
  /\ closing' = closing - 1
  /\ UNCHANGED <<place, tab, activeTab, sheet, dialog, ran, marks>>

\* The event says that the dialog was closed, not that it is: it may have been opened again.
onClose ==
  /\ settled /\ closing > 0
  /\ SetSheet(FALSE) /\ closing' = IF screen.sheet.kind = "kept" THEN closing - 1 ELSE 0

-------------------------------------------------------------------------------
(* Tabs *)

select(index) ==
  /\ settled /\ dialog # "open"
  /\ tab' = screen.tabs[index]
  /\ activeTab' = IF screen.mirrored THEN screen.tabs[index] ELSE activeTab
  /\ UNCHANGED <<place, sheet, dialog, closing, ran, marks>>

SelectTab == \E index \in DOMAIN screen.tabs : select(index)

\* The arrows wrap around; Home and End.
onKeyDown ==
  /\ screen.tabs # <<>>
  /\ LET last == Len(screen.tabs)
         current == CHOOSE i \in 1..last : screen.tabs[i] = tab
     IN \/ select(IF current = last THEN 1 ELSE current + 1)
        \/ select(IF current = 1 THEN last ELSE current - 1)
        \/ select(1)
        \/ select(last)

-------------------------------------------------------------------------------
(* Navigation *)

\* Defect: a tab is preselected without asking whether the page has it.
firstTab_unchecked(p, d) == IF Page(p, production, d).tabs = <<>> THEN "none" ELSE "fallback"

firstTab(p, d) == LET tabs == Page(p, production, d).tabs IN IF tabs = <<>> THEN "none" ELSE tabs[1]

\* The new page starts from its initial state; the old page's effects are cleaned up later.
Show(p) ==
  /\ path' = p
  /\ data' \in Data(p)
  /\ tab' = firstTab(p, data')
  /\ activeTab' = "overview" /\ sheet' = FALSE /\ closing' = 0
  /\ dialog' = IF Page(p, production, data').sheet.kind = "kept" THEN "closed" ELSE "absent"
  /\ UNCHANGED production

\* What is in reach: the page and both navigations, or only the sheet that covers them.
offered ==
  IF dialog = "open" THEN screen.sheet.links
  ELSE screen.links \cup MOBILE_NAV \cup RAIL_PRIMARY \cup RAIL_SECONDARY \cup
       (IF hidden THEN {} ELSE {ASK_HREF})

\* A link within the application; a link to where one is changes nothing but the scroll.
Follow ==
  /\ settled
  /\ \E p \in offered \ {external, path} : Show(p)
  /\ previous' = path
  /\ UNCHANGED <<ran, marks>>

\* Back swaps the two pages, which is also what Forward does then.
GoBack ==
  /\ settled /\ previous # path
  /\ Show(previous) /\ previous' = path
  /\ UNCHANGED <<ran, marks>>

\* An address is typed in: a new document.
Load ==
  /\ \E p \in Path : Show(p) /\ previous' = p
  /\ ran' = NothingRan /\ marks' = [stickyBar |-> FALSE, noFab |-> FALSE]

-------------------------------------------------------------------------------
Init ==
  /\ production \in BOOLEAN
  /\ path \in Path /\ data \in Data(path) /\ previous = path
  /\ tab = firstTab(path, data) /\ activeTab = "overview" /\ sheet = FALSE /\ closing = 0
  /\ dialog = IF screen.sheet.kind = "kept" THEN "closed" ELSE "absent"
  /\ ran = NothingRan /\ marks = [stickyBar |-> FALSE, noFab |-> FALSE]

Next ==
  \/ RunEffects \/ OpenSheet \/ CloseSheet \/ Escape \/ onClose
  \/ SelectTab \/ onKeyDown
  \/ Follow \/ GoBack \/ Load

\* React and the browser's event queue go on by themselves; the traveler need not act.
Fairness == WF_vars(RunEffects) /\ WF_vars(onClose)

Spec == Init /\ [][Next]_vars /\ Fairness

-------------------------------------------------------------------------------
(* Properties *)

\* Type invariant: the page exists in some state, and its parts are in theirs.
TypeOK ==
  /\ production \in BOOLEAN /\ data \in Data(path)
  /\ tab \in {"none"} \cup ToSet(screen.tabs) /\ activeTab \in ToSet(TAB_IDS)
  /\ sheet \in BOOLEAN /\ dialog \in {"absent", "closed", "open"} /\ closing \in 0..MaxClosing
  /\ dialog = "absent" <=> ~sheet_mounted
  /\ marks \in [stickyBar : BOOLEAN, noFab : BOOLEAN]

quiet == settled /\ closing = 0

\* The bars in sight: not behind another tab, and not in a dialog that is closed.
VisibleBars ==
  { bar \in Bars : /\ bar[2] = "sheet" => dialog = "open"
                   /\ bar[2] = "page" /\ screen.mirrored => tab = "overview" }

\* Once React and the browser have caught up, the floating Ask action gives way exactly to an
\* action bar that is in sight, and its room is given up exactly where it is not offered: no mark
\* outlives its page, its tab or its sheet, and no clean-up takes back the mark of the next page
\* (StickyActionBar.tsx, RouteDetailScreen.tsx "a mounted StickyActionBar hides the Ask action").
MarksMatchWhatIsShown ==
  quiet => /\ marks.stickyBar <=> VisibleBars # {}
           /\ marks.noFab <=> hidden

\* Outside the gallery, and everywhere in production, nothing synthetic is shown, and no link in
\* sight leads into the gallery or to a page that does not exist (the models' "Never rendered by
\* a live route", showcase/layout.tsx).
LivePagesAreReal ==
  production \/ ~IsPrefix(showcase, path) =>
    /\ screen.from # "fixture"
    /\ \A link \in offered \ {external} :
         /\ ~IsPrefix(showcase, link)
         /\ Page(link, production, "ready").state # "not_found"

\* A sheet that is half open, for React or on the screen only, does not stay so: effects and events
\* settle it, whatever is clicked meanwhile, so the button can open a sheet again after any way of
\* closing it, however late the close event comes (Sheet.tsx).
SheetsSettle == (sheet # (dialog = "open")) ~> (sheet <=> dialog = "open")
===============================================================================
