----------------------------- MODULE EvidencePages -----------------------------
(***************************************************************************)
(* A page about terminals or sources, from the click to the markup, while  *)
(* checks, operators and the clock go on.  The web server reads the API    *)
(* once for most pages; a trip's page reads the network and then, side by  *)
(* side, the detail of every terminal in it.  Each read may fail.  The     *)
(* ages on a page are computed when it is rendered, after the last read.   *)
(*                                                                         *)
(* Sources: apps/web/app (terminals, advanced, trips/[tripId]); the API's  *)
(* answers are those of CurrentEvidence, each true of one moment.          *)
(***************************************************************************)
EXTENDS Presentation

CONSTANTS
  Terminal,     \* terminals, numbered in the order of their names
  Source,       \* what may be registered, numbered in the order of names
  Row,          \* Source -> terminal (0: none), kind, cadence, adapter, facts and time it prints
  Entrances,    \* the terminals with a verified entrance
  States,       \* what a check may end with
  Origins,      \* the terminals that trips start from
  Window,       \* FRESHNESS_WINDOW, in ticks
  InitialRegisters, \* the registers to start from
  MaxTime, MaxChanges   \* bounds on the clock and on what happens to the register

ASSUME TerminalAssumption == Terminal \subseteq Nat \ {0} /\ IsFiniteSet(Terminal)
                             /\ Entrances \subseteq Terminal /\ Origins \subseteq Terminal
ASSUME SourceAssumption == Source \subseteq Nat /\ \A s \in Source : Row[s].terminal \in Terminal \cup {0}
ASSUME StatesAssumption == States \subseteq SOURCE_STATE_CODES
ASSUME TimeAssumption == Window \in Nat /\ MaxTime \in Nat /\ MaxChanges \in Nat

Time == 0..MaxTime
ReviewState == {"approved", "needs_review", "paused", "restricted"}
\* What the register holds of a source.  The display permission of a source that is not approved
\* allows nothing and is left out.
Registration ==
  { r \in [review_state : ReviewState \cup {"absent"}, stopped : BOOLEAN, may_display : BOOLEAN] :
      r.may_display => r.review_state = "approved" }
POSITIVE_STATES == {"fresh", "no_departures_published", "no_compatible_opportunity"}

\* The contract accepts a positive state only of a page that was retrieved.
Observation ==
  { o \in [state : SOURCE_STATE_CODES, observed_at : Time, source_time : SUBSET Time,
           retrieval : {"succeeded", "failed"}] :
      o.state \in POSITIVE_STATES => o.retrieval = "succeeded" }

\* What a deployment may start from: terminals its sources name, and readings made before.
ASSUME RegistersAssumption ==
  \A initial \in InitialRegisters :
    /\ initial.terminals \subseteq Terminal
    /\ initial.register \in [Source -> Registration]
    /\ initial.latest \in [Source -> SUBSET Observation]
    /\ \A s \in Source :
         /\ initial.register[s].review_state # "absent" => Row[s].terminal \in initial.terminals \cup {0}
         /\ \A a, b \in initial.latest[s] : a = b
         /\ \A o \in initial.latest[s] : o.observed_at = 0

VARIABLES
  now,
  terminals, \* registered terminals
  register,  \* Source -> review state, whether a switch stops it, whether its facts may be displayed
  latest,    \* Source -> its current observation, if any
  readable_since, \* Source -> when a run that is to read it can have begun first, if ever
  changes,   \* how often one of the three above changed
  request,   \* the page asked for and what was read for it so far
  shown,     \* what the browser shows
  moments    \* history, for properties: what was true since the request was made

vars == <<now, terminals, register, latest, readable_since, changes, request, shown, moments>>
world == <<terminals, register, latest, readable_since>>

\* No page tells "unauthorized" or "invalid" from "unavailable".
Failure == {"not_configured", "unavailable"}

registered(m) == { s \in Source : m.register[s].review_state # "absent" }
of_terminal(m, t) == { s \in registered(m) : Row[s].terminal = t }
restricted(m, s) == m.register[s].review_state = "restricted"

moment == [now |-> now, terminals |-> terminals, register |-> register, latest |-> latest]

-------------------------------------------------------------------------------
(* The API's answers at a moment m *)

effective(observation, at) ==
  IF observation.state \in POSITIVE_STATES /\ at - observation.observed_at > Window
  THEN "source_stale" ELSE observation.state

evidence_read(observation, at) == [observation EXCEPT !.state = effective(observation, at)]

observed(m, t) == { s \in of_terminal(m, t) : m.latest[s] # {} /\ ~restricted(m, s) }

\* The newest; sources are numbered in the order of their names, and the first of equals wins.
headline(m, t) ==
  LET age(s) == m.now - the(m.latest[s]).observed_at IN
  { s \in observed(m, t) : \A other \in observed(m, t) :
      \/ age(s) < age(other)
      \/ age(s) = age(other) /\ s <= other }

terminal_summary(m, t) ==
  [terminal |-> t,
   entrance |-> IF t \in Entrances THEN {"Passenger terminal entrance"} ELSE {},
   latest |-> { evidence_read(the(m.latest[s]), m.now) : s \in headline(m, t) }]

list_terminal_network(m) == { terminal_summary(m, t) : t \in m.terminals }

displayable_facts(m, t) ==
  UNION { Row[s].facts : s \in { x \in of_terminal(m, t) :
            m.register[x].review_state = "approved" /\ m.register[x].may_display /\ m.latest[x] # {} } }

get_terminal_detail(m, t) ==
  [summary |-> terminal_summary(m, t), facts |-> displayable_facts(m, t),
   sources |-> { [source |-> s, kind |-> Row[s].kind,
                  review_state |-> m.register[s].review_state,
                  latest |-> IF restricted(m, s) THEN {}
                             ELSE { evidence_read(o, m.now) : o \in m.latest[s] }] :
                 s \in of_terminal(m, t) }]

list_source_health(m) ==
  LET row(s) == [source |-> s, review_state |-> m.register[s].review_state,
                 kill_switched |-> m.register[s].stopped,
                 cadence_minutes |-> Row[s].cadence, adapter |-> Row[s].adapter,
                 latest |-> { evidence_read(o, m.now) : o \in m.latest[s] }]
      rows == { row(s) : s \in registered(m) }
      in(state) == { r \in rows : \E read \in r.latest : read.state = state }
  IN [rows |-> rows,
      counts |-> { [state |-> state, count |-> Cardinality(in(state))] :
                     state \in { x \in SOURCE_STATE_CODES : in(x) # {} } }]

\* What a read may answer: the value at a moment m, that there is none, or a failure on the way.
Ok(value) == [result |-> "ok", value |-> value]
Answer(m, page, t) ==
  CASE page = "terminals" -> Ok(list_terminal_network(m))
    [] page = "advanced" -> Ok(list_source_health(m))
    [] page = "terminal" /\ t \in m.terminals -> Ok(get_terminal_detail(m, t))
    [] OTHER -> [result |-> "not_found"]
Answers(page, t) == { [result |-> failure] : failure \in Failure } \cup {Answer(moment, page, t)}

-------------------------------------------------------------------------------
(* The pages *)

Shows(items) == [items |-> items, order |-> <<>>]
NotFound == About(Page, { Item("not_found", <<"not_found">>, "none", {}) })

\* Defect: a failed read shows the model without terminals.
TerminalsPage_failure_is_empty(read) ==
  Shows(TerminalNetworkScreen(IF read.result = "ok" THEN toTerminalNetworkScreenModel(read.value, now)
                              ELSE [status |-> "empty", map |-> mapView({}, now), terminals |-> {}]))

TerminalsPage(read) ==
  CASE read.result = "ok" -> Shows(TerminalNetworkScreen(toTerminalNetworkScreenModel(read.value, now)))
    [] read.result = "not_configured" -> Shows(NotConfigured)
    [] OTHER -> Shows(TerminalNetworkScreen([status |-> "error", map |-> mapView({}, now), terminals |-> {}]))

TerminalDetailPage(read) ==
  CASE read.result = "ok" -> Shows(TerminalDetailScreen(toTerminalDetailScreenModel(read.value, now)))
    [] read.result = "not_found" -> Shows(NotFound)
    [] read.result = "not_configured" -> Shows(NotConfigured)
    [] OTHER -> Shows(TerminalDetailScreen([status |-> "error"]))

AdvancedPage(read) ==
  CASE read.result = "ok" -> Shows(SourceHealthScreen(toSourceHealthScreenModel(read.value, now)))
    [] read.result = "not_configured" -> Shows(NotConfigured)
    [] OTHER -> Shows(SourceHealthScreen([emptySourceHealth EXCEPT !.status = "error"]))

\* The part of a trip's page that is about terminals; the trip itself was read before.
TripPage(read, origin, details) ==
  IF read.result # "ok" THEN Shows(ErrorState("We could not load the terminals to check"))
  ELSE LET rows == toTerminalsToCheckViewModel(origin, read.value, details, now) IN
       [items |-> TerminalsToCheck(rows), order |-> [i \in DOMAIN rows |-> rows[i].id]]

-------------------------------------------------------------------------------
(* The world goes on; it waits while a page is looked at, which no longer depends on it *)

Idle == [page |-> "none", about |-> 0, stage |-> "idle", read |-> {}, details |-> <<>>]

\* What happens is witnessed by the request that is under way.
Witness == moments' = IF request.stage = "reading" THEN moments \cup {moment'} ELSE moments

Tick ==
  /\ now < MaxTime /\ now' = now + 1 /\ request.stage # "shown"
  /\ UNCHANGED <<world, changes, request, shown>>
  /\ Witness

Change ==
  /\ changes < MaxChanges /\ changes' = changes + 1 /\ request.stage # "shown"
  /\ UNCHANGED <<now, request, shown>>
  /\ Witness

\* A run asks the provider of its adapter for what it may retrieve, approved or not yet reviewed.
readable(s) ==
  /\ register[s].review_state \in {"approved", "needs_review"} /\ ~register[s].stopped
  /\ Row[s].adapter # {}

\* A source-check run commits what it made of a source that was readable when the run read the
\* register; it read the source since then, and what is newer than the current reading is current.
Observe(s) ==
  /\ \E since \in readable_since[s] : \E at \in since..now, state \in States :
       /\ \A o \in latest[s] : o.observed_at <= at
       /\ latest' = [latest EXCEPT ![s] =
            {[state |-> state, observed_at |-> at,
              source_time |-> IF Row[s].prints_time THEN {at} ELSE {},
              retrieval |-> IF state \in {"source_unreachable", "source_missing"} THEN "failed"
                            ELSE "succeeded"]}]
  /\ UNCHANGED <<terminals, register, readable_since>>
  /\ Change

\* The operator registers, reviews, restricts, stops or resumes a source.
Review(s) ==
  /\ Row[s].terminal \in terminals \cup {0}
  /\ \E registration \in Registration \ {register[s]} :
       /\ registration.review_state # "absent"
       /\ \/ registration.stopped = register[s].stopped
          \/ s \in registered(moment) /\ registration = [register[s] EXCEPT !.stopped = ~@]
       /\ register' = [register EXCEPT ![s] = registration]
  /\ readable_since' = IF readable(s)' /\ readable_since[s] = {}
                       THEN [readable_since EXCEPT ![s] = {now}] ELSE readable_since
  /\ UNCHANGED <<terminals, latest>>
  /\ Change

\* Defect: a terminal goes although sources name it.
RegisterTerminal_without_foreign_key(t) ==
  /\ terminals' = IF t \in terminals THEN terminals \ {t} ELSE terminals \cup {t}
  /\ t \in terminals => t \notin Origins
  /\ UNCHANGED <<register, latest, readable_since>>
  /\ Change

\* Foreign keys keep a terminal that has sources or trips.
RegisterTerminal(t) ==
  /\ terminals' = IF t \in terminals THEN terminals \ {t} ELSE terminals \cup {t}
  /\ t \in terminals => of_terminal(moment, t) = {} /\ t \notin Origins
  /\ UNCHANGED <<register, latest, readable_since>>
  /\ Change

-------------------------------------------------------------------------------
(* A request *)

Open(page, t) ==
  /\ request.stage = "idle"
  /\ page = "trip" => t \in Origins /\ t \in terminals
  /\ page \in {"terminals", "advanced"} <=> t = 0
  /\ request' = [Idle EXCEPT !.page = page, !.about = t, !.stage = "reading"]
  /\ moments' = {moment}
  /\ UNCHANGED <<now, world, changes, shown>>

\* The page's first read of what it shows.
Read ==
  /\ request.stage = "reading" /\ request.read = {}
  /\ \E answer \in Answers(IF request.page = "trip" THEN "terminals" ELSE request.page, request.about) :
       request' = [request EXCEPT !.read = {answer}]
  /\ UNCHANGED <<now, world, changes, shown, moments>>

listed == UNION { IF answer.result = "ok" THEN { summary.terminal : summary \in answer.value } ELSE {} :
                    answer \in request.read }

\* One read per terminal of the network, side by side.
readTerminalDetails(t) ==
  /\ request.stage = "reading" /\ request.page = "trip"
  /\ t \in listed \ DOMAIN request.details
  /\ \E answer \in Answers("terminal", t) :
       request' = [request EXCEPT !.details =
         [x \in {t} \cup DOMAIN request.details |-> IF x = t THEN answer ELSE request.details[x]]]
  /\ UNCHANGED <<now, world, changes, shown, moments>>

\* Defect: the trip's page waits for details that could be read.
Complete_only_with_details ==
  request.page = "trip" =>
    \A t \in listed : t \in DOMAIN request.details /\ request.details[t].result = "ok"

\* Promise.all: every detail has been answered, one way or another.
Complete == request.page = "trip" => listed \subseteq DOMAIN request.details

Render ==
  /\ request.stage = "reading" /\ request.read # {} /\ Complete
  /\ LET read == the(request.read) IN
     shown' = CASE request.page = "terminals" -> TerminalsPage(read)
                [] request.page = "terminal" -> TerminalDetailPage(read)
                [] request.page = "advanced" -> AdvancedPage(read)
                [] OTHER -> TripPage(read, request.about, request.details)
  /\ request' = [request EXCEPT !.stage = "shown", !.read = {}, !.details = <<>>]
  /\ UNCHANGED <<now, world, changes, moments>>

\* The traveler goes elsewhere, before or after the page came.
Leave ==
  /\ request.stage # "idle"
  /\ request' = Idle /\ shown' = Shows({}) /\ moments' = {}
  /\ UNCHANGED <<now, world, changes>>

-------------------------------------------------------------------------------
Init ==
  /\ now = 0 /\ changes = 0
  /\ \E initial \in InitialRegisters :
       terminals = initial.terminals /\ register = initial.register /\ latest = initial.latest
  \* What was read before was readable, and the run that read it may not be the last.
  /\ readable_since = [s \in Source |-> IF readable(s) \/ latest[s] # {} THEN {0} ELSE {}]
  /\ request = Idle /\ shown = Shows({}) /\ moments = {}

Next ==
  \/ Tick
  \/ \E s \in Source : Observe(s) \/ Review(s)
  \/ \E t \in Terminal : RegisterTerminal(t) \/ readTerminalDetails(t)
  \/ \E page \in {"terminals", "terminal", "advanced", "trip"}, t \in Terminal \cup {0} : Open(page, t)
  \/ Read \/ Render \/ Leave

\* The server goes on with a request it has; a read that gets no answer ends as a failure.
Fairness == WF_vars(Read) /\ WF_vars(Render) /\ \A t \in Terminal : WF_vars(readTerminalDetails(t))

Spec == Init /\ [][Next]_vars /\ Fairness

-------------------------------------------------------------------------------
(* Properties *)

\* Type invariant: the register, the request under way and what is shown stay in their domains.
TypeOK ==
  /\ now \in Time /\ changes \in 0..MaxChanges /\ terminals \subseteq Terminal
  /\ register \in [Source -> Registration]
  /\ \A s \in Source : Cardinality(readable_since[s]) <= 1 /\ readable_since[s] \subseteq 0..now
  /\ \A s \in Source : Cardinality(latest[s]) <= 1 /\ latest[s] \subseteq Observation
  /\ \A s \in registered(moment) : Row[s].terminal \in terminals \cup {0}
  /\ request.stage \in {"idle", "reading", "shown"} /\ Cardinality(request.read) <= 1
  /\ \A statement \in shown.items : statement.about[2] \in {0} \cup Terminal \cup Source

done == request.stage = "shown"
Says(subject, shape) ==
  { st.item : st \in { x \in shown.items : x.about = subject /\ x.item.shape = shape } }
States_of(subject) == { item \in Says(subject, "state") : item.text # <<"Not checked yet">> }

\* The reading of s is the newest among the sources of t that may speak of it.
Speaks(m, t, s) ==
  /\ s \in of_terminal(m, t) /\ ~restricted(m, s)
  /\ \A other \in of_terminal(m, t), o \in m.latest[s] : ~restricted(m, other) =>
       \A newer \in m.latest[other] : newer.observed_at <= o.observed_at

\* A page came some time after its reads; its ages are those of a reading o of moment m by then.
AgeOf(o, m, item) ==
  \A age \in item.age : \E rendered \in m.now..now :
    LET minutes == (rendered - o.observed_at) * MinutesPerTick IN
    age.n = CASE age.unit = "m" -> minutes
              [] age.unit = "h" -> minutes \div 60
              [] OTHER -> minutes \div 1440

\* What is said of a source's reading is what a reader could say of it at m.
Agrees(item, m, s) ==
  \E o \in m.latest[s] :
    /\ item.text = <<effective(o, m.now)>> /\ AgeOf(o, m, item)
    /\ item.tone = "verified" => o.state \in POSITIVE_STATES /\ m.now - o.observed_at <= Window

\* What a page says of a terminal as evidence, badge, marker, time and age, comes from the newest
\* reading of a source that was licensed to speak at some moment since the click.  What it says
\* of a source is that source's reading, restriction, review state or switch of such a moment; the
\* facts it reproduces were approved for display then; and the slate tone only comes from a
\* positive reading within the window or an approval (source-state.ts, "verified").
EvidenceIsEarned ==
  done =>
    /\ \A t \in Terminal : \A item \in States_of(<<"terminal", t>>) :
         \E m \in moments, s \in Source : Speaks(m, t, s) /\ Agrees(item, m, s)
    /\ \A t \in Terminal : \A item \in Says(<<"terminal", t>>, "age") :
         \E m \in moments, s \in Source : Speaks(m, t, s) /\ \E o \in m.latest[s] :
           item.text = <<"We read it", "at", o.observed_at * MinutesPerTick>> /\ AgeOf(o, m, item)
    /\ \A s \in Source : \A item \in States_of(<<"source", s>>) : item.text # <<"Unknown">> =>
         \E m \in moments : s \in registered(m) /\
           IF request.page = "terminal" /\ restricted(m, s)
           THEN item.text = <<"restricted_user_open_only">> /\ item.tone # "verified"
           ELSE Agrees(item, m, s)
    /\ \A s \in Source : \A item \in Says(<<"source", s>>, "pill") :
         \E m \in moments : s \in registered(m) /\
           \/ item.text = <<"Stopped">> /\ item.tone = "caution" /\ m.register[s].stopped
           \/ LET state == m.register[s].review_state IN
              item.text = <<APPROVAL[state]>> /\ (item.tone = "verified" <=> state = "approved")
    /\ \A t \in Terminal : \A item \in Says(<<"terminal", t>>, "fact"), kind \in {"counter_hours", "parking"} :
         item.text \in {<<"Hours", kind>>, <<"Parking", kind>>} => \E m \in moments, s \in Source :
           /\ s \in of_terminal(m, t) /\ kind \in Row[s].facts
           /\ m.register[s].review_state = "approved" /\ m.register[s].may_display

\* Nothing is told as absent because it could not be read: no terminals, no sources, no such page,
\* no schedule source, no reading that may speak, no departures and no fact to display are true
\* of a moment since the click, whichever reads failed (app/terminals/page.tsx: "none of them is
\* an absence claim"; adapters/terminals.ts: "a failed or absent check must never be worded as
\* none are published").
AbsenceWasTrue ==
  done =>
    /\ Says(Page, "empty") # {} => \E m \in moments :
         IF request.page = "terminals" THEN m.terminals = {} ELSE registered(m) = {}
    /\ Says(Page, "not_found") # {} => \E m \in moments : request.about \notin m.terminals
    /\ \A t \in Terminal : \E m \in moments :
         Says(<<"terminal", t>>, "state") # States_of(<<"terminal", t>>) =>
           t \in m.terminals /\ observed(m, t) = {}
    /\ \A s \in Source : \E m \in moments :
         (Says(<<"source", s>>, "state") # States_of(<<"source", s>>)
            \/ \E item \in Says(<<"source", s>>, "state") : item.text = <<"Unknown">>) =>
           s \in registered(m) /\ m.latest[s] = {}
    /\ \A t \in Terminal : \E m \in moments :
         (\E item \in Says(<<"terminal", t>>, "schedule") :
            item.text = <<"No 72-hour schedule source is registered">>) =>
           \A s \in of_terminal(m, t) : Row[s].kind # "schedule_artifact"
    /\ \A t \in Terminal : \A item \in Says(<<"terminal", t>>, "opportunities") :
         \E m \in moments :
           /\ item.text = <<"never checked">> => observed(m, t) = {}
           /\ item.text \in {<<"none published">>, <<"no opportunities">>} =>
                \E s \in Source : Speaks(m, t, s) /\ \E o \in m.latest[s] :
                  /\ o.retrieval = "succeeded" /\ m.now - o.observed_at <= Window
                  /\ o.state = IF item.text = <<"none published">> THEN "no_departures_published"
                               ELSE "fresh"
    /\ \A t \in Terminal : \A item \in Says(<<"terminal", t>>, "note"), kind \in {"counter_hours", "parking"} :
         item.text = <<IF kind = "parking" THEN "Parking" ELSE "Hours", "Not published">> =>
           \E m \in moments : kind \notin displayable_facts(m, t)

\* terminals-to-check.ts:58: a row's evidence is "omitted only when PaxPivot has never checked a
\* source for this terminal".  On a trip's page, a terminal that reads as not checked was, at some
\* moment since the click, one none of whose sources has a reading.
NotCheckedMeansNeverChecked ==
  done /\ request.page = "trip" =>
    \A t \in Terminal : \E m \in moments :
      Says(<<"terminal", t>>, "state") # States_of(<<"terminal", t>>) =>
        \A s \in of_terminal(m, t) : m.latest[s] = {}

\* The badge, the marker, the evidence list and the sentence about opportunities are computed
\* apart; on one page they never contradict each other about a terminal, and departures are only
\* spoken of when the badge itself is positive (adapters/terminals.ts opportunitiesNote).
PageSpeaksWithOneVoice ==
  done => \A t \in Terminal :
    LET states == Says(<<"terminal", t>>, "state") IN
    /\ \A a, b \in states : a.text = b.text /\ a.tone = b.tone
    /\ \A note \in Says(<<"terminal", t>>, "opportunities"), item \in states :
         /\ note.text = <<"none published">> <=> item.text = <<"no_departures_published">>
         /\ note.text = <<"no opportunities">> <=> item.text = <<"fresh">>
         /\ note.text = <<"never checked">> <=> item.text = <<"Not checked yet">>
         /\ request.page = "terminal" /\ item.text # <<"Not checked yet">> =>
              \E s \in Source : \E row \in Says(<<"source", s>>, "state") : row.text = item.text

\* A trip's page lists every terminal that was registered at one moment since the click, once,
\* the origin first and the others by name, whatever became of the reads of their details.
TripListsEveryTerminal ==
  done /\ request.page = "trip" /\ Says(Page, "error") = {} =>
    LET order == shown.order IN
    /\ \E m \in moments : ToSet(order) = m.terminals
    /\ IsInjective(order) /\ order # <<>> /\ order[1] = request.about
    /\ \A i, j \in 2..Len(order) : i < j => order[i] < order[j]
    /\ \A t \in ToSet(order) : Says(<<"terminal", t>>, "state") # {}

\* A click ends with a page, unless the traveler leaves: no failed read, of a detail or of
\* anything, leaves it waiting (trips/[tripId]/page.tsx readTerminalDetails).
EveryPageRenders == request.stage = "reading" ~> request.stage # "reading"
===============================================================================
