----------------------------- MODULE Presentation -----------------------------
(***************************************************************************)
(* From the API's answers to what stands on a page: the adapters, which    *)
(* format and map and may decide nothing, and the components that show     *)
(* evidence.  Pure functions of an answer and of the time of rendering.    *)
(*                                                                         *)
(* A value that may be missing is a set of at most one element.  What a    *)
(* component puts on the page is a set of items; a text is a tuple that    *)
(* starts with its wording's name.  Headings, styles and links to known    *)
(* places are left out.  Sources: apps/web/lib/presentation, lib/api,      *)
(* components/paxpivot, components/ui.                                     *)
(***************************************************************************)
EXTENDS Integers, FiniteSets, SequencesExt

CONSTANT MinutesPerTick  \* times are in ticks of so many minutes

ASSUME TickAssumption == MinutesPerTick \in Nat \ {0}

the(optional) == CHOOSE x \in optional : TRUE

-------------------------------------------------------------------------------
(* The lexicon of source states *)

StatusTone == {"verified", "caution", "unknown"}

SOURCE_STATE_CODES ==
  {"fresh", "source_stale", "source_unreachable", "source_changed_unparsed", "source_missing",
   "source_conflict", "monitor_delayed", "no_departures_published", "no_compatible_opportunity",
   "restricted_user_open_only", "parser_review_required", "superseded", "withdrawn"}

\* Defect: what was once read well stays slate.
SOURCE_STATE_LEXICON_stale_is_verified ==
  [code \in SOURCE_STATE_CODES |->
     [label |-> code, tone |-> IF code = "source_unreachable" THEN "unknown" ELSE "verified"]]

\* The labels differ from code to code, so a label is modelled by its code.
SOURCE_STATE_LEXICON ==
  [code \in SOURCE_STATE_CODES |->
     [label |-> code,
      tone |-> CASE code \in {"fresh", "no_departures_published", "no_compatible_opportunity"} -> "verified"
                 [] code \in {"source_stale", "source_conflict", "monitor_delayed",
                              "parser_review_required"} -> "caution"
                 [] OTHER -> "unknown"]]

isSourceStateCode(value) == value \in SOURCE_STATE_CODES

\* A code this version does not know is said to be unknown, never replaced by a real state.
lexemeFor(state) ==
  IF isSourceStateCode(state) THEN SOURCE_STATE_LEXICON[state]
  ELSE [label |-> "unknown_state", tone |-> "unknown"]

-------------------------------------------------------------------------------
(* Facts: a value, or why there is none *)

known(value) == [status |-> "known", value |-> value]
unknown(note) == [status |-> "unknown", note |-> <<note>>]

factText(fact) == IF fact.status = "known" THEN fact.value ELSE <<"Unknown">>

FactView(label, value) == [label |-> label, value |-> value]

-------------------------------------------------------------------------------
(* Formatting *)

\* Minutes, seconds dropped; the time zone is always UTC.
formatTimestamp(at) == <<"at", at * MinutesPerTick>>

formatAge(at, now) ==
  LET minutes == IF now < at THEN 0 ELSE (now - at) * MinutesPerTick
      hours == minutes \div 60
  IN CASE minutes < 60 -> [n |-> minutes, unit |-> "m"]
       [] minutes >= 60 /\ hours < 48 -> [n |-> hours, unit |-> "h"]
       [] OTHER -> [n |-> hours \div 24, unit |-> "d"]

formatCadence(minutes) ==
  IF minutes % 60 = 0 /\ minutes >= 60 THEN <<"Every", minutes \div 60, "h">>
  ELSE <<"Every", minutes, "min">>

toEvidenceView(read, now) ==
  [state |-> read.state, ageText |-> formatAge(read.observed_at, now), explanation |-> read.state]

evidenceTone(latest) == IF latest = {} THEN "unknown" ELSE lexemeFor(the(latest).state).tone

-------------------------------------------------------------------------------
(* Components *)

Item(shape, text, tone, age) == [shape |-> shape, text |-> text, tone |-> tone, age |-> age]

\* What is said of one subject: a terminal, a source, or the page itself.
Page == <<"page", 0>>
About(subject, items) == { [about |-> subject, item |-> item] : item \in items }

StatusPill(tone, text) == { Item("pill", text, tone, {}) }

\* Without evidence the badge says so instead of picking a state.
SourceStateBadge(evidence) ==
  IF evidence = {} THEN { Item("state", <<"Not checked yet">>, "unknown", {}) }
  ELSE LET lexeme == lexemeFor(the(evidence).state) IN
       { Item("state", <<lexeme.label>>, lexeme.tone, {the(evidence).ageText}) }

SourceStateDisclosure(evidence) ==
  { Item("why", <<view.explanation>>, "unknown", {}) : view \in evidence }

\* An unknown fact reads "Unknown", with its note for who cannot see the page.
FactValue(label, fact) ==
  { Item("fact", <<label>> \o factText(fact), "none", {}) } \cup
  (IF fact.status = "unknown" THEN { Item("note", <<label>> \o fact.note, "none", {}) } ELSE {})

FactStrip(facts) == UNION { FactValue(fact.label, fact.value) : fact \in facts }
StatGrid(stats) == UNION { FactValue(stat.label, stat.value) : stat \in stats }

\* The page's own time and the time it was read stay apart.
EvidenceAge(age) ==
  FactValue("Page says", age.sourceTime) \cup
  { Item("age", <<"We read it">> \o age.observedAt, "none", {age.ageText}) }

\* A row with a tone shows its value as a pill, and no note.
EvidenceRows(rows) ==
  UNION { About(<<"source", row.id>>, { Item("state", factText(row.value), row.tone, {}) }) : row \in rows }

EmptyState(title) == About(Page, { Item("empty", <<title>>, "unknown", {}) })
ErrorState(title) == About(Page, { Item("error", <<title>>, "caution", {}) })
NotConfigured == ErrorState("PaxPivot data is not available right now.")

-------------------------------------------------------------------------------
(* /api/v1/terminals and what a terminal's card and marker say *)

\* A verified entrance is one with coordinates and a kind; the API sends both or neither.
Entrance(summary) ==
  IF summary.entrance # {} THEN known(<<the(summary.entrance)>>)
  ELSE unknown("No verified passenger entrance on record")

toTerminalCard(summary, now) ==
  [id |-> summary.terminal,
   accessText |-> unknown("Not computed for a trip yet"),
   evidence |-> { toEvidenceView(read, now) : read \in summary.latest },
   entrance |-> [status |-> IF summary.entrance # {} THEN "verified" ELSE "unverified",
                 label |-> Entrance(summary)]]

TerminalCard(card) ==
  About(<<"terminal", card.id>>,
    SourceStateBadge(card.evidence) \cup SourceStateDisclosure(card.evidence) \cup
    FactStrip({FactView("From you", card.accessText), FactView("Entrance", card.entrance.label)}) \cup
    (IF card.entrance.status = "verified" THEN StatusPill("verified", <<"Entrance verified">>)
     ELSE StatusPill("unknown", <<"Entrance unverified">>)))

statusText(summary) ==
  IF summary.latest = {} THEN <<"Not checked yet">> ELSE <<lexemeFor(the(summary.latest).state).label>>

\* The age is part of the status text; a terminal without a location is listed all the same.
toMarker(summary, now) ==
  [id |-> summary.terminal, tone |-> evidenceTone(summary.latest), statusText |-> statusText(summary),
   age |-> { formatAge(read.observed_at, now) : read \in summary.latest },
   coordinates |-> summary.entrance]

mapView(summaries, now) ==
  [status |-> IF summaries = {} THEN "empty" ELSE "ready",
   markers |-> { toMarker(summary, now) : summary \in summaries },
   note |-> "Basemap not loaded"]

MapMarkerList(markers) ==
  IF markers = {} THEN About(Page, { Item("note", <<"No locations to show yet.">>, "none", {}) })
  ELSE { [about |-> <<"terminal", marker.id>>,
          item |-> Item("state", marker.statusText, marker.tone, marker.age)] : marker \in markers }

MapSurface(map) ==
  About(Page, { Item("note", <<map.note, Cardinality(map.markers)>>, "none", {}) }) \cup
  MapMarkerList(map.markers)

toTerminalNetworkScreenModel(summaries, now) ==
  [status |-> IF summaries # {} THEN "ready" ELSE "empty",
   map |-> mapView(summaries, now),
   terminals |-> { toTerminalCard(summary, now) : summary \in summaries }]

\* Live, the model selects no terminal and its filter is "all", so there is no control to change.
TerminalNetworkScreen(model) ==
  CASE model.status = "empty" -> EmptyState("No terminals yet")
    [] model.status = "error" -> ErrorState("We could not load the terminal network")
    [] OTHER -> MapSurface(model.map) \cup UNION { TerminalCard(card) : card \in model.terminals }

-------------------------------------------------------------------------------
(* /api/v1/terminals/{id} *)

factValue(facts, kind) == IF kind \in facts THEN known(<<kind>>) ELSE unknown("Not published")

ageView(summary, now) ==
  { [sourceTime |-> IF read.source_time # {} THEN known(formatTimestamp(the(read.source_time)))
                    ELSE unknown("Page showed no timestamp"),
     observedAt |-> formatTimestamp(read.observed_at),
     ageText |-> formatAge(read.observed_at, now)] : read \in summary.latest }

\* Defect: whatever was read well is a reading of what is published.
opportunitiesNote_retrieved_is_read(summary) ==
  IF summary.latest = {} THEN "never checked"
  ELSE IF the(summary.latest).retrieval = "failed" THEN "last check failed"
  ELSE IF the(summary.latest).state = "no_departures_published" THEN "none published"
  ELSE "no opportunities"

\* What is said in place of opportunities, none of which is ever listed.
opportunitiesNote(summary) ==
  IF summary.latest = {} THEN "never checked"
  ELSE LET read == the(summary.latest) IN
       CASE read.retrieval = "failed" -> "last check failed"
         [] read.retrieval # "failed" /\ read.state = "no_departures_published" -> "none published"
         [] read.retrieval # "failed" /\ read.state = "source_stale" -> "out of date"
         [] read.retrieval # "failed" /\ read.state = "fresh" -> "no opportunities"
         [] OTHER -> "not established"

\* A restricted source without evidence keeps its restriction; "Not checked yet" is a note, which
\* EvidenceRows does not show.
evidenceRow(source) ==
  IF source.latest = {} /\ source.review_state = "restricted"
  THEN LET restricted == SOURCE_STATE_LEXICON["restricted_user_open_only"] IN
       [id |-> source.source, value |-> known(<<restricted.label>>), tone |-> restricted.tone]
  ELSE [id |-> source.source,
        value |-> IF source.latest # {} THEN known(<<lexemeFor(the(source.latest).state).label>>)
                  ELSE unknown("Not checked yet"),
        tone |-> evidenceTone(source.latest)]

\* Thirty days of checks are needed before there is any history.
HistoricalStats ==
  StatGrid({FactView("Observed", unknown("Fewer than 30 days of checks")),
            FactView("Successful checks", unknown("")), FactView("Since last", unknown("")),
            FactView("Median published seats", unknown(""))})

toTerminalDetailScreenModel(read, now) ==
  [status |-> "ready",
   terminal |-> toTerminalCard(read.summary, now),
   map |-> mapView({read.summary}, now),
   stats |-> {FactView("Entrance", IF read.summary.entrance # {} THEN Entrance(read.summary)
                                   ELSE unknown("Not verified")),
              FactView("Hours", factValue(read.facts, "counter_hours")),
              FactView("Published opportunities", unknown("No approved schedule source yet")),
              FactView("Parking", factValue(read.facts, "parking"))},
   directions |-> read.summary.entrance,
   opportunitiesNote |-> opportunitiesNote(read.summary),
   age |-> ageView(read.summary, now),
   rows |-> { evidenceRow(source) : source \in read.sources }]

\* Without a reading, its place says that there is none.
EvidenceAges(ages) ==
  IF ages = {} THEN { Item("state", <<"Not checked yet">>, "unknown", {}) }
  ELSE UNION { EvidenceAge(age) : age \in ages }

\* Every tab's panel is on the page; only one of them is not hidden.
TerminalPanels(model) ==
  SourceStateBadge(model.terminal.evidence) \cup
  FactValue("From you", model.terminal.accessText) \cup
  { Item("note", <<IF model.directions # {} THEN "Directions" ELSE "No directions">>, "none", {}),
    Item("opportunities", <<model.opportunitiesNote>>, "none", {}) } \cup
  StatGrid(model.stats) \cup EvidenceAges(model.age) \cup HistoricalStats

TerminalDetailScreen(model) ==
  IF model.status = "error" THEN ErrorState("We could not load this terminal")
  ELSE MapSurface(model.map) \cup EvidenceRows(model.rows) \cup
       About(<<"terminal", model.terminal.id>>, TerminalPanels(model))

-------------------------------------------------------------------------------
(* /api/v1/sources/health *)

APPROVAL == [approved |-> "approved", needs_review |-> "review", paused |-> "paused",
             restricted |-> "restricted"]
APPROVAL_TONE == [approved |-> "verified", review |-> "caution", paused |-> "unknown",
                  restricted |-> "caution"]

toSourceHealthRow(row, now) ==
  LET of(value) == IF row.latest = {} THEN unknown("Not checked yet") ELSE value IN
  [id |-> row.source,
   evidence |-> { toEvidenceView(read, now) : read \in row.latest },
   pageTime |-> of(LET read == the(row.latest) IN
                   IF read.source_time # {} THEN known(formatTimestamp(the(read.source_time)))
                   ELSE unknown("Page showed no timestamp")),
   readAt |-> of(known(formatTimestamp(the(row.latest).observed_at))),
   cadence |-> IF row.cadence_minutes # {} THEN known(formatCadence(the(row.cadence_minutes)))
               ELSE unknown("Not scheduled"),
   reader |-> IF row.adapter # {} THEN known(<<"reader">>) ELSE unknown("Not assigned"),
   approval |-> APPROVAL[row.review_state],
   killSwitched |-> row.kill_switched]

\* Notices restate decided states; a restricted source may have two.
toNotices(rows) ==
  LET shows(row, state) == \E read \in row.latest : read.state = state IN
  { [id |-> row.source, kind |-> "conflict"] : row \in { r \in rows : shows(r, "source_conflict") } } \cup
  { [id |-> row.source, kind |-> "missing"] : row \in { r \in rows : shows(r, "source_missing") } } \cup
  { [id |-> row.source, kind |-> "restricted"] : row \in { r \in rows :
      r.review_state = "restricted" \/ shows(r, "restricted_user_open_only") } }

\* A count of a state this version does not know is left out.
toSourceHealthScreenModel(read, now) ==
  [status |-> IF read.rows # {} THEN "ready" ELSE "empty",
   summary |-> { count \in read.counts : isSourceStateCode(count.state) },
   rows |-> { toSourceHealthRow(row, now) : row \in read.rows },
   notices |-> toNotices(read.rows)]
emptySourceHealth == [status |-> "empty", summary |-> {}, rows |-> {}, notices |-> {}]

HealthTableRow(row) ==
  About(<<"source", row.id>>,
    StatusPill(APPROVAL_TONE[row.approval], <<row.approval>>) \cup
    (IF row.killSwitched THEN StatusPill("caution", <<"Stopped">>) ELSE {}) \cup
    SourceStateBadge(row.evidence) \cup
    FactStrip({FactView("Page time", row.pageTime), FactView("We read it", row.readAt),
               FactView("Cadence", row.cadence), FactView("Reader", row.reader)}))

HealthTable(rows) == UNION { HealthTableRow(row) : row \in rows }

SourceHealthScreen(model) ==
  CASE model.status = "empty" -> EmptyState("No sources are being checked yet")
    [] model.status = "error" -> ErrorState("We could not load source health")
    [] OTHER ->
         About(Page, { Item("count", <<entry.state, entry.count>>, lexemeFor(entry.state).tone, {}) :
                         entry \in model.summary }) \cup
         HealthTable(model.rows) \cup
         { [about |-> <<"source", notice.id>>, item |-> Item("notice", <<notice.kind>>, "none", {})] :
             notice \in model.notices }

-------------------------------------------------------------------------------
(* Terminals to check for a trip *)

\* Terminals are numbered in the order of their names: the one at place i has i - 1 before it.
byName(terminals) ==
  [i \in 1..Cardinality(terminals) |->
     CHOOSE t \in terminals : Cardinality({ other \in terminals : other < t }) = i - 1]

\* Defect: the origin is listed wherever its name falls.
orderTerminals_by_name(terminals, origin) == byName(terminals)

\* The origin, then the others by name.
orderTerminals(terminals, origin) ==
  (IF origin \in terminals THEN <<origin>> ELSE <<>>) \o byName(terminals \ {origin})

scheduleFact(detail) ==
  IF detail.result # "ok" THEN unknown("could not load this terminal's schedule link")
  ELSE IF \E source \in detail.value.sources : source.kind = "schedule_artifact"
  THEN known(<<"72-hour schedule">>)
  ELSE unknown("No 72-hour schedule source is registered")

ALWAYS_UNKNOWN_FACTS ==
  {FactView("Destinations served", unknown("")), FactView("Entrance", unknown("Not verified")),
   FactView("Drive time", unknown(""))}

terminalToCheckRow(summary, origin, detail, now) ==
  [id |-> summary.terminal, isOrigin |-> summary.terminal = origin,
   evidence |-> { toEvidenceView(read, now) : read \in summary.latest },
   age |-> ageView(summary, now), schedule |-> scheduleFact(detail), facts |-> ALWAYS_UNKNOWN_FACTS]

\* One row per terminal of the network, whatever became of its detail.
toTerminalsToCheckViewModel(origin, network, details, now) ==
  LET of(t) == CHOOSE summary \in network : summary.terminal = t
      ordered == orderTerminals({ summary.terminal : summary \in network }, origin)
  IN [i \in DOMAIN ordered |->
        terminalToCheckRow(of(ordered[i]), origin, details[ordered[i]], now)]

TerminalToCheckCard(row) ==
  About(<<"terminal", row.id>>,
    SourceStateBadge(row.evidence) \cup
    (IF row.isOrigin THEN { Item("note", <<"Your origin">>, "none", {}) } ELSE {}) \cup
    EvidenceAges(row.age) \cup FactStrip(row.facts) \cup
    { Item("schedule", IF row.schedule.status = "known" THEN row.schedule.value ELSE row.schedule.note,
           "none", {}) })

TerminalsToCheck(rows) ==
  About(Page, { Item("note", <<"not a ranking">>, "none", {}),
                Item("note", <<"does not read departure schedules">>, "none", {}) }) \cup
  UNION { TerminalToCheckCard(rows[i]) : i \in DOMAIN rows }
===============================================================================
