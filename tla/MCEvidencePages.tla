---------------------------- MODULE MCEvidencePages ----------------------------
(* A small instance of EvidencePages for TLC. *)
EXTENDS EvidencePages

Registered(terminal, kind, facts, prints_time) ==
  [terminal |-> terminal, kind |-> kind, facts |-> facts, prints_time |-> prints_time,
   cadence |-> {360}, adapter |-> {"reader"}]

\* A terminal's page and its schedule, and the page of a second terminal.
PagesRow == << Registered(1, "terminal_page", {"counter_hours"}, TRUE),
               Registered(1, "schedule_artifact", {}, FALSE),
               Registered(2, "terminal_page", {}, FALSE) >>

As(review_state) ==
  [review_state |-> review_state, stopped |-> FALSE, may_display |-> review_state = "approved"]
Absent == As("absent")
Reading(state, at) == [state |-> state, observed_at |-> at, source_time |-> {}, retrieval |-> "succeeded"]

World(registered_terminals, states, readings) ==
  [terminals |-> registered_terminals, register |-> states, latest |-> readings]

\* Nothing yet; the pilot's seed; a schedule that was read while it was approved; the same schedule
\* restricted since; and two terminals whose pages could not be settled.
PagesInitialRegisters ==
  { World({}, <<Absent, Absent, Absent>>, <<{}, {}, {}>>),
    World({1, 2}, <<As("approved"), As("restricted"), Absent>>, <<{}, {}, {}>>),
    World({1}, <<As("approved"), As("approved"), Absent>>,
          <<{Reading("fresh", 0)}, {Reading("no_departures_published", 0)}, {}>>),
    World({1, 2}, <<As("approved"), As("restricted"), As("needs_review")>>,
          <<{}, {Reading("fresh", 0)}, {}>>),
    World({1, 2}, <<As("approved"), Absent, As("approved")>>,
          <<{Reading("source_conflict", 0)}, {}, {Reading("parser_review_required", 0)}>>) }
===============================================================================
