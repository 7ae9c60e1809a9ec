---------------------------- MODULE CurrentEvidence ----------------------------
(***************************************************************************)
(* What PaxPivot shows: which stored observation of a source is the        *)
(* current one, and what a web request makes of it.  Runs publish batches  *)
(* of dated rows as RunLedger promises; requests read several statements   *)
(* in one snapshot while runs commit and the operator edits the register.  *)
(*                                                                         *)
(* Sources: infrastructure/repositories.py (latest_per_source),            *)
(* infrastructure/database.py (read_snapshot, source_observations),        *)
(* application/read_services.py.                                           *)
(***************************************************************************)
EXTENDS SourceGate, FiniteSets

CONSTANTS
  Run,             \* runs, numbered from 1: the number takes part in observation ids
  Request,         \* web requests
  States,          \* the states observations may carry
  MaySupersede,    \* whether observations may name an earlier one
  TerminalSources, \* the sources of the terminal the requests are about
  FactSources,     \* the sources the terminal's current facts were extracted from
  Entries, Switches,  \* what the operator may write
  Histories,       \* the tables of observations to start from, rows of earlier runs
  Window,          \* FRESHNESS_WINDOW, in ticks
  MaxTime          \* bound on the clock

ASSUME RunAssumption == Run \subseteq Nat \ {0}
ASSUME StatesAssumption == States \subseteq SourceState
ASSUME TerminalAssumption == TerminalSources \subseteq Source /\ FactSources \subseteq Source
ASSUME RegisterAssumption == Entries \subseteq Entry /\ Switches \subseteq KillSwitch
ASSUME HistoryAssumption ==   \* made at time 0, one row per source, under ids no run uses
  \A history \in Histories :
    /\ history \subseteq [id : Source, source : Source, observed_at : {0}, recorded_at : {0},
                          state : States, supersedes : {0}]
    /\ \A row \in history : row.id = row.source
    /\ \A a, b \in history : a.source = b.source => a = b
ASSUME TimeAssumption == Window \in Nat /\ MaxTime \in Nat

VARIABLES
  now,
  rows, registry, switches,  \* source_observations, sources, engaged switches, as committed
  run,      \* Run -> its stage, when its transaction started, what it sees, its uncommitted rows
  phase,    \* Request -> the last statement it has executed
  snap,     \* Request -> the database in the snapshot its transaction reads
  got,      \* Request -> what the statements so far returned
  answer    \* Request -> the response

vars == <<now, rows, registry, switches, run, phase, snap, got, answer>>
readers == <<phase, snap, got, answer>>

NoEvidence == [id |-> 0, state |-> "none"]    \* latest = None: never observed
Time == 0..MaxTime
Id == Nat \ {0}
\* Defect: the id is derived from the source.
IdOf_of_source(r, s) == s

\* observation_id is random, so the order of ids is unrelated to any other.
IdOf(r, s) == r * SourceCount + s
Row == [id : Id, source : Source, observed_at : Time, recorded_at : Time, state : States,
        supersedes : Id \cup {0}]                       \* 0: it supersedes nothing
Database == [rows : SUBSET Row, registry : [Source -> Entry], switches : SUBSET KillSwitch]

db == [rows |-> rows, registry |-> registry, switches |-> switches]

-------------------------------------------------------------------------------
(* The current observation of a source *)

superseded(all) == { row.supersedes : row \in all }

\* ORDER BY observed_at DESC, recorded_at DESC, observation_id DESC: a comes first.
Outranks(a, b) ==
  \/ a.observed_at > b.observed_at
  \/ a.observed_at = b.observed_at /\ a.recorded_at > b.recorded_at
  \/ a.observed_at = b.observed_at /\ a.recorded_at = b.recorded_at /\ a.id >= b.id

First(candidates, s) ==
  { row \in candidates : row.source = s /\ \A other \in candidates :
                           other.source = s => Outranks(row, other) }
AsMapping(chosen) ==
  [s \in { row.source : row \in chosen } |-> CHOOSE row \in chosen : row.source = s]

\* Defect: the newest row is chosen first and dropped when it is superseded.
latest_per_source_ranked_first(all) ==
  AsMapping({ row \in UNION { First(all, s) : s \in Source } : row.id \notin superseded(all) })

\* Defect: what was recorded last is current.
latest_per_source_by_recording(all) ==
  LET leaves == { row \in all : row.id \notin superseded(all) } IN
  AsMapping({ row \in leaves : \A other \in leaves :
                row.source = other.source =>
                  \/ row.recorded_at > other.recorded_at
                  \/ row.recorded_at = other.recorded_at /\ row.id >= other.id })

\* Source -> its current observation, for the sources that have one.
latest_per_source(all) ==
  LET leaves == { row \in all : row.id \notin superseded(all) } IN
  AsMapping(UNION { First(leaves, s) : s \in Source })

-------------------------------------------------------------------------------
(* What a response is made of *)

\* Defect: of the positive states only "fresh" ages.
effective_of_fresh_only(row, at) ==
  IF row.state = "fresh" /\ at - row.observed_at > Window THEN "source_stale" ELSE row.state

effective(row, at) ==
  IF row.state \in POSITIVE_STATES /\ at - row.observed_at > Window THEN "source_stale" ELSE row.state

evidence_read(row, at) == [id |-> row.id, state |-> effective(row, at)]

restricted(entry) == entry.policy.review_state = "restricted"

\* Defect: a restricted source still speaks for its terminal.
Observed_unrestricted(latest, register) == TerminalSources \cap DOMAIN latest

\* The terminal's sources that have evidence a traveler may see.
Observed(latest, register) ==
  { s \in TerminalSources \cap DOMAIN latest : ~restricted(register[s]) }

\* max(..., key=observed_at): the first of the newest, in the order of names.
newest(latest, observed) ==
  CHOOSE s \in observed : \A t \in observed :
    \/ latest[s].observed_at > latest[t].observed_at
    \/ latest[s].observed_at = latest[t].observed_at /\ s <= t

displayable_facts(register) == { s \in FactSources : allows(register[s].policy, "display") }

\* The network lists this summary for every terminal; the detail adds sources and facts.
terminal_detail(latest, register, at) ==
  LET observed == Observed(latest, register) IN
  [kind |-> "terminal", at |-> at,
   headline |-> IF observed = {} THEN NoEvidence
                ELSE evidence_read(latest[newest(latest, observed)], at),
   sources |-> [s \in TerminalSources |->
                  IF s \in observed THEN evidence_read(latest[s], at) ELSE NoEvidence],
   facts |-> displayable_facts(register)]

health_row(s, latest, engaged, register, at) ==
  [enabled |-> register[s].enabled, review_state |-> register[s].policy.review_state,
   kill_switched |-> \E mode \in ProcessingMode : engaged_switch(s, register[s], mode, engaged),
   latest |-> IF s \in DOMAIN latest THEN evidence_read(latest[s], at) ELSE NoEvidence]

source_health(latest, engaged, register, at) ==
  LET table == [s \in Source |-> health_row(s, latest, engaged, register, at)] IN
  [kind |-> "health", at |-> at, rows |-> table,
   never_observed |-> Cardinality({ s \in Source : table[s].latest = NoEvidence })]

-------------------------------------------------------------------------------
Init ==
  /\ now = 0
  /\ rows \in Histories
  /\ registry \in [Source -> Entries]
  /\ switches = {}
  /\ run = [r \in Run |-> [stage |-> "new", started |-> 0, sees |-> {}, batch |-> {}]]
  /\ phase = [q \in Request |-> "new"]
  /\ snap = [q \in Request |-> db]
  /\ got = [q \in Request |-> <<>>]
  /\ answer = [q \in Request |-> <<>>]

Tick == now < MaxTime /\ now' = now + 1 /\ UNCHANGED <<rows, registry, switches, run, readers>>

Operator ==
  /\ \/ \E s \in Source, entry \in Entries :
          registry' = [registry EXCEPT ![s] = entry] /\ switches' = switches
     \/ \E sw \in Switches : switches' \in {switches \cup {sw}, switches \ {sw}} /\ registry' = registry
  /\ UNCHANGED <<now, rows, run, readers>>

-------------------------------------------------------------------------------
(* Writers: what is left of a source-check run when only its rows matter *)

Open(r) ==
  /\ run[r].stage = "new"
  /\ run' = [run EXCEPT ![r] = [@ EXCEPT !.stage = "open", !.started = now, !.sees = rows]]
  /\ UNCHANGED <<now, rows, registry, switches, readers>>

\* observed_at is the provider's clock before it retrieves; recorded_at is now() at the start of
\* the transaction; a superseded row must be visible to the insert and of the same source.
append(r, s, state, observed_at, supersedes) ==
  LET row == [id |-> IdOf(r, s), source |-> s, observed_at |-> observed_at,
              recorded_at |-> run[r].started, state |-> state, supersedes |-> supersedes] IN
  /\ run[r].stage = "open"
  /\ observed_at >= run[r].started
  /\ \A earlier \in run[r].batch : earlier.source < s /\ earlier.observed_at <= observed_at
  /\ supersedes # 0 =>
       MaySupersede /\ \E old \in run[r].sees : old.id = supersedes /\ old.source = s
  /\ run' = [run EXCEPT ![r].batch = @ \cup {row}]
  /\ UNCHANGED <<now, rows, registry, switches, readers>>

Close(r) ==
  /\ run[r].stage = "open"
  /\ run' = [run EXCEPT ![r] = [@ EXCEPT !.stage = "closed", !.sees = {}, !.batch = {}]]
  /\ rows' \in {rows, rows \cup run[r].batch}           \* rolled back, or committed
  /\ UNCHANGED <<now, registry, switches, readers>>

Write(r) ==
  \/ Open(r) \/ Close(r)
  \/ \E s \in Source, state \in States, t \in 0..now, old \in {0} \cup { o.id : o \in run[r].sees } :
       append(r, s, state, t, old)

-------------------------------------------------------------------------------
(* Readers: one GET request, statement by statement *)

\* read_snapshot: SELECT 1 fixes the snapshot before the handler runs.
read_snapshot(q) ==
  /\ phase[q] = "new"
  /\ phase' = [phase EXCEPT ![q] = "pinned"]
  /\ snap' = [snap EXCEPT ![q] = db]
  /\ UNCHANGED <<now, rows, registry, switches, run, got, answer>>

\* Defect: READ COMMITTED, so that each statement sees what is committed by then.
Visible_to_statement(q) == db

\* What a statement of the request reads.
Visible(q) == snap[q]

\* generated_at is taken, then latest_per_source() is executed.
Rank(q) ==
  /\ phase[q] = "pinned"
  /\ phase' = [phase EXCEPT ![q] = "ranked"]
  /\ got' = [got EXCEPT ![q] = [at |-> now, latest |-> latest_per_source(Visible(q).rows)]]
  /\ UNCHANGED <<now, rows, registry, switches, run, snap, answer>>

\* list_terminal_sources, then the response (facts look their sources up again).
get_terminal_detail(q) ==
  /\ phase[q] = "ranked"
  /\ phase' = [phase EXCEPT ![q] = "answered"]
  /\ answer' = [answer EXCEPT ![q] =
                  terminal_detail(got[q].latest, Visible(q).registry, got[q].at)]
  /\ UNCHANGED <<now, rows, registry, switches, run, snap, got>>

\* list_engaged ...
ReadSwitches(q) ==
  /\ phase[q] = "ranked"
  /\ phase' = [phase EXCEPT ![q] = "switched"]
  /\ got' = [got EXCEPT ![q] = [at |-> @.at, latest |-> @.latest, engaged |-> Visible(q).switches]]
  /\ UNCHANGED <<now, rows, registry, switches, run, snap, answer>>

\* ... then list_sources, and the response.
list_source_health(q) ==
  /\ phase[q] = "switched"
  /\ phase' = [phase EXCEPT ![q] = "answered"]
  /\ answer' = [answer EXCEPT ![q] =
                  source_health(got[q].latest, got[q].engaged, Visible(q).registry, got[q].at)]
  /\ UNCHANGED <<now, rows, registry, switches, run, snap, got>>

Read(q) ==
  read_snapshot(q) \/ Rank(q) \/ get_terminal_detail(q) \/ ReadSwitches(q) \/ list_source_health(q)

Next == Tick \/ Operator \/ (\E r \in Run : Write(r)) \/ \E q \in Request : Read(q)

Spec == Init /\ [][Next]_vars

-------------------------------------------------------------------------------
(* Properties *)

TypeOK ==
  /\ now \in Time
  /\ db \in Database
  /\ \A a, b \in rows : a.id = b.id => a = b             \* the primary key
  /\ \A r \in Run : run[r].stage \in {"new", "open", "closed"} /\ run[r].started \in Time
  /\ \A r \in Run : run[r].batch \cup run[r].sees \subseteq Row
  /\ \A q \in Request : phase[q] \in {"new", "pinned", "ranked", "switched", "answered"}
  /\ \A q \in Request : snap[q] \in Database

current == latest_per_source(rows)

\* A source that was observed has exactly one current observation, whatever was superseded by
\* whom in runs that did not see each other, and no retired row is ever current (ADR-004,
\* "Supersession precedence"; repositories.latest_per_source).
ObservedSourcesStayVisible ==
  /\ DOMAIN current = { row.source : row \in rows }
  /\ \A s \in DOMAIN current : current[s].source = s /\ current[s] \in rows
  /\ \A s \in DOMAIN current, row \in rows : row.supersedes # current[s].id

\* However overlapping runs commit, what is shown of a source never goes back to an earlier
\* reading, unless a new row says by name that it retires what was shown.
CurrentNeverRegresses ==
  [][\A s \in DOMAIN current :
       (\A row \in rows' \ rows : row.supersedes # current[s].id)
         => s \in DOMAIN current' /\ current'[s].observed_at >= current[s].observed_at]_vars

\* The response is that of one moment: every statement of the request agrees with the database
\* as it was when the request's snapshot was taken (ADR-004, "Isolation": a source with an
\* observation must not read as never observed, nor a restricted one as evidence).
AnswersAreOneMoment ==
  \A q \in Request : phase[q] = "answered" =>
    LET then == latest_per_source(snap[q].rows)
        at == answer[q].at
    IN answer[q] \in {terminal_detail(then, snap[q].registry, at),
                      source_health(then, snap[q].switches, snap[q].registry, at)}

\* A response presents something as positive only on a recent, unretired reading: it is at most
\* the window old, and nothing the reader could know of the same source is newer (SRC-008).
PositiveMeansRecentlyRead ==
  \A q \in Request : phase[q] = "answered" =>
    LET Shown == IF answer[q].kind = "health"
                 THEN { answer[q].rows[s].latest : s \in Source }
                 ELSE { answer[q].sources[s] : s \in TerminalSources } \cup {answer[q].headline}
    IN \A e \in Shown : e.state \in POSITIVE_STATES =>
         \E row \in snap[q].rows :
           /\ row.id = e.id /\ row.state = e.state
           /\ row.observed_at + Window >= answer[q].at
           /\ \A other \in snap[q].rows :
                other.source = row.source /\ other.observed_at > row.observed_at =>
                  other.id \in superseded(snap[q].rows)

\* Nothing observed before a restriction speaks for a terminal, in its headline or its list, and
\* the headline is never older than the evidence listed below it (read_services.terminal_summary).
HeadlineIsLicensedAndNewest ==
  \A q \in Request : phase[q] = "answered" /\ answer[q].kind = "terminal" =>
    LET Source_of(e) == { row.source : row \in { x \in snap[q].rows : x.id = e.id } }
        Age(e) == { row.observed_at : row \in { x \in snap[q].rows : x.id = e.id } }
        listed == { answer[q].sources[s] : s \in TerminalSources } \ {NoEvidence}
    IN /\ \A e \in listed \cup {answer[q].headline} : \A s \in Source_of(e) :
            s \in TerminalSources /\ snap[q].registry[s].policy.review_state # "restricted"
       /\ (answer[q].headline = NoEvidence) <=> (listed = {})
       /\ \A e \in listed : \A t \in Age(e), h \in Age(answer[q].headline) : t <= h
===============================================================================
