# PaxPivot: specifications, model checking and proofs

PaxPivot collects evidence about official sources (military passenger terminal pages, the
schedule documents they link, a directory page) and shows it, with its age and its
limits, to one pilot user. What makes it trustworthy is not computation but restraint: it may
retrieve and interpret a source only as far as a register of processing policies and a set of
kill switches permit, it never rewrites history, and silence must never look like news. The web
application has to carry that restraint to the screen, and to be as honest about what became of
the traveler's own requests. This directory models both in TLA+, checks them with TLC and proves
the main results with TLAPS.

Paths below are relative to the repository root; `api/` stands for `apps/api/paxpivot/`, `web/`
for `apps/web/`.

## 1. Inventory

| Component | State it keeps | Operations | Talks to |
|---|---|---|---|
| Processing gate (`api/domain/source.py`, `api/application/source_gate.py`) | none; reads a register row and the engaged switches | `allows`, `engaged_switch`, `authorize_processing` | called by every component that touches a source |
| Observation pipeline (`api/application/source_pipeline.py`) | none | `record_observation`, `validate_against_policy` | gate, provider (awaits), repository |
| Source-check run (`api/application/source_checks.py`, `api/tooling.py: check_sources`, `deploy/run-checks.sh`) | outcomes so far, exit status | one pass over all sources, in one write transaction; cron script pings a dead-man monitor | pipeline, database, monitor |
| Firecrawl provider (`api/infrastructure/providers/firecrawl.py`) | page cache, one per run | `observe`, `fetch_document`, artifact discovery | Firecrawl over HTTP, gate |
| Database (`api/infrastructure/database.py`, `repositories.py`, migrations) | registry, switches, append-only observations and facts, trips | `transaction` (REPEATABLE READ), `read_snapshot`, repositories | everything |
| Registry seed (`api/infrastructure/bootstrap.py`) | none; writes registry rows | insert missing rows, upgrade known policy versions | database |
| Read services (`api/application/read_services.py`) | none; derive a view at a time | terminal network, terminal detail, source health | `latest_per_source`, gate |
| Reliability report (`api/application/source_reliability.py`) | none | verdict of each source over a window | observations, `skip_reason` |
| Corpus capture (`api/application/corpus.py`) | files | fetch one page into a fixture | gate, provider |
| Trip requests (`web/app/trips/new`, `api/application/trip_service.py`, `api/api.py`) | trips | post the form, create, list, get | form handler awaits the API; the API's transaction commits after its answer |
| HTTP API (`api/api.py`) | none | reads in one snapshot each; readiness; bearer authentication | database |
| Pilot access (`web/lib/auth`, `web/proxy.ts`, `web/app/auth`) | a signed cookie on the client | login, logout, guard | environment, in front of every private path |
| Evidence pages (`web/app/terminals`, `advanced`, `trips/[tripId]`, `web/lib/presentation/adapters`) | none | read the API, adapt, render | API |
| Shell and screens (`web/components`, `web/lib/presentation/screens`, `web/app/showcase`) | tabs, sheets, marks on the body, of one browser tab | navigate, select, open, close; effects | models of the pages, the browser's dialog |
| Backups, image pruning (`deploy/*.sh`) | dump files, images | daily dump, retention | database, docker |

### How they interact

The operator writes registry rows and switches by SQL. Every six hours cron runs
`run-checks.sh`, which executes `check-sources` in the API container; anybody with a shell may
run the same command at the same time, and nothing locks one out. A run opens one write
transaction, reads registry and switches in its snapshot, walks the sources in name order, and
for each one that the gate admits awaits the provider; what comes back is validated against the
*same* row and switches and inserted. The block's end commits everything. The process then
exits 0, or 3 when the provider failed for some source; 2 without an API key, 1 on an
exception. The script pings the monitor on 0 only. Web requests meanwhile read snapshots.

The seed command writes registry rows too, statement by statement at READ COMMITTED, and is run by
hand after a deployment. In the browser every private path passes the guard, a page reads the
API on each request (the trip page once per terminal, side by side) and renders what it
could read; the form for a trip goes through a route handler to the API and ends in a redirect.

### Behaviours that are hard

* interleaving: overlapping runs; the operator against a run in flight; the seed against the
  operator; a web read against a commit;
* stale state: everything a run decides rests on a snapshot that may be minutes old;
* atomicity and crashes: an exception in one source takes back all; a kill between `COMMIT` and
  exit leaves rows of a run that reported failure; pings get lost;
* partial failure: an artifact needs two requests, and four things that can go wrong look alike;
* ordering: commits out of order under `observed_at` ranking, explicit supersession; effects and
  close events of the browser that come late;
* lost answers: the API goes on, and commits, when nobody hears its answer any more;
* two clocks: the server dates and judges sessions, the browser drops cookies;
* numeric edges: freshness window, percentages and percentiles of small histories.

`PROJECT.json` lists each hazard at its line with the properties that would catch it.

### What makes each component correct

* gate, pipeline: nothing is stored that was not permitted, aspect by aspect (retrieval,
  interpretation, raw body, hash), by the row whose version the observation names;
* run: all or nothing, ends, and its exit status and heartbeat never claim more than it stored;
  stopping a source works for every run that begins afterwards;
* provider: requests permitted pages only, a bounded number of times, and turns nothing but the
  source's own answer into evidence about it;
* storage: history only grows; currentness is a total choice that never goes back to older evidence;
* seed: a person's word survives every deployment, no policy goes back, and a seed that ended well
  took hold;
* reads: a response is one moment of the database, and nothing stale or restricted is presented as
  current;
* evidence pages: what is shown, and what is said to be absent, was so at a moment since the click,
  and one page does not contradict itself;
* trips and access: what a traveler is told about a request is true; no private page without a
  live session;
* shell: marks, tabs and sheets agree with what is in sight, and no live page shows or leads to
  anything synthetic;
* backups: a good dump is not lost to a bad rerun (planned).

## 2. Modules

| Module | What it is | Uses |
|---|---|---|
| `SourceGate` | pure operators of the gate and of the post-retrieval validation | |
| `SourceChecks` | check-sources processes, operator, database, cron script | extends `SourceGate` |
| `RunLedger` | the abstract specification of what a run promises | extends `SourceGate` |
| `FirecrawlChecks` | the runs with the Firecrawl adapter instead of an open provider | extends `SourceChecks` |
| `CurrentEvidence` | which row of a source is current, and web requests reading it | extends `SourceGate` |
| `PilotAccess` | configuration, sessions, guard, sign-in, both clocks | |
| `TripRequests` | a trip request from the form to the row and back to the pages | extends `PilotAccess` |
| `Presentation` | pure operators: the adapters from read models to what is on a page | |
| `EvidencePages` | a page request while the register and its evidence change | extends `Presentation` |
| `AppScreens` | which page a path shows, from which model, with which links and parts | |
| `AppShell` | one browser tab: navigation, tabs, sheets, effects, marks | extends `AppScreens` |
| `RegistrySeed` | seeds, row locks, a person's SQL | |
| `SourceChecksProofs`, `FirecrawlChecksProofs`, `CurrentEvidenceProofs`, `RegistrySeedProofs`, `TripRequestsProofs`, `AppShellProofs`, `EvidencePagesProofs` | theorems about the modules they extend | `TLAPS` |
| `LeastNumber` | least and greatest elements of sets of naturals | `TLAPS` |
| `MC...` | instances for TLC, one per specification | |

### SourceGate

Operators keep the names of the Python functions. A policy's `may_*` flags are the set `may`.
The `summarize` and `aggregate_history` flags are dropped: no code consults them to decide
anything a run does. `SourceObservation` is the set of observations the contract's own validator lets
anybody construct; payload reference, hash and clean URL are Booleans because only their
presence is ever tested. `Readable` is `skip_reason(...) is None`; the wording of a refusal is
left out.

### SourceChecks

| Variable | Code |
|---|---|
| `registry`, `switches`, `observations` | committed content of `sources`, unreleased `processing_switches`, `source_observations` |
| `phase[r]` | where the process is: before the transaction, between two sources, inside `provider.observe`, after the transaction, exited, script returned |
| `seen[r]` | the transaction's REPEATABLE READ snapshot of registry and switches |
| `outcomes[r]` | `SourceCheckRun.outcomes`; its length is the loop's position |
| `pending[r]` | rows inserted and not committed |
| `exit_status[r]`, `pinged` | what cron sees and what the monitor sees |

`Begin`, `NotConfigured`, `Skip`, `Invoke`, `Answer`, `Fail`, `Abort`, `Commit`, `Report`, `Die`
and `run_checks` are the control points of the process, cut where another actor can get in
between: at the transaction's first statement, before and after each await, at the commit, at
the exit. `record_observation`'s second gate is the first one on the same arguments, so `Invoke`
has one guard. `Answer` is the whole of what follows the await: validation, insert and outcome.
`Abort` stands for an exception, a statement the database refuses (a serialization failure
included) and a kill. `SetEntry` and `Release` have no code of their own: an operator types them
(external); `engage` is `KillSwitchRepository.engage`.

The provider is left open: any observation in `Answers`, any error code. An observation is
identified by its run and source, since a run stores at most one row per source (proved, in
`RunsAtomic`).

### RunLedger and the refinement

`RunLedger` has three steps per run, `Open`, `Close` and `Decline`. `Close` adds, in one step,
rows permitted by the registry and switches in force when the run opened, at most one per
source. `SourceChecks` maps its phases to `new`, `open` and `closed`, and its snapshot to
`terms`; every other step stutters.

### FirecrawlChecks

Adds `page_cache` and the history variable `fetches` (read only by properties). `Reply` is what
`_fetch` returns: a failure of Firecrawl itself, or a page status with, possibly, a document.
`observe` is split at each HTTP request: `FetchParent` (for discovery, cached with failures),
`FetchDocument` and `FetchPage`, and the two ways to give up without a further request. The
answer is not chosen: `Observed` computes it. Statuses that the code treats alike are one value.
The operator's steps are restricted to the time before any run begins (`Govern`), because here
a run depends on its snapshot only and `SourceChecks` covers the rest.

### CurrentEvidence

| Variable | Code |
|---|---|
| `now` | the clock of database, provider and API; it never steps back here |
| `rows`, `registry`, `switches` | committed `source_observations`, `sources`, engaged switches |
| `run[r]` | a run's transaction as `RunLedger` leaves it: stage, start, the rows it sees, its own uncommitted rows |
| `phase[q]`, `snap[q]` | the last statement a GET request executed, and its transaction's snapshot |
| `got[q]`, `answer[q]` | what the statements returned so far, and the response |

`Open`, `append` and `Close` are the writers: `SourceChecks` shows that rows appear in one step
per run, so all that is added here is dates. `observed_at` is the provider's clock before it retrieves,
hence between the start of the transaction and now; `recorded_at` is PostgreSQL's `now()`, the
start of the transaction. No adapter sets `supersedes_observation_id` today; the contract, the
foreign key and the ranking query all allow it, so the `ranking` run exercises it: a row may name any row
of its source that its snapshot sees. Random ids become `IdOf`, unrelated in order to dates.

`read_snapshot`, `Rank`, `get_terminal_detail`, and `ReadSwitches` with `list_source_health`, are
the statements of the two kinds of request, with commits and the operator in between. The
network listing shows `get_terminal_detail`'s headline for each terminal. Which sources have
current facts is a constant: nothing in the code writes facts yet.

### PilotAccess and TripRequests

| Variable | Code |
|---|---|
| `now`, `env` | the web server's clock; `process.env` of the running container |
| `jar[b]` | the session cookie of browser `b` and how long `maxAge` lets it live |
| `view[b]`, `flight[b]` | the page a browser shows; the private path it waits for |
| `submission[n]` | a form sent: its content, what the route handler, the API's transaction and its answer came to |
| `terminals` | committed `terminals` rows |
| `signed_in[b]`, `seen[b]` | history, read only by properties: the last accepted sign-in; the trips shown |

A tick lets time pass for the server, the cookies and the history alike; `StepBack` corrects the
server's clock only. A signature is modelled as what it is for: `signed_with` holds of the secret
that made the token. `POST` is the route handler up to its call, `create_trip_request`,
`create_trip` and `get_write_connection` are the API's lookup, insert and commit, in that order:
the answer is fixed at the insert, and the commit follows it, because FastAPI ends a dependency
after the response is sent. `Answered` may happen before that, after it, or with no answer at all.
`Redeploy` replaces the web container and its environment and breaks what it was handling. The
contract's validation is the flag `fault` of a form: a form may be incomplete (`toIso`, `trim`),
unacceptable to the API, or break on the way. A form that the guard turns away is lost, as in
the code: 307 to the login page, later a GET of a path that only knows POST.

### Presentation and EvidencePages

`Presentation` translates the adapters with their names: lexicon, tones, ages, the five wordings
about one reading, the order of a trip's terminals, the reliability of a registered schedule. What
is on a page is a set of statements `[about, item]`, an item having a shape (badge, marker, fact, pill, empty state
and so on), a text, a tone and an age. Texts that no property tells apart are one value.

`EvidencePages` has the register and its evidence as its world (`terminals`, `register`,
`latest`), one read request at a time (`request`), and `moments`, a history of the states the world
was in since the click. A row of the register is a review state, a switch and the display permission
(`Registration`), which `Review` sets. `Observe` commits the reading of a run: a run judges by the snapshot
it began with, so the reading is of any time at which the source was readable (`readable_since`), even if
it is not any more. `RegisterTerminal` adds terminals and sources. `Read` and
`readTerminalDetails` are the page's reads; each answers what the API computes from the
world as it is then, in one snapshot (`CurrentEvidence` shows why that is right), or fails. `Render`
happens later, with a later clock.

### AppScreens and AppShell

`AppScreens` reduces each model to where it comes from (`empty`, `api`, `fixture`), the links it
carries and its size, and each screen to the links, tabs, sheet and action bar it shows for a
model. `Page(path, production, data)` is the router: the pages, the gallery under `/showcase` with its
guard, and `not-found`. `AppShell` is the browser: `committed` is what React has rendered, `ran`
what effects have run for, `dialog` the `<dialog>` element on the screen, `closing` its queued close
events. `RunEffects` runs all clean-ups before all new effects, as React does, and no later than the
next interaction. A `sheet` of kind `while_open` is mounted only while open, one of kind `kept` always.

### RegistrySeed

A seed's statement `at` is an insert of row `at` or the update of row `at - RowCount`; `written[i]`
holds its uncommitted rows, which are also its row locks. An insert waits for another's uncommitted
insert of the same key; an update waits for a locked row that matches, and asks its `WHERE` again,
as READ COMMITTED does. A person's `UPDATE` is atomic and waits for locks too. Of a row, the
policy version, review state and `enabled` are kept, which is what the `WHERE` and
`POLICY_COLUMNS` tell apart. `Release` is the image a seed comes from.

Operators named `X_something` with a comment "Defect" are alternative bodies for `X`, each the
trace of a plausible bug. They are not part of any specification; replacing `X` by one must
break the property it is paired with in `PROJECT.json`.

## 3. What is checked

| Run | Instance | Result |
|---|---|---|
| `overlap` | 2 runs, 2 sources, one register row, 2 switches, one answer per source | holds; 110 224 states |
| `policy` | 1 run, 1 source, 6 register rows, 3 switches, 14 answers, 2 versions | holds; 39 936 states |
| `firecrawl` | 1 run, a terminal page and two artifacts, 6 replies, 2 rows, 2 switches | holds; 12 554 states |
| `ranking` | 3 runs of one source, supersession, clock 0..2, window 1 | holds; 19 847 states |
| `reading` | 1 run, 2 sources, 1 request, 3 earlier histories, 2 register rows, 1 switch, clock 0..2, window 1 | holds; 611 040 states |
| `trips` | 1 browser, 1 terminal, 1 form, 4 deployments, clock 0..2 that may step back, session of 1 tick | holds; 384 048 states |
| `pages` | 3 terminals, 3 sources, 5 initial registers, 1 change, clock 0..2, window 1 | holds; 115 997 states |
| `screens` | every page of both builds, at most 2 queued close events | holds; 3 865 states |
| `seed` | 2 seeds, 2 releases, 3 rows, 2 writes of a person | holds; 449 072 states |
| `switch` | as `overlap` | violated: see Findings |
| `unrecorded` | as `trips`, one deployment, clock 0..1 that does not step back | violated: see Findings |
| `never_checked` | as `pages` | violated: see Findings |

* `RowsWithinLicence`: each stored row was licensed, aspect by aspect, by what its run read. It
  is written from the register's promises, not from the gate's code.
* `RunsAreAllOrNothing`: no reader ever sees part of a run, and reported rows exist.
* `HeartbeatIsHonest`: a ping implies a row for every source the run could read, unless the
  answer was refused. The exception is real: a run whose every source is rejected or skipped
  exits 0 and pings.
* `StoppedSourcesStaySilent`: once a source is stopped and no run in flight still believes it
  readable, no step stores a row of it, and that stays so until the operator acts.
* `HistoryOnlyGrows`, `RunsEnd`, `ImplementsLedger`.
* `OnlyPermittedPagesRequested`, `RequestsAreBounded`, `EvidenceIsTheSourcesOwn`,
  `ImplementsSourceChecks` (fairness included) for the adapter. `SourceChecks` lets a provider be
  refused at any time, so the refinement alone would not notice a healthy source that is;
* `RetrievedIsNeverRefused`: when the pipeline refuses what the adapter came back with, no document of that
  source had been requested. Redirects, the shared page, artifacts without a link and failures
  never make the adapter answer with something its own register row forbids.
* `ObservedSourcesStayVisible`: whatever was superseded by whom, in runs that did not see each
  other, a source with rows has a current one, and no retired row is current.
* `CurrentNeverRegresses`: however overlapping runs commit, what is current is never replaced by
  an earlier reading, unless the new row names what it retires.
* `AnswersAreOneMoment`: a response is computed from one state of the database.
* `PositiveMeansRecentlyRead`: a positive state is shown only for a row inside the window to which
  the reader could know no newer one.
* `HeadlineIsLicensedAndNewest`: no restricted source speaks for its terminal, and the headline
  is never older than what is listed under it.
* `RefusedRecordsNothing`: the notice "That request was not accepted" is final. Whatever is lost,
  redirected, deployed or signed in to between the form and the notice, the submission it is
  about is in no transaction and never will be.
* `ShelfKeepsWhatWasShown`: the list of trips never lacks one shown before; no failed read is told
  as "no trips", and no trip is shown before it is committed, although the API answers the form earlier.
  That a trip shown is committed as it was sent (`ShownTripsAreRecorded`) is proved and has no run.
* `PrivateNeedsALiveSession`: a request gets past the guard to a private path only with a session of
  the running deployment that is not older than its life by a clock that nobody steps back.
* `EveryRequestIsAnswered`: a browser that waits stops waiting.
* `EvidenceIsEarned`: state, tone and age of a terminal's badge and marker are the newest reading of a
  source that might speak at a moment since the click; a source's are its own reading, fresh or stale,
  and else its restriction, its review state or its switch at such a moment. The facts were approved for display
  then, and the verified tone is for positive readings within the window and approvals.
* `AbsenceWasTrue`: "no terminals", "no sources", "no such page", "no schedule source", that no source
  which may speak was read, that no departures are published and that a fact is not, were each true at a
  moment since the click; a read that failed never says any of it. That nothing was *ever* read is
  another matter: see `NotCheckedMeansNeverChecked` under Findings.
* `PageSpeaksWithOneVoice`: badge, marker, evidence list and the sentence about opportunities, computed apart
  from one answer, agree about each terminal. The statistic "No approved schedule source yet" is not in it.
* `TripListsEveryTerminal`, `EveryPageRenders`: the trip page is complete, in order, and comes, however its
  reads end.
* `MarksMatchWhatIsShown`: once effects have run, the floating Ask action gives way exactly to a bar that is in sight.
* `LivePagesAreReal`: outside the gallery, and everywhere in production, no fixture is shown and no link in sight
  leads into the gallery or nowhere.
* `SheetsSettle`: a sheet half open, for React or on the screen, does not stay so.
* `PersonsWordStands`, `VersionsNeverGoBack`, `SeedTakesHold`: what the seed may and must do to a row. A
  `needs_review` row on a replaceable version is approved again, which the code allows;
  the first of the three says "paused, restricted or an own version".

Bounds. Two runs give every overlap of one process with another, and no property relates three.
Two sources give a source before and after the one that fails; two artifacts under one page give
a cache miss and a hit. Two policy versions give a wrong one. `Run`, `SourceCount`, `Entries`,
`Switches`, `Answers` and `Replies` are the only bounds; nothing else is cut off. The `policy` run
contains each register state (approved, paused, awaiting review, snapshot, disabled, wired to
nothing) and each extra an answer can carry. In `ranking`, three runs are what it takes for two to
supersede the same row of a third, and sources do not interact in the ranking, so one is enough; in
`reading`, two sources make a choice of headline and the clock passes the window of an earlier row.
`Histories`, `Window` and `MaxTime` bound this module besides `Run` and `Request`. A `restricted` row allows nothing, as `paused` does.

In `trips`, browsers share nothing but the deployment and no property relates two forms, so one of
each is enough, and a cookie outlives a step back of the clock within three ticks; the theorems hold for any number. The four
deployments are production, the same with a new session secret, one that lost its secret and
a developer's without any; `MaxSubmissions`, `MaxTime` bound the rest. In `pages`, a terminal with
a page and a schedule and a terminal with a page alone give each wording, a third, which may be registered
meanwhile, makes "the others by name" an order of two; the five
registers are those a deployment goes through, and `MaxChanges` is one change during or before a
request. A tick is 390 minutes, so that ages pass from minutes to hours. In `screens`, `MaxClosing` queued
events are as many as one can cause before the first is delivered. In `seed`, the three rows are one of each kind
the code has, with the versions its comments name for the image before this one; two seeds are what it takes
to overlap; `MaxEdits` lets a person write before and during a seed.

The runs `firecrawl` and `seed` set `CHECK_DEADLOCK FALSE`: after its only run, or both
seeds and the person's writes, nothing is left to do. In the other instances somebody can always act.

Fairness. `WF_vars(Step(r))` for each run: a process that has begun keeps going. The code
justifies it: the loop has no wait but the provider call, each phase of an HTTP request has a
60 s timeout (`REQUEST_TIMEOUT_SECONDS`), an insert waits for no other run, and a killed process
is a step as well. So `RunsEnd` is about the loop; a provider's call that never comes back is outside it. No run is obliged to start, and neither is the operator obliged to do
anything. In `FirecrawlChecks` the same holds of the adapter's steps and of the loop's.
`CurrentEvidence` and `RegistrySeed` state safety only and assume no fairness. `TripRequests`: the
browser follows redirects, and the route handler, the API and the page's render go on: none waits for anything but a
call with an answer or an error, or a connection that breaks, and PostgreSQL ends a transaction whose client is gone.
`EvidencePages`: `Read`, `readTerminalDetails` and `Render`, for the same reason. `AppShell`: React runs
its effects and the browser delivers its events. No person is ever obliged to do anything.

### Findings

1. `SwitchNotBypassedAfterRetrieval`. `source_pipeline.py:15-17` promises that a switch "cannot
   be bypassed by engaging it after retrieval". Switches are read once per run, in its snapshot,
   so a switch committed while the provider is awaited is not seen, and the row is stored. What
   the code does guarantee is `StoppedSourcesStaySilent`.
2. `UnavailableRecordsNothing`. The form's notice for an unavailable API ends "nothing was recorded"
   (`NewTripForm.tsx:14-15`). `client.ts` gives that result for a connection that breaks and for an
   answer it cannot read, too; the API goes on and commits. A second try then records the trip
   twice.
3. `NotCheckedMeansNeverChecked`. `terminals-to-check.ts:58` says that a row's evidence is "omitted only
   when PaxPivot has never checked a source for this terminal". The read services leave restricted sources out,
   so a terminal whose readings all come from sources that have been restricted since shows "not checked"
   in the trip's list.

Met on the way, and stated by no run: an artifact whose terminal has no page that may be retrieved is
reported "rejected", as the adapter answers `invalid_input` (`firecrawl.py:241`), although the comment at
`source_checks.py:135-137` takes that for a refused observation; a form posted with
an expired session is lost, and the sign-in leads to a path that only knows POST; a withheld fact
reads "Not published"; "No opportunities are published" is said of a fresh page although
schedules are never read; the empty alerts screen says that no alerts were raised although nothing
raises any yet; the adapter's docstring (`firecrawl.py:7-8`) says "no parsing" although it reads the
page's time stamp.

## 4. What is proved

Seven modules hold the theorems and an eighth, `LeastNumber`, a library. They prove, for every number of
runs, sources, adapters, versions, register rows, switches and answers; of replies, artifacts and pages; of
requests, histories and times; of rows, releases and seeds; of browsers, secrets, deployments, terminals,
forms and addresses; of registers, readings and changes of them:

| Theorem | Statement |
|---|---|
| `SourceChecksProofs` | |
| `TypeCorrect` | `Spec => []TypeOK` |
| `LicenceRespected` | `Spec => []RowsWithinLicence` |
| `RunsAtomic` | `Spec => []RunsAreAllOrNothing` |
| `HeartbeatNeverFalse` | `Spec => []HeartbeatIsHonest` |
| `StoppingIsEffective` | `Spec => StoppedSourcesStaySilent` |
| `HistoryGrows` | `Spec => HistoryOnlyGrows` |
| `Refinement` | `Spec => ImplementsLedger` |
| `FirecrawlChecksProofs` | |
| `AdapterIsAProvider` | `FirecrawlSpec => Init /\ [][Next]_vars` of `SourceChecks` |
| `AdapterTypeCorrect` | `FirecrawlSpec => []FirecrawlTypeOK` |
| `OnlyPermittedRequests` | `FirecrawlSpec => []OnlyPermittedPagesRequested` |
| `RequestBudget` | `FirecrawlSpec => []RequestsAreBounded` |
| `AdapterIsNeverRefused` | `FirecrawlSpec => []RetrievedIsNeverRefused` |
| `EvidenceIsItsOwn` | `FirecrawlSpec => []EvidenceIsTheSourcesOwn` |
| `StoredEvidence` | the three invariants of the runs, and the source's own evidence in every committed row |
| `AdapterRefinesLedger` | `FirecrawlSpec => ImplementsLedger` |
| `CurrentEvidenceProofs` | |
| `TypeCorrect` | `Spec => []TypeOK` |
| `OneMoment` | `Spec => []AnswersAreOneMoment` |
| `SourcesStayVisible` | `Spec => []ObservedSourcesStayVisible` |
| `NeverBackwards` | `Spec => CurrentNeverRegresses` |
| `PositiveIsFresh` | `Spec => []PositiveMeansRecentlyRead` |
| `HeadlineIsNewest` | `Spec => []HeadlineIsLicensedAndNewest` |
| `RegistrySeedProofs` | |
| `TypeCorrect` | `Spec => []TypeOK` |
| `PersonsWordAlwaysStands` | `Spec => []PersonsWordStands` |
| `PoliciesNeverGoBack` | `Spec => VersionsNeverGoBack` |
| `CommittedSeedsTookHold` | `Spec => []SeedTakesHold` |
| `TripRequestsProofs` | |
| `TypeCorrect` | `Spec => []TypeOK` |
| `PrivatePagesNeedALiveSession` | `Spec => PrivateNeedsALiveSession` |
| `RefusalsAreFinal` | `Spec => []RefusedRecordsNothing` |
| `ShownTripsAreDurable` | `Spec => []ShownTripsAreRecorded` |
| `ShelvesAreComplete` | `Spec => []ShelfKeepsWhatWasShown` |
| `AppShellProofs` | |
| `TypeCorrect` | `Spec => []TypeOK` |
| `MarksMatch` | `Spec => []MarksMatchWhatIsShown` |
| `LiveStaysLive` | `Spec => []LivePagesAreReal` |
| `EvidencePagesProofs` | |
| `TypeCorrect` | `Spec => []TypeOK` |
| `EvidenceEarned` | `Spec => []EvidenceIsEarned` |
| `AbsenceTrue` | `Spec => []AbsenceWasTrue` |
| `OneVoice` | `Spec => []PageSpeaksWithOneVoice` |
| `TripListsAll` | `Spec => []TripListsEveryTerminal` |

These theorems state every invariant and action property that a passing run checks, and `ShownTripsAreRecorded`.

`LeastNumber` says that a nonempty set of naturals has a least
element, and a bounded one a greatest, from the well-foundedness of `<`.

**Assumptions.** Those the modules declare, evaluated by TLC in each run: at least one source, `NoAdapter`
is no adapter, the provider's identity is one, the inputs of operator and provider have their types, an
unset setting is no passphrase and no secret, terminals are finitely many. Five deserve a word.

* `PortAssumption` (`FirecrawlChecks`): what the adapter can build is among the answers of the open
  provider. It says that the two modules speak of the same port, and no more.
* `HistoryAssumption` (`CurrentEvidence`): the rows there are before the first run have their types,
  and at most one per source, under that source's id. The instance's histories are of this kind.
* `UpgradeAssumption` (`RegistrySeed`): a release replaces only versions older than its own. This is the
  reviewers' duty: the list of replaceable versions is one for all kinds of rows, so a person
  who gave the directory a page's old version would be outside of it.
* `CumulativeAssumption` (`RegistrySeed`): a release that replaces another's version replaces on that row
  what the other replaced, too. It was found by the proof: without it, with three images, an
  older seed may turn a version the newest does not list into one it does, after the newest has passed
  the row over, and `SeedTakesHold` fails. The lists of replaceable versions only ever grow, since
  `bootstrap.py` takes "any other version" for a person's.
* `RegistersAssumption` (`EvidencePages`): the registers there may be before the first page have their types,
  keep the foreign key of sources to terminals, and hold at most one reading per source, from no later
  than the start. Each is what the schema and `latest_per_source` give any register of the code's.

**The runs.** None of the invariants is inductive: a committed row says nothing of how it got
there. The inductive invariant `IInv` is `TypeOK` and, for each run `r`, `RunInv(r)`:

* `RunShape(r)`: an idle run has recorded nothing; a run awaiting an answer is at a source its
  snapshot lets it read; a run past its transaction's good end has an outcome for every source; no
  exit status is set before the exit;
* `PendingMatches(r)`: the pending rows are exactly one per source recorded so far, and each was
  accepted under the run's snapshot;
* `Published(r)`: the committed rows of the run are none before its commit or after a rollback,
  and its pending rows after a commit;
* `OutcomesHonest(r)`: a source the snapshot lets the run read never has the outcome `skipped`;
  status 0 hides no provider failure, and a ping needs status 0.

Each action touches one run, so the preservation proof has two halves: other runs keep their
part because nothing it mentions changes (`OthersUntouched`), and the acting run keeps it by one
lemma per group of actions (`BeginKeeps`, `InvokeAbortKeep`, `NotRecordedKeeps`, `RecordKeeps`,
`CommitKeeps`, `ExitKeeps`). Snapshots are immutable once taken, which is what turns a fact
about an await into one about a commit much later. The two action properties and the refinement
follow from the invariant and a case split on the step (`OnlyCommitsPublish`, `StageMoves`,
`CommitCloses`).

**The adapter.** Each of its steps is an `Answer` or a `Fail` of `SourceChecks` or a stutter, so `IInv` holds
here as it stands. `AdapterIInv` adds, for each run, `FetchInv(r)`: the requests sent so far are for
sources whose turn came, to pages that were permitted; a page is in the cache exactly if it was requested
for discovery; a source not yet recorded was not requested for itself; each pending row has the request
it was computed from; and a source whose outcome is "rejected" has no request of its own (`NotRefused`), as
the gate's questions after the retrieval (`ObservedIsAccepted`) are those the adapter has answered already. The bound on requests is an invariant about all pairs of them, so each
step has to show that its request differs from every earlier one.

**Current evidence.** The database's part is `TableInv`: rows are unique by id, supersession stays
within a source, every run's uncommitted rows (`Batch`) are new, and every source with rows has a
`Leaf`, a row nobody retires. A run retires rows its own snapshot holds, so what it appends is a leaf
itself, or leaves the earlier leaves alone; that is why sources stay visible although two runs retire the same row.
The current row is the first in the ranking's order among the leaves; that it exists is the least number
principle, once for each of the ranking's three keys (`LatestIsALeaf`). The readers' part, `ReaderInv(q)`,
says that what the statements returned is what the request's snapshot holds; `OneMoment` rests on
it alone, `PositiveIsFresh` and `HeadlineIsNewest` on it and on `Sound` of the snapshot's rows. `ReadKeeps` has
one case per statement; every other step leaves all requests alone.

**The seed.** Its theorems rest on what an uncommitted write is (`WritesAreCurrent`): it inserts a row
nobody has, or upgrades the row that is still the committed one, because its writer holds the lock on
it. Without it, a commit could overwrite a pause written after the `WHERE` was asked. `StatementIInv`,
`CommitIInv` and `WriteIInv` are the three ways the rows or the writes change. `SeedTakesHold` needs what each
statement leaves behind (`HoldInv`): past an insert the row exists or the seed's own write does, past
an update the row is written by the seed, by a person since, or not on a version its release replaces;
`UpgradesStayReplaced` is where another release's later commit is dealt with.

**Trips and sessions.** The session theorem rests on `SessionInv`: a cookie that is still kept is the last
sign-in's, and the sign-in's age and what is left of the cookie never exceed a session's life together. The
server's own expiry test is not used: it is the one that a clock stepped back deceives, and the
theorem shows that the cookie's end covers for it. The theorems about requests rest on `SubmissionInv` (a
refusal is answered only for a transaction that is over, an insert only with its success) and `PagesInv`:
every path that carries "invalid", whether on a page, in a redirect, in the login page's `next` or in a
request under way, is about a submission that is over. `SubmissionsFollow` shows that what is over stays over and what is
recorded stays as it was sent, so what a page said stays true (`TrueStaysTrue`), and each action has
to account only for what it newly says. `ShelfInv` adds that trips seen are committed ones of this database, which only
grow, and that a list on the screen is a snapshot of them; `PagesTyped` says which pages and paths there are.

**The shell.** What all screens have in common is a lemma (`PageShape`): no screen has a bar on the page
and one in a sheet, and only one whose bar belongs to a tab mirrors the selection. With it, `MarksInv` (a mark says
whether its effect last ran for something, and that was one bar at most) and `SheetInv` (an open sheet
whose effect ran has its dialog open or a close event on its way) are inductive. With two bars at a time the
clean-up of one would take back the other's mark, so `PageShape` is what the code's correctness hangs on.
`LiveStaysLive` enumerates the live pages and the nine paths they lead to.

**Evidence pages.** A page is rendered from answers of different moments, after the last of them and with a later
clock, and its properties speak of moments in the past, so nothing about the present world can be
invariant. `IInv` therefore speaks of `moments`: each answer that came is a failure or was computed from
one of them (`AnswersOK`), and a page shown is `Truthful`: there is *one* moment since the click of which every
statement on it is `Legit`, the schedules apart, each of which has a moment of its own, since the trip's page
reads each detail by itself. `Legit` says of one statement, by its shape and what it is about, what it may
say of that moment. TLC checked `IInv` on the instance of `pages` with two terminals before it was proved.

The moments only grow while a page is read, so answers stay true (`AnswersKept`), and the work is in `Render`: for each
page a lemma takes the screen apart, component by component, down to single statements (`CardItems`,
`MapItems`, `RowsShown`, `HealthRowItems` and their like). The other half reads the properties off `Truthful`. One moment is what
makes the five wordings agree: all of them come from the headline that moment has, which exists, is unique and
is the newest by the least number principle (`HeadlineReading`). For the order of a trip's terminals, `Places` shows
by counting those before it that each terminal has exactly one place by name, `ByNameSorts` that names ascend, and
`OriginThenByName` puts the origin first.

**Only model-checked.** The liveness properties (`RunsEnd`, `EveryRequestIsAnswered`, `EveryPageRenders`,
`SheetsSettle`) and the fairness in `ImplementsSourceChecks`, whose safety is `AdapterIsAProvider`: liveness is
out of the prover's reach; and the three violations.

## 5. Not modelled, and why

* Text: parsing of pages, discovery's URL matching, formatting, message keys. Only results that
  decide something are kept.
* Entrance selection and eligibility: stateless functions of one value.
* Of the web application: `error.tsx`, the sort and filter controls (state no other part reads),
  disclosures, layout, icons, the timeline, readiness and notice components, and the types.
* Readiness: one query compared with one constant.
* The HMAC, base64 and cookie syntax; several tabs that share a cookie jar.
* Backups, image pruning, corpus capture and the reliability report: planned.
* Migrations and development tooling: run once, or not part of the running system.
* `payload_ref` is modelled in the gate although no adapter produces one today.

## 6. Plan

Done: the run, its adapter, what the stored evidence means to a reader, the seed, trip requests
with pilot access, evidence pages and the browser's shell, and the proofs of all their safety properties. In order of importance:

1. `Reliability`: the verdict as recursive functions over bounded histories, against a reference
   by schedule slots.
2. `Backups`: dump, failure, rerun, retention. Corpus capture: two files from a snapshot already
   closed.
