----------------------------- MODULE SourceChecks -----------------------------
(***************************************************************************)
(* The source-check runs of PaxPivot: every check-sources process reads the *)
(* registry and the engaged switches once, in the snapshot of one          *)
(* REPEATABLE READ transaction, walks the sources in order, asks the       *)
(* provider about each source it may read, and publishes all its rows in   *)
(* one commit.  Several runs may overlap (cron and a manual run take no    *)
(* lock), and the operator changes registry rows and switches meanwhile.   *)
(*                                                                         *)
(* Sources: tooling.check_sources, application/source_checks.py,           *)
(* application/source_pipeline.py, infrastructure/database.transaction,    *)
(* infrastructure/repositories.py, deploy/run-checks.sh.                   *)
(***************************************************************************)
EXTENDS SourceGate, Sequences

CONSTANTS
  Run,          \* check-sources processes; each id is one invocation
  ProviderId,   \* the provider's own identity (PROVIDER_ID)
  Entries,      \* the registry rows the operator may write
  Switches,     \* the switches the operator may engage
  Answers       \* the observations a provider may return

ASSUME ProviderAssumption == ProviderId \in Adapter
ASSUME EntriesAssumption == Entries \subseteq Entry /\ Entries # {}
ASSUME SwitchesAssumption == Switches \subseteq KillSwitch
ASSUME AnswersAssumption == Answers \subseteq SourceObservation

VARIABLES
  registry,      \* sources table: Source -> Entry, as committed
  switches,      \* processing_switches rows with released_at IS NULL, as committed
  observations,  \* source_observations: the committed rows
  phase,         \* Run -> where the process is
  seen,          \* Run -> the snapshot its transaction reads
  outcomes,      \* Run -> outcomes so far; the i-th is that of source i
  pending,       \* Run -> rows inserted in the open transaction
  exit_status,   \* Run -> the process's exit status; NoStatus while it has none
  pinged         \* runs whose heartbeat ping reached the monitor

vars == <<registry, switches, observations, phase, seen, outcomes, pending,
          exit_status, pinged>>
world == <<registry, switches>>

Phase == {"idle",        \* not started
          "checking",    \* between two sources, transaction open
          "awaiting",    \* inside provider.observe of the next source
          "committed",   \* the transaction ended well, nothing reported yet
          "rolled_back", \* the transaction ended in an exception or a crash
          "exited",      \* the process has exited
          "done"}        \* run-checks.sh has returned as well
Outcome == {"recorded", "skipped", "rejected", "provider_failure"}
ErrorCode == {"unauthorized", "forbidden", "unavailable", "invalid_input", "conflict"}
NoStatus == 99
ExitStatus == {0, 1, 2, 3}
Snapshot == [registry : [Source -> Entry], switches : SUBSET KillSwitch]

\* One stored row.  A run stores at most one row per source, so run and
\* observation.source stand for observation_id.
Row == [run : Run, observation : SourceObservation]
RowsOf(r) == { row \in observations : row.run = r }

TypeOK ==
  /\ registry \in [Source -> Entry]
  /\ switches \subseteq KillSwitch
  /\ observations \subseteq Row
  /\ phase \in [Run -> Phase]
  /\ seen \in [Run -> Snapshot]
  /\ outcomes \in [Run -> Seq(Outcome)]
  /\ pending \in [Run -> SUBSET Row]
  /\ exit_status \in [Run -> ExitStatus \cup {NoStatus}]
  /\ pinged \subseteq Run

Init ==
  /\ registry \in [Source -> Entries]
  /\ switches = {}
  /\ observations = {}
  /\ phase = [r \in Run |-> "idle"]
  /\ seen = [r \in Run |-> [registry |-> registry, switches |-> {}]]
  /\ outcomes = [r \in Run |-> <<>>]
  /\ pending = [r \in Run |-> {}]
  /\ exit_status = [r \in Run |-> NoStatus]
  /\ pinged = {}

-------------------------------------------------------------------------------
(* The operator (external: SQL by hand, or KillSwitchRepository.engage) *)

\* A registry row is rewritten: paused, restricted, approved, disabled, repointed.
SetEntry(s, entry) ==
  /\ registry' = [registry EXCEPT ![s] = entry]
  /\ UNCHANGED <<switches, observations, phase, seen, outcomes, pending, exit_status, pinged>>

engage(sw) ==
  /\ switches' = switches \cup {sw}
  /\ UNCHANGED <<registry, observations, phase, seen, outcomes, pending, exit_status, pinged>>

Release(sw) ==
  /\ switches' = switches \ {sw}
  /\ UNCHANGED <<registry, observations, phase, seen, outcomes, pending, exit_status, pinged>>

-------------------------------------------------------------------------------
(* One check-sources process *)

Turn(r) == Len(outcomes[r]) + 1             \* the source whose turn it is
EntryOf(r) == seen[r].registry[Turn(r)]      \* its registry row, in the run's snapshot
TurnReadable(r) == Readable(Turn(r), EntryOf(r), ProviderId, seen[r].switches)

\* Defect: the switches are those of an earlier read, kept across runs.
Begin_with_old_switches(r) ==
  /\ phase[r] = "idle"
  /\ phase' = [phase EXCEPT ![r] = "checking"]
  /\ seen' = [seen EXCEPT ![r].registry = registry]
  /\ UNCHANGED <<world, observations, outcomes, pending, exit_status, pinged>>

\* Defect: the registry is the one loaded when the program was deployed.
Begin_with_old_registry(r) ==
  /\ phase[r] = "idle"
  /\ phase' = [phase EXCEPT ![r] = "checking"]
  /\ seen' = [seen EXCEPT ![r].switches = switches]
  /\ UNCHANGED <<world, observations, outcomes, pending, exit_status, pinged>>

\* The first statement of the transaction fixes the snapshot of every later one,
\* list_engaged and list_sources included.
Begin(r) ==
  /\ phase[r] = "idle"
  /\ phase' = [phase EXCEPT ![r] = "checking"]
  /\ seen' = [seen EXCEPT ![r] = [registry |-> registry, switches |-> switches]]
  /\ UNCHANGED <<world, observations, outcomes, pending, exit_status, pinged>>

\* FIRECRAWL_API_KEY is not set: exit_code(None), an empty transaction.
NotConfigured(r) ==
  /\ phase[r] = "idle"
  /\ phase' = [phase EXCEPT ![r] = "exited"]
  /\ exit_status' = [exit_status EXCEPT ![r] = 2]
  /\ UNCHANGED <<world, observations, seen, outcomes, pending, pinged>>

\* Defect: the loop goes on to the same source after a refusal.
Skip_without_outcome(r) ==
  /\ phase[r] = "checking" /\ Turn(r) \in Source
  /\ ~TurnReadable(r)
  /\ UNCHANGED vars

\* Refused before retrieval: the provider is never asked.
Skip(r) ==
  /\ phase[r] = "checking" /\ Turn(r) \in Source
  /\ ~TurnReadable(r)
  /\ outcomes' = [outcomes EXCEPT ![r] = Append(@, "skipped")]
  /\ UNCHANGED <<world, observations, phase, seen, pending, exit_status, pinged>>

\* record_observation repeats the gate on the same arguments, then awaits observe.
Invoke(r) ==
  /\ phase[r] = "checking" /\ Turn(r) \in Source
  /\ TurnReadable(r)
  /\ phase' = [phase EXCEPT ![r] = "awaiting"]
  /\ UNCHANGED <<world, observations, seen, outcomes, pending, exit_status, pinged>>

\* Defect: whose page was observed is not compared with whose turn it is.
Accepts_unattributed(r, obs) ==
  /\ obs.provider = ProviderId
  /\ validate_against_policy(obs.source, EntryOf(r), obs, seen[r].switches)

\* What record_observation accepts once the provider has answered.
Accepts(r, obs) ==
  /\ obs.provider = ProviderId
  /\ validate_against_policy(Turn(r), EntryOf(r), obs, seen[r].switches)

\* Defect: append runs on a connection in autocommit mode.
Answer_autocommitted(r, obs) ==
  /\ phase[r] = "awaiting"
  /\ phase' = [phase EXCEPT ![r] = "checking"]
  /\ \/ /\ Accepts(r, obs)
        /\ observations' = observations \cup {[run |-> r, observation |-> obs]}
        /\ outcomes' = [outcomes EXCEPT ![r] = Append(@, "recorded")]
     \/ /\ ~Accepts(r, obs)
        /\ observations' = observations
        /\ outcomes' = [outcomes EXCEPT ![r] = Append(@, "rejected")]
  /\ UNCHANGED <<world, seen, pending, exit_status, pinged>>

\* The provider answers with an observation: stored, or refused and dropped.
Answer(r, obs) ==
  /\ phase[r] = "awaiting"
  /\ phase' = [phase EXCEPT ![r] = "checking"]
  /\ \/ /\ Accepts(r, obs)
        /\ pending' = [pending EXCEPT ![r] = @ \cup {[run |-> r, observation |-> obs]}]
        /\ outcomes' = [outcomes EXCEPT ![r] = Append(@, "recorded")]
     \/ /\ ~Accepts(r, obs)
        /\ pending' = pending
        /\ outcomes' = [outcomes EXCEPT ![r] = Append(@, "rejected")]
  /\ UNCHANGED <<world, observations, seen, exit_status, pinged>>

\* Defect: the error code itself is reported as the outcome.
FailureOutcome_unclassified(code) == code

\* check_source's reading of a Failure the provider returned.
FailureOutcome(code) ==
  IF code \in {"forbidden", "invalid_input"} THEN "rejected" ELSE "provider_failure"

Fail(r, code) ==
  /\ phase[r] = "awaiting"
  /\ phase' = [phase EXCEPT ![r] = "checking"]
  /\ outcomes' = [outcomes EXCEPT ![r] = Append(@, FailureOutcome(code))]
  /\ UNCHANGED <<world, observations, seen, pending, exit_status, pinged>>

\* An exception anywhere in the block, a refused insert or a killed process:
\* transaction() rolls the whole run back.
Abort(r) ==
  /\ phase[r] \in {"checking", "awaiting"}
  /\ phase' = [phase EXCEPT ![r] = "rolled_back"]
  /\ UNCHANGED <<world, observations, seen, outcomes, pending, exit_status, pinged>>

\* Defect: a source keeps one row, its newest.
Commit_replacing(r) ==
  /\ phase[r] = "checking" /\ Turn(r) \notin Source
  /\ phase' = [phase EXCEPT ![r] = "committed"]
  /\ observations' = pending[r] \cup
       { old \in observations :
           \A new \in pending[r] : new.observation.source # old.observation.source }
  /\ UNCHANGED <<world, seen, outcomes, pending, exit_status, pinged>>

\* Every source has its outcome: the block ends and all rows become visible.
Commit(r) ==
  /\ phase[r] = "checking" /\ Turn(r) \notin Source
  /\ phase' = [phase EXCEPT ![r] = "committed"]
  /\ observations' = observations \cup pending[r]
  /\ UNCHANGED <<world, seen, outcomes, pending, exit_status, pinged>>

\* Defect: a run that recorded something counts as clean.
exit_code_of_any_success(r) ==
  IF \A i \in DOMAIN outcomes[r] : outcomes[r][i] # "recorded" THEN 3 ELSE 0

\* 3 when the provider failed for any source.
exit_code(r) ==
  IF \E i \in DOMAIN outcomes[r] : outcomes[r][i] = "provider_failure" THEN 3 ELSE 0

\* The outcomes are printed and the process exits with exit_code(run) ...
Report(r) ==
  /\ phase[r] = "committed"
  /\ phase' = [phase EXCEPT ![r] = "exited"]
  /\ exit_status' = [exit_status EXCEPT ![r] = exit_code(r)]
  /\ UNCHANGED <<world, observations, seen, outcomes, pending, pinged>>

\* ... or it dies: after a rollback always, after a commit when killed meanwhile.
Die(r) ==
  /\ phase[r] \in {"committed", "rolled_back"}
  /\ phase' = [phase EXCEPT ![r] = "exited"]
  /\ exit_status' = [exit_status EXCEPT ![r] = 1]
  /\ UNCHANGED <<world, observations, seen, outcomes, pending, pinged>>

\* run-checks.sh: the ping goes out on status 0 only, and may be lost.
run_checks(r) ==
  /\ phase[r] = "exited"
  /\ phase' = [phase EXCEPT ![r] = "done"]
  /\ \/ exit_status[r] = 0 /\ pinged' = pinged \cup {r}
     \/ pinged' = pinged
  /\ UNCHANGED <<world, observations, seen, outcomes, pending, exit_status>>

Step(r) ==
  \/ Skip(r) \/ Invoke(r)
  \/ \E obs \in Answers : Answer(r, obs)
  \/ \E code \in ErrorCode : Fail(r, code)
  \/ Commit(r) \/ Report(r) \/ Die(r) \/ run_checks(r)

Operator ==
  \/ \E s \in Source, entry \in Entries : SetEntry(s, entry)
  \/ \E sw \in Switches : engage(sw) \/ Release(sw)

Next ==
  \/ Operator
  \/ \E r \in Run : Begin(r) \/ NotConfigured(r) \/ Step(r) \/ Abort(r)

\* The process and its provider call are scheduled until they end: each HTTP call has
\* a timeout, and nothing in the block waits for another run.  No run has to start,
\* and the operator owes nothing.
Fairness == \A r \in Run : WF_vars(Step(r))

Spec == Init /\ [][Next]_vars /\ Fairness

-------------------------------------------------------------------------------
(* Properties *)

InFlight(r) == phase[r] \in {"checking", "awaiting"}
Recorded(r) == { s \in DOMAIN outcomes[r] : outcomes[r][s] = "recorded" }

\* The register's promises to the people who review a source, row by row (ADR-004;
\* source_pipeline.py): a row exists only of an enabled source that was neither paused nor
\* restricted nor switched off in what its run read; a source awaiting review yields
\* metadata only; interpretation, raw bodies and hashes each need their own permission; and
\* the row names the policy version under which all of that was decided.
RowsWithinLicence ==
  \A row \in observations :
    LET obs == row.observation
        snap == seen[row.run]
        entry == snap.registry[obs.source]
        policy == entry.policy
        Switched(mode) == engaged_switch(obs.source, entry, mode, snap.switches)
    IN /\ entry.enabled /\ entry.adapter = obs.provider
       /\ policy.version = obs.version
       /\ policy.review_state \in {"approved", "needs_review"} /\ "retrieve" \in policy.may
       /\ ~Switched("retrieve")
       /\ obs.extraction \in Interpreted =>
            policy.review_state = "approved" /\ "parse" \in policy.may /\ ~Switched("parse")
       /\ obs.payload_ref =>
            /\ policy.review_state = "approved" /\ policy.raw_payload = "snapshot"
            /\ ~Switched("store_raw")
       /\ obs.content_hash => policy.raw_payload # "denied"

\* A run publishes everything it recorded or nothing (tooling.check_sources: "all appended
\* observations commit together"): no row is visible while it is in flight or after it was
\* rolled back, the visible rows are exactly one per source it recorded, and what a process
\* that exited 0 or 3 reported as recorded is there.
RunsAreAllOrNothing ==
  \A r \in Run :
    LET visible == { row.observation.source : row \in RowsOf(r) } IN
    /\ InFlight(r) \/ phase[r] = "rolled_back" => visible = {}
    /\ visible # {} => Len(outcomes[r]) = SourceCount /\ visible = Recorded(r)
    /\ exit_status[r] \in {0, 3} => visible = Recorded(r)
    /\ \A a, b \in RowsOf(r) : a.observation.source = b.observation.source => a = b

\* The dead-man heartbeat is never a false "still alive" (deploy/run-checks.sh,
\* DEPLOYMENT.md "Heartbeat"): a ping means that the run's rows are committed and that every
\* source the run was allowed to read has a row of this run, unless what came back was refused.
HeartbeatIsHonest ==
  \A r \in pinged, s \in Source :
    Readable(s, seen[r].registry[s], ProviderId, seen[r].switches) =>
      \/ \E row \in RowsOf(r) : row.observation.source = s
      \/ outcomes[r][s] = "rejected"

\* A source the operator has stopped, by a switch or in its registry row, and that no run
\* in flight still believes readable.
Stopped(s) ==
  /\ ~Readable(s, registry[s], ProviderId, switches)
  /\ \A r \in Run :
       InFlight(r) => ~Readable(s, seen[r].registry[s], ProviderId, seen[r].switches)

\* Stopping a source works for good once the runs that began before it have ended, however
\* many runs start, overlap and commit afterwards: no step stores a row of a stopped source,
\* and only the operator can make it readable again.
StoppedSourcesStaySilent ==
  [][\A s \in Source : Stopped(s) =>
       /\ \A row \in observations' \ observations : row.observation.source # s
       /\ Stopped(s)' \/ registry' # registry \/ switches' # switches]_vars

\* Observations are immutable (migration 0002's trigger, ADR-004): no step removes a committed
\* row, and one step never publishes rows of two runs.
HistoryOnlyGrows ==
  [][/\ observations \subseteq observations'
     /\ \A a, b \in observations' \ observations : a.run = b.run]_vars

\* Every run that opened its transaction ends, and its cron script with it: no source, answer
\* or failure leaves a process holding the write transaction (source_checks.run_source_checks).
RunsEnd == \A r \in Run : InFlight(r) ~> phase[r] = "done"

\* The run as its readers may think of it: opened under one snapshot, closed in one step.
Ledger == INSTANCE RunLedger WITH
  stage <- [r \in Run |-> CASE phase[r] = "idle" -> "new"
                            [] InFlight(r)       -> "open"
                            [] OTHER             -> "closed"],
  terms <- seen

\* Many steps, failures and crashes of overlapping runs amount to RunLedger's few steps: what
\* is published was permitted by one snapshot, in one step, once per run (ADR-004,
\* "Read and write seams"; tooling.check_sources).
ImplementsLedger == Ledger!Spec

\* source_pipeline.py:15-17: a kill switch "cannot be bypassed by engaging it after retrieval".
\* No observation of a source is accepted while a committed switch covers its retrieval.
SwitchNotBypassedAfterRetrieval ==
  [][\A r \in Run :
       pending[r]' # pending[r] =>
         ~engaged_switch(Turn(r), registry[Turn(r)], "retrieve", switches)]_vars
===============================================================================
