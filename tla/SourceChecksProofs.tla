-------------------------- MODULE SourceChecksProofs --------------------------
(* Theorems of SourceChecks, for every number of sources, runs and switches. *)
EXTENDS SourceChecks, TLAPS

\* Every variable keeps its type (SourceChecks!TypeOK) along every behaviour of the runs.
LEMMA TypeInductive == ASSUME TypeOK, [Next]_vars PROVE TypeOK'
<1> USE SourceCountAssumption, EntriesAssumption, SwitchesAssumption, AnswersAssumption
    DEF TypeOK, Phase, Outcome, ExitStatus
<1>1. CASE Operator
  BY <1>1 DEF Operator, SetEntry, engage, Release
<1>2. ASSUME NEW r \in Run, Begin(r) PROVE TypeOK'
  BY <1>2 DEF Begin, world, Snapshot
<1>3. ASSUME NEW r \in Run, NotConfigured(r) PROVE TypeOK'
  BY <1>3 DEF NotConfigured, world
<1>4. ASSUME NEW r \in Run, Skip(r) PROVE TypeOK'
  BY <1>4 DEF Skip, world
<1>5. ASSUME NEW r \in Run, Invoke(r) PROVE TypeOK'
  BY <1>5 DEF Invoke, world
<1>6. ASSUME NEW r \in Run, NEW obs \in Answers, Answer(r, obs) PROVE TypeOK'
  <2>1. [run |-> r, observation |-> obs] \in Row
    BY DEF Row
  <2>2. CASE Accepts(r, obs)
    <3>1. pending' = [pending EXCEPT ![r] = @ \cup {[run |-> r, observation |-> obs]}]
      BY <1>6, <2>2 DEF Answer
    <3>2. outcomes' = [outcomes EXCEPT ![r] = Append(@, "recorded")]
      BY <1>6, <2>2 DEF Answer
    <3> QED
      BY <1>6, <2>1, <3>1, <3>2 DEF Answer, world
  <2>3. CASE ~Accepts(r, obs)
    <3>1. outcomes' = [outcomes EXCEPT ![r] = Append(@, "rejected")] /\ pending' = pending
      BY <1>6, <2>3 DEF Answer
    <3> QED
      BY <1>6, <3>1 DEF Answer, world
  <2> QED
    BY <2>2, <2>3
<1>7. ASSUME NEW r \in Run, NEW code \in ErrorCode, Fail(r, code) PROVE TypeOK'
  BY <1>7 DEF Fail, FailureOutcome, world
<1>8. ASSUME NEW r \in Run, Abort(r) PROVE TypeOK'
  BY <1>8 DEF Abort, world
<1>9. ASSUME NEW r \in Run, Commit(r) PROVE TypeOK'
  BY <1>9 DEF Commit, world
<1>10. ASSUME NEW r \in Run, Report(r) PROVE TypeOK'
  BY <1>10 DEF Report, exit_code, world
<1>11. ASSUME NEW r \in Run, Die(r) PROVE TypeOK'
  BY <1>11 DEF Die, world
<1>12. ASSUME NEW r \in Run, run_checks(r) PROVE TypeOK'
  BY <1>12 DEF run_checks, world
<1>13. CASE UNCHANGED vars
  BY <1>13 DEF vars
<1> QED
  BY <1>1, <1>2, <1>3, <1>4, <1>5, <1>6, <1>7, <1>8, <1>9, <1>10, <1>11, <1>12, <1>13
     DEF Next, Step

\* TypeOK holds in every reachable state of the source-check runs.
THEOREM TypeCorrect == Spec => []TypeOK
<1>1. Init => TypeOK
  BY EntriesAssumption DEF Init, TypeOK, Phase, Snapshot
<1> QED
  BY <1>1, TypeInductive, PTL DEF Spec

-------------------------------------------------------------------------------
(* The inductive invariant: what is true of each run by itself. *)

\* Row is one that run r's snapshot lets the pipeline store.
Licensed(r, row) ==
  LET obs == row.observation
      entry == seen[r].registry[obs.source]
  IN /\ row.run = r
     /\ obs.provider = ProviderId
     /\ Readable(obs.source, entry, ProviderId, seen[r].switches)
     /\ validate_against_policy(obs.source, entry, obs, seen[r].switches)

\* Where the run stands in its loop and what it may have returned by then.
RunShape(r) ==
  /\ Len(outcomes[r]) <= SourceCount
  /\ phase[r] = "idle" => outcomes[r] = <<>> /\ pending[r] = {}
  /\ phase[r] = "awaiting" => Turn(r) \in Source /\ TurnReadable(r)
  /\ phase[r] = "committed" \/ exit_status[r] \in {0, 3} => Len(outcomes[r]) = SourceCount
  /\ phase[r] \notin {"exited", "done"} => exit_status[r] = NoStatus

\* The open transaction holds exactly one licensed row per recorded source.
PendingMatches(r) ==
  /\ \A row \in pending[r] : Licensed(r, row) /\ row.observation.source \in Recorded(r)
  /\ \A s \in Recorded(r) : \E row \in pending[r] : row.observation.source = s
  /\ \A a, b \in pending[r] : a.observation.source = b.observation.source => a = b

\* The table holds none of the run's rows, or all of them after its commit.
Published(r) ==
  /\ InFlight(r) \/ phase[r] \in {"idle", "rolled_back"} => RowsOf(r) = {}
  /\ phase[r] = "committed" \/ exit_status[r] \in {0, 3} => RowsOf(r) = pending[r]
  /\ RowsOf(r) # {} => RowsOf(r) = pending[r] /\ Len(outcomes[r]) = SourceCount

\* A skip was forced by the snapshot, status 0 hides no failure, a ping follows status 0.
OutcomesHonest(r) ==
  /\ \A s \in DOMAIN outcomes[r] : outcomes[r][s] = "skipped" =>
       ~Readable(s, seen[r].registry[s], ProviderId, seen[r].switches)
  /\ exit_status[r] = 0 => \A s \in DOMAIN outcomes[r] : outcomes[r][s] # "provider_failure"
  /\ r \in pinged => exit_status[r] = 0

RunInv(r) == RunShape(r) /\ PendingMatches(r) /\ Published(r) /\ OutcomesHonest(r)

IInv == TypeOK /\ \A r \in Run : RunInv(r)

\* A run whose own state and rows a step leaves alone keeps its invariant.
LEMMA Untouched ==
  ASSUME NEW q \in Run, RunInv(q),
         phase'[q] = phase[q], seen'[q] = seen[q], outcomes'[q] = outcomes[q],
         pending'[q] = pending[q], exit_status'[q] = exit_status[q],
         q \in pinged' <=> q \in pinged, RowsOf(q)' = RowsOf(q)
  PROVE  RunInv(q)'
<1>1. RunShape(q)'
  BY DEF RunInv, RunShape, Turn, TurnReadable, EntryOf
<1>2. PendingMatches(q)'
  BY DEF RunInv, PendingMatches, Licensed, Recorded
<1>3. Published(q)'
  BY DEF RunInv, Published, InFlight
<1>4. OutcomesHonest(q)'
  BY DEF RunInv, OutcomesHonest
<1> QED
  BY <1>1, <1>2, <1>3, <1>4 DEF RunInv

\* What appending one outcome does to a run's outcomes.
LEMMA OneMoreOutcome ==
  ASSUME NEW r \in Run, NEW o \in Outcome, outcomes[r] \in Seq(Outcome),
         outcomes'[r] = Append(outcomes[r], o)
  PROVE  /\ Len(outcomes'[r]) = Turn(r)
         /\ Len(outcomes[r]) \in Nat
         /\ DOMAIN outcomes[r] = 1..Len(outcomes[r])
         /\ DOMAIN outcomes'[r] = 1..Turn(r)
         /\ \A s \in 1..Len(outcomes[r]) : outcomes'[r][s] = outcomes[r][s]
         /\ outcomes'[r][Turn(r)] = o
         /\ Recorded(r)' = Recorded(r) \cup (IF o = "recorded" THEN {Turn(r)} ELSE {})
<1>1. /\ Len(outcomes'[r]) = Turn(r)
      /\ Len(outcomes[r]) \in Nat
      /\ DOMAIN outcomes[r] = 1..Len(outcomes[r])
      /\ DOMAIN outcomes'[r] = 1..Turn(r)
      /\ \A s \in 1..Len(outcomes[r]) : outcomes'[r][s] = outcomes[r][s]
      /\ outcomes'[r][Turn(r)] = o
  BY DEF Turn
<1>2. 1..Turn(r) = 1..Len(outcomes[r]) \cup {Turn(r)}
  BY <1>1 DEF Turn
<1> QED
  BY <1>1, <1>2 DEF Recorded, Turn

\* Starting: the snapshot is taken, nothing has been done under it.
LEMMA BeginKeeps == ASSUME NEW r \in Run, IInv, Begin(r) PROVE RunInv(r)'
<1> USE DEF IInv, RunInv
<1>1. /\ phase'[r] = "checking" /\ exit_status'[r] = exit_status[r]
      /\ outcomes'[r] = <<>> /\ pending'[r] = {}
      /\ observations' = observations /\ pinged' = pinged
  BY DEF Begin, TypeOK, RunShape
<1>2. exit_status[r] = NoStatus /\ Recorded(r)' = {} /\ DOMAIN outcomes'[r] = {}
  BY <1>1 DEF RunShape, Recorded, Begin
<1>3. RunShape(r)'
  BY <1>1, <1>2, SourceCountAssumption DEF RunShape, NoStatus
<1>4. PendingMatches(r)'
  BY <1>1, <1>2 DEF PendingMatches
<1>5. Published(r)'
  BY <1>1, <1>2 DEF Published, RowsOf, NoStatus, Begin
<1>6. OutcomesHonest(r)'
  BY <1>1, <1>2 DEF OutcomesHonest, NoStatus
<1> QED
  BY <1>3, <1>4, <1>5, <1>6

\* Steps that record no outcome and change neither rows nor exit status.
LEMMA InvokeAbortKeep == ASSUME NEW r \in Run, IInv, Invoke(r) \/ Abort(r) PROVE RunInv(r)'
<1> USE DEF IInv, RunInv
<1>1. /\ phase'[r] \in {"awaiting", "rolled_back"}
      /\ phase'[r] = "awaiting" => Turn(r) \in Source /\ TurnReadable(r)
      /\ InFlight(r)
      /\ UNCHANGED <<seen, outcomes, pending, exit_status, observations, pinged>>
  BY DEF Invoke, Abort, TypeOK, InFlight
<1>2. exit_status[r] = NoStatus
  BY <1>1 DEF InFlight, RunShape
<1>3. RunShape(r)'
  BY <1>1, <1>2 DEF RunShape, NoStatus, Turn, TurnReadable, EntryOf
<1>4. PendingMatches(r)'
  BY <1>1 DEF PendingMatches, Licensed, Recorded
<1>5. Published(r)'
  BY <1>1, <1>2 DEF Published, RowsOf, NoStatus, InFlight
<1>6. OutcomesHonest(r)'
  BY <1>1 DEF OutcomesHonest
<1> QED
  BY <1>3, <1>4, <1>5, <1>6

\* Steps that append an outcome other than "recorded".
LEMMA NotRecordedKeeps ==
  ASSUME NEW r \in Run, NEW o \in Outcome \ {"recorded"}, IInv,
         InFlight(r), Turn(r) \in Source, phase'[r] = "checking",
         o = "skipped" => ~TurnReadable(r),
         outcomes'[r] = Append(outcomes[r], o),
         UNCHANGED <<seen, pending, exit_status, observations, pinged>>
  PROVE  RunInv(r)'
<1> USE DEF IInv, RunInv
<1>1. outcomes[r] \in Seq(Outcome) /\ exit_status[r] = NoStatus
  BY DEF TypeOK, InFlight, RunShape
<1>2. /\ Len(outcomes'[r]) = Turn(r)
      /\ DOMAIN outcomes[r] = 1..Len(outcomes[r])
      /\ \A s \in 1..Len(outcomes[r]) : outcomes'[r][s] = outcomes[r][s]
      /\ outcomes'[r][Turn(r)] = o
      /\ Recorded(r)' = Recorded(r)
  BY <1>1, OneMoreOutcome
<1>3. \A s \in DOMAIN outcomes'[r] : s \in DOMAIN outcomes[r] \/ s = Turn(r)
  BY <1>1, OneMoreOutcome DEF Turn
<1>4. RunShape(r)'
  BY <1>1, <1>2 DEF RunShape, NoStatus, Source
<1>5. PendingMatches(r)'
  BY <1>2 DEF PendingMatches, Licensed
<1>6. Published(r)'
  BY <1>1 DEF Published, RowsOf, NoStatus, InFlight
<1>7. OutcomesHonest(r)'
  BY <1>1, <1>2, <1>3 DEF OutcomesHonest, NoStatus, TurnReadable, EntryOf
<1> QED
  BY <1>4, <1>5, <1>6, <1>7

\* The accepted answer: one licensed row and one "recorded" outcome, together.
LEMMA RecordKeeps ==
  ASSUME NEW r \in Run, NEW obs \in Answers, IInv, Answer(r, obs), Accepts(r, obs)
  PROVE  RunInv(r)'
<1> USE DEF IInv, RunInv
<1> DEFINE row == [run |-> r, observation |-> obs]
<1>1. /\ phase[r] = "awaiting" /\ phase'[r] = "checking"
      /\ outcomes'[r] = Append(outcomes[r], "recorded")
      /\ pending'[r] = pending[r] \cup {row}
      /\ UNCHANGED <<seen, exit_status, observations, pinged>>
  BY DEF Answer, TypeOK
<1>2. outcomes[r] \in Seq(Outcome) /\ exit_status[r] = NoStatus /\ "recorded" \in Outcome
  BY <1>1 DEF TypeOK, RunShape, Outcome
<1>3. /\ Len(outcomes'[r]) = Turn(r)
      /\ DOMAIN outcomes[r] = 1..Len(outcomes[r])
      /\ \A s \in 1..Len(outcomes[r]) : outcomes'[r][s] = outcomes[r][s]
      /\ outcomes'[r][Turn(r)] = "recorded"
      /\ Recorded(r)' = Recorded(r) \cup {Turn(r)}
      /\ \A s \in DOMAIN outcomes'[r] : s \in DOMAIN outcomes[r] \/ s = Turn(r)
  BY <1>1, <1>2, OneMoreOutcome DEF Turn
<1>4. Turn(r) \notin Recorded(r)
  BY <1>2 DEF Recorded, Turn
<1>5. obs.source = Turn(r) /\ Licensed(r, row)'
  BY <1>1 DEF Accepts, validate_against_policy, Licensed, RunShape, TurnReadable, EntryOf
<1>6. RunShape(r)'
  BY <1>1, <1>2, <1>3 DEF RunShape, NoStatus, Source
<1>7. PendingMatches(r)'
  <2>1. \A x \in pending'[r] : Licensed(r, x)' /\ x.observation.source \in Recorded(r)'
    BY <1>1, <1>3, <1>5 DEF PendingMatches, Licensed
  <2>2. \A s \in Recorded(r)' : \E x \in pending'[r] : x.observation.source = s
    BY <1>1, <1>3, <1>5 DEF PendingMatches
  <2>3. \A a, b \in pending'[r] : a.observation.source = b.observation.source => a = b
    BY <1>1, <1>4, <1>5 DEF PendingMatches
  <2> QED
    BY <2>1, <2>2, <2>3 DEF PendingMatches
<1>8. Published(r)'
  BY <1>1, <1>2 DEF Published, RowsOf, NoStatus, InFlight
<1>9. OutcomesHonest(r)'
  BY <1>1, <1>2, <1>3 DEF OutcomesHonest, NoStatus
<1> QED
  BY <1>6, <1>7, <1>8, <1>9

\* The commit: all pending rows appear at once, and no other row of the run is there.
LEMMA CommitKeeps == ASSUME NEW r \in Run, IInv, Commit(r) PROVE RunInv(r)'
<1> USE DEF IInv, RunInv
<1>1. /\ phase[r] = "checking" /\ phase'[r] = "committed"
      /\ observations' = observations \cup pending[r]
      /\ Turn(r) \notin Source
      /\ UNCHANGED <<seen, outcomes, pending, exit_status, pinged>>
  BY DEF Commit, TypeOK
<1>2. Len(outcomes[r]) = SourceCount /\ exit_status[r] = NoStatus
  <2>1. outcomes[r] \in Seq(Outcome) /\ Len(outcomes[r]) \in Nat
    BY DEF TypeOK
  <2> QED
    BY <1>1, <2>1, SourceCountAssumption DEF RunShape, Turn, Source
<1>3. RowsOf(r)' = pending[r]
  BY <1>1 DEF RowsOf, Published, PendingMatches, Licensed, InFlight
<1>4. RunShape(r)'
  BY <1>1, <1>2 DEF RunShape
<1>5. PendingMatches(r)'
  BY <1>1 DEF PendingMatches, Licensed, Recorded
<1>6. Published(r)'
  BY <1>1, <1>2, <1>3 DEF Published, InFlight, NoStatus
<1>7. OutcomesHonest(r)'
  BY <1>1 DEF OutcomesHonest
<1> QED
  BY <1>4, <1>5, <1>6, <1>7

\* Exits, with whatever status, and the wrapper script after them.
LEMMA ExitKeeps ==
  ASSUME NEW r \in Run, IInv, NotConfigured(r) \/ Report(r) \/ Die(r) \/ run_checks(r)
  PROVE  RunInv(r)'
<1> USE DEF IInv, RunInv
<1>1. /\ phase'[r] \in {"exited", "done"}
      /\ UNCHANGED <<seen, outcomes, pending, observations>>
  BY DEF NotConfigured, Report, Die, run_checks, TypeOK
<1>2. \/ exit_status'[r] = 1 /\ phase[r] \in {"committed", "rolled_back"} /\ pinged' = pinged
      \/ exit_status'[r] = 2 /\ phase[r] = "idle" /\ pinged' = pinged
      \/ phase[r] = "committed" /\ exit_status'[r] = exit_code(r) /\ pinged' = pinged
      \/ /\ phase[r] = "exited" /\ exit_status'[r] = exit_status[r]
         /\ r \in pinged' => r \in pinged \/ exit_status[r] = 0
  BY DEF NotConfigured, Report, Die, run_checks, TypeOK
<1>3. exit_code(r) \in {0, 3}
      /\ (exit_code(r) = 0 => \A s \in DOMAIN outcomes[r] : outcomes[r][s] # "provider_failure")
  BY DEF exit_code
<1>4. RunShape(r)'
  BY <1>1, <1>2 DEF RunShape
<1>5. PendingMatches(r)'
  BY <1>1 DEF PendingMatches, Licensed, Recorded
<1>6. Published(r)'
  BY <1>1, <1>2 DEF Published, RowsOf, InFlight
<1>7. OutcomesHonest(r)'
  BY <1>1, <1>2, <1>3 DEF OutcomesHonest, RunShape, NoStatus
<1> QED
  BY <1>4, <1>5, <1>6, <1>7

\* What the steps of run r leave alone: everything of the other runs.
LEMMA OthersUntouched ==
  ASSUME NEW r \in Run, NEW q \in Run, q # r, IInv,
         Begin(r) \/ NotConfigured(r) \/ Step(r) \/ Abort(r)
  PROVE  /\ phase'[q] = phase[q] /\ seen'[q] = seen[q] /\ outcomes'[q] = outcomes[q]
         /\ pending'[q] = pending[q] /\ exit_status'[q] = exit_status[q]
         /\ q \in pinged' <=> q \in pinged
         /\ RowsOf(q)' = RowsOf(q)
<1> USE DEF IInv, TypeOK
<1>1. CASE Commit(r)
  <2>1. \A row \in pending[r] : row.run = r
    BY DEF RunInv, PendingMatches, Licensed
  <2> QED
    BY <1>1, <2>1 DEF Commit, RowsOf
<1>2. CASE \E obs \in Answers : Answer(r, obs)
  BY <1>2 DEF Answer, RowsOf
<1>3. CASE \E code \in ErrorCode : Fail(r, code)
  BY <1>3 DEF Fail, RowsOf
<1>4. CASE Begin(r) \/ NotConfigured(r) \/ Skip(r) \/ Invoke(r) \/ Abort(r)
  BY <1>4 DEF Begin, NotConfigured, Skip, Invoke, Abort, RowsOf
<1>5. CASE Report(r) \/ Die(r) \/ run_checks(r)
  BY <1>5 DEF Report, Die, run_checks, RowsOf
<1> QED
  BY <1>1, <1>2, <1>3, <1>4, <1>5 DEF Step

\* A step of run r keeps the invariant of run r.
LEMMA OwnStepKeeps ==
  ASSUME NEW r \in Run, IInv, Begin(r) \/ NotConfigured(r) \/ Step(r) \/ Abort(r)
  PROVE  RunInv(r)'
<1>1. CASE Skip(r)
  <2>1. /\ "skipped" \in Outcome \ {"recorded"} /\ InFlight(r) /\ phase'[r] = "checking"
        /\ Turn(r) \in Source /\ ~TurnReadable(r)
        /\ outcomes'[r] = Append(outcomes[r], "skipped")
        /\ UNCHANGED <<seen, pending, exit_status, observations, pinged>>
    BY <1>1 DEF Skip, IInv, TypeOK, InFlight, Outcome
  <2> QED
    BY <2>1, NotRecordedKeeps
<1>2. ASSUME NEW code \in ErrorCode, Fail(r, code) PROVE RunInv(r)'
  <2>1. /\ FailureOutcome(code) \in Outcome \ {"recorded"} /\ FailureOutcome(code) # "skipped"
        /\ InFlight(r) /\ phase'[r] = "checking" /\ Turn(r) \in Source
        /\ outcomes'[r] = Append(outcomes[r], FailureOutcome(code))
        /\ UNCHANGED <<seen, pending, exit_status, observations, pinged>>
    BY <1>2 DEF Fail, FailureOutcome, IInv, TypeOK, RunInv, RunShape, InFlight, Outcome
  <2> QED
    BY <2>1, NotRecordedKeeps
<1>3. ASSUME NEW obs \in Answers, Answer(r, obs) PROVE RunInv(r)'
  <2>1. CASE Accepts(r, obs)
    BY <1>3, <2>1, RecordKeeps
  <2>2. CASE ~Accepts(r, obs)
    <3>1. /\ "rejected" \in Outcome \ {"recorded"} /\ InFlight(r) /\ phase'[r] = "checking"
          /\ Turn(r) \in Source
          /\ outcomes'[r] = Append(outcomes[r], "rejected")
          /\ UNCHANGED <<seen, pending, exit_status, observations, pinged>>
      BY <1>3, <2>2 DEF Answer, IInv, TypeOK, RunInv, RunShape, InFlight, Outcome
    <3> QED
      BY <3>1, NotRecordedKeeps
  <2> QED
    BY <2>1, <2>2
<1> QED
  BY <1>1, <1>2, <1>3, BeginKeeps, InvokeAbortKeep, CommitKeeps, ExitKeeps DEF Step

LEMMA InvariantInductive == ASSUME IInv, [Next]_vars PROVE IInv'
<1>1. TypeOK'
  BY TypeInductive DEF IInv
<1>2. ASSUME NEW q \in Run PROVE RunInv(q)'
  <2>1. CASE Operator \/ UNCHANGED vars
    <3>1. UNCHANGED <<phase, seen, outcomes, pending, exit_status, pinged, observations>>
      BY <2>1 DEF Operator, SetEntry, engage, Release, vars
    <3> QED
      BY <3>1, Untouched DEF IInv, RowsOf
  <2>2. ASSUME NEW r \in Run, Begin(r) \/ NotConfigured(r) \/ Step(r) \/ Abort(r)
        PROVE  RunInv(q)'
    <3>1. CASE q = r
      BY <2>2, <3>1, OwnStepKeeps
    <3>2. CASE q # r
      BY <2>2, <3>2, OthersUntouched, Untouched DEF IInv
    <3> QED
      BY <3>1, <3>2
  <2> QED
    BY <2>1, <2>2 DEF Next
<1> QED
  BY <1>1, <1>2 DEF IInv

LEMMA InitialInvariant == ASSUME Init PROVE IInv
<1>1. TypeOK
  BY EntriesAssumption DEF Init, TypeOK, Phase, Snapshot
<1>2. ASSUME NEW r \in Run PROVE RunInv(r)
  BY SourceCountAssumption
  DEF Init, RunInv, RunShape, PendingMatches, Published, OutcomesHonest, Recorded, RowsOf, NoStatus
<1> QED
  BY <1>1, <1>2 DEF IInv

LEMMA InvariantHolds == Spec => []IInv
BY InitialInvariant, InvariantInductive, PTL DEF Spec

-------------------------------------------------------------------------------
(* The theorems *)

\* Every committed row is among its run's pending rows, and licensed by its run's snapshot.
LEMMA CommittedRows ==
  ASSUME IInv, NEW row \in observations
  PROVE  /\ row.run \in Run /\ row.observation \in SourceObservation
         /\ row \in RowsOf(row.run) /\ row \in pending[row.run]
         /\ Licensed(row.run, row)
  BY DEF IInv, TypeOK, Row, RowsOf, RunInv, Published, PendingMatches

LEMMA InvariantLicenses == ASSUME IInv PROVE RowsWithinLicence
<1>1. ASSUME NEW row \in observations
      PROVE  /\ Licensed(row.run, row)
             /\ seen[row.run].registry[row.observation.source] \in Entry
  <2>1. row.run \in Run /\ row.observation.source \in Source /\ Licensed(row.run, row)
    BY <1>1, CommittedRows DEF SourceObservation
  <2>2. seen[row.run].registry \in [Source -> Entry]
    BY <2>1 DEF IInv, TypeOK, Snapshot
  <2> QED
    BY <2>1, <2>2
<1>2. ASSUME NEW row \in observations
      PROVE  seen[row.run].registry[row.observation.source].policy.review_state
               \in PolicyReviewState
  BY <1>1, <1>2 DEF Entry, SourceProcessingPolicy
<1> QED
  BY <1>1, <1>2
  DEF RowsWithinLicence, Licensed, Readable, validate_against_policy,
      authorize_processing, allows, PolicyReviewState

\* No stored observation exceeds what the register and the switches, as its run read them,
\* allowed for its source: retrieval, parsing, raw storage and hashing each.
THEOREM LicenceRespected == Spec => []RowsWithinLicence
BY InvariantLicenses, InvariantHolds, PTL

LEMMA InvariantIsAtomic == ASSUME IInv PROVE RunsAreAllOrNothing
<1> SUFFICES ASSUME NEW r \in Run
             PROVE  LET visible == { row.observation.source : row \in RowsOf(r) } IN
                    /\ InFlight(r) \/ phase[r] = "rolled_back" => visible = {}
                    /\ visible # {} => Len(outcomes[r]) = SourceCount /\ visible = Recorded(r)
                    /\ exit_status[r] \in {0, 3} => visible = Recorded(r)
                    /\ \A a, b \in RowsOf(r) :
                         a.observation.source = b.observation.source => a = b
  BY DEF RunsAreAllOrNothing
<1> DEFINE visible == { row.observation.source : row \in RowsOf(r) }
<1>1. RowsOf(r) = pending[r] => visible = Recorded(r)
  BY DEF IInv, RunInv, PendingMatches
<1>2. RowsOf(r) = {} <=> visible = {}
  OBVIOUS
<1>3. \A a, b \in RowsOf(r) : a.observation.source = b.observation.source => a = b
  BY DEF IInv, RunInv, Published, PendingMatches
<1> QED
  BY <1>1, <1>2, <1>3 DEF IInv, RunInv, Published

\* A run publishes all it recorded or nothing, and reports as recorded only what is stored.
THEOREM RunsAtomic == Spec => []RunsAreAllOrNothing
BY InvariantIsAtomic, InvariantHolds, PTL

LEMMA InvariantIsHonest == ASSUME IInv PROVE HeartbeatIsHonest
<1> SUFFICES ASSUME NEW r \in pinged, NEW s \in Source,
                    Readable(s, seen[r].registry[s], ProviderId, seen[r].switches),
                    outcomes[r][s] # "rejected"
             PROVE  \E row \in RowsOf(r) : row.observation.source = s
  BY DEF HeartbeatIsHonest
<1>1. r \in Run /\ RunInv(r) /\ outcomes[r] \in Seq(Outcome)
  BY DEF IInv, TypeOK
<1>2. exit_status[r] = 0 /\ Len(outcomes[r]) = SourceCount /\ RowsOf(r) = pending[r]
  BY <1>1 DEF RunInv, RunShape, Published, OutcomesHonest
<1>3. s \in DOMAIN outcomes[r] /\ outcomes[r][s] \in Outcome
  BY <1>1, <1>2, SourceCountAssumption DEF Source
<1>4. outcomes[r][s] \notin {"skipped", "provider_failure"}
  BY <1>1, <1>2, <1>3 DEF RunInv, OutcomesHonest
<1>5. s \in Recorded(r)
  BY <1>3, <1>4 DEF Recorded, Outcome
<1> QED
  BY <1>1, <1>2, <1>5 DEF RunInv, PendingMatches

\* A heartbeat ping implies a committed run that left no readable source unanswered.
THEOREM HeartbeatNeverFalse == Spec => []HeartbeatIsHonest
BY InvariantIsHonest, InvariantHolds, PTL

\* The only steps that change the table are commits, and they add their run's pending rows.
LEMMA OnlyCommitsPublish ==
  ASSUME IInv, Next
  PROVE  \/ observations' = observations
         \/ \E r \in Run : Commit(r) /\ observations' = observations \cup pending[r]
<1>1. ASSUME NEW r \in Run, Step(r) PROVE observations' = observations \/ Commit(r)
  BY <1>1 DEF Step, Skip, Invoke, Answer, Fail, Report, Die, run_checks
<1> QED
  BY <1>1 DEF Next, Operator, SetEntry, engage, Release, Begin, NotConfigured, Abort, Commit

\* A run in flight after a step was in flight before it under the same snapshot, or has just
\* taken the registry and the switches of this moment.
LEMMA InFlightSnapshots ==
  ASSUME IInv, Next, NEW r \in Run, InFlight(r)'
  PROVE  \/ InFlight(r) /\ seen'[r] = seen[r]
         \/ seen'[r] = [registry |-> registry, switches |-> switches]
<1> USE DEF IInv, TypeOK, InFlight
<1>1. CASE Operator
  BY <1>1 DEF Operator, SetEntry, engage, Release
<1>2. ASSUME NEW q \in Run, Begin(q) \/ NotConfigured(q) \/ Abort(q)
      PROVE  \/ InFlight(r) /\ seen'[r] = seen[r]
             \/ seen'[r] = [registry |-> registry, switches |-> switches]
  BY <1>2 DEF Begin, NotConfigured, Abort
<1>3. ASSUME NEW q \in Run, Step(q) PROVE InFlight(r) /\ seen'[r] = seen[r]
  BY <1>3 DEF Step, Skip, Invoke, Answer, Fail, Commit, Report, Die, run_checks
<1> QED
  BY <1>1, <1>2, <1>3 DEF Next

\* Once a source is stopped and the runs that could still read it have ended, nothing stores a
\* row of it and no new run can read it, until the operator changes the registry or a switch.
THEOREM StoppingIsEffective == Spec => StoppedSourcesStaySilent
<1> DEFINE Quiet(s) ==
      Stopped(s) =>
        /\ \A row \in observations' \ observations : row.observation.source # s
        /\ Stopped(s)' \/ registry' # registry \/ switches' # switches
<1>1. ASSUME IInv, Next, NEW s \in Source PROVE Quiet(s)
  <2> SUFFICES ASSUME Stopped(s) PROVE Quiet(s)
    OBVIOUS
  <2>1. \A row \in observations' \ observations : row.observation.source # s
    <3> SUFFICES ASSUME NEW r \in Run, Commit(r), NEW row \in pending[r]
                 PROVE  row.observation.source # s
      BY <1>1, OnlyCommitsPublish
    <3>1. InFlight(r) /\ Licensed(r, row)
      BY <1>1 DEF Commit, InFlight, IInv, RunInv, PendingMatches
    <3> QED
      BY <3>1 DEF Stopped, Licensed
  <2>2. registry' = registry /\ switches' = switches => Stopped(s)'
    <3> SUFFICES ASSUME registry' = registry, switches' = switches,
                        NEW r \in Run, InFlight(r)'
                 PROVE  ~Readable(s, seen'[r].registry[s], ProviderId, seen'[r].switches)
      BY DEF Stopped
    <3> QED
      BY <1>1, InFlightSnapshots DEF Stopped
  <2> QED
    BY <2>1, <2>2
<1>2. IInv /\ [Next]_vars => [\A s \in Source : Quiet(s)]_vars
  BY <1>1
<1> QED
  BY <1>2, InvariantHolds, PTL DEF Spec, StoppedSourcesStaySilent

\* Rows are never removed, and no step publishes rows of two runs.
THEOREM HistoryGrows == Spec => HistoryOnlyGrows
<1>1. ASSUME IInv, Next
      PROVE  /\ observations \subseteq observations'
             /\ \A a, b \in observations' \ observations : a.run = b.run
  <2>1. \A r \in Run : \A row \in pending[r] : row.run = r
    BY <1>1 DEF IInv, RunInv, PendingMatches, Licensed
  <2> QED
    BY <1>1, <2>1, OnlyCommitsPublish
<1> QED
  BY <1>1, InvariantHolds, PTL DEF Spec, HistoryOnlyGrows

-------------------------------------------------------------------------------
(* Refinement *)

\* RunLedger means by the register's vocabulary what SourceChecks means by it.
LEMMA SameVocabulary ==
  /\ Ledger!Source = Source /\ Ledger!Entry = Entry /\ Ledger!KillSwitch = KillSwitch
  /\ Ledger!SourceObservation = SourceObservation
<1> USE DEF Ledger!Source, Source, Ledger!ProcessingMode, ProcessingMode
<1>1. Ledger!SourceProcessingPolicy = SourceProcessingPolicy
  BY DEF Ledger!SourceProcessingPolicy, SourceProcessingPolicy,
     Ledger!PolicyReviewState, PolicyReviewState, Ledger!FlaggedMode, FlaggedMode,
     Ledger!RawPayloadPolicy, RawPayloadPolicy, Ledger!review_consistency, review_consistency
<1> QED
  BY <1>1 DEF Ledger!Entry, Entry, Ledger!KillSwitch, KillSwitch,
     Ledger!SourceObservation, SourceObservation, Ledger!evidence_consistency,
     evidence_consistency, Ledger!SourceState, SourceState, Ledger!AbsenceClaim, AbsenceClaim,
     Ledger!POSITIVE_STATES, POSITIVE_STATES, Ledger!RetrievalState, RetrievalState,
     Ledger!ExtractionState, ExtractionState, Ledger!Interpreted, Interpreted

StageOf(r) == CASE phase[r] = "idle" -> "new" [] InFlight(r) -> "open" [] OTHER -> "closed"
Stage == [r \in Run |-> StageOf(r)]

\* One step of a run, seen through its stage, is one step of the ledger or none.
LEMMA StageMoves ==
  ASSUME IInv, NEW r \in Run, NEW p \in Phase, phase' = [phase EXCEPT ![r] = p]
  PROVE  Stage' = [Stage EXCEPT ![r] = CASE p = "idle" -> "new"
                                          [] p \in {"checking", "awaiting"} -> "open"
                                          [] OTHER -> "closed"]
  BY DEF IInv, TypeOK, Stage, StageOf, InFlight, Phase

\* The commit is the ledger's Close: what it adds was permitted by the run's terms.
LEMMA CommitCloses == ASSUME IInv, NEW r \in Run, Commit(r) PROVE Ledger!Close(r)
<1>1. phase[r] = "checking" /\ phase' = [phase EXCEPT ![r] = "committed"]
  BY DEF Commit
<1>2. Stage[r] = "open" /\ Stage' = [Stage EXCEPT ![r] = "closed"]
  BY <1>1, StageMoves DEF Stage, StageOf, InFlight, Phase
<1>3. /\ UNCHANGED <<registry, switches, seen>>
      /\ observations' = observations \cup pending[r]
  BY DEF Commit, world
<1>4. Ledger!OnePerSource(observations' \ observations)
  BY <1>3 DEF Ledger!OnePerSource, IInv, RunInv, PendingMatches
<1>5. ASSUME NEW row \in observations' \ observations PROVE Ledger!Permits(seen[r], r, row)
  <2>1. row \in pending[r] /\ Licensed(r, row) /\ row.observation \in SourceObservation
    BY <1>3, <1>5 DEF IInv, TypeOK, Row, RunInv, PendingMatches
  <2> QED
    BY <2>1, SameVocabulary
    DEF Licensed, Ledger!Permits, Readable, Ledger!Readable,
        validate_against_policy, Ledger!validate_against_policy,
        authorize_processing, Ledger!authorize_processing,
        engaged_switch, Ledger!engaged_switch, allows, Ledger!allows,
        Interpreted, Ledger!Interpreted
<1> QED
  BY <1>2, <1>3, <1>4, <1>5 DEF Ledger!Close, Stage, StageOf

LEMMA StepRefines == ASSUME IInv, [Next]_vars PROVE [Ledger!Next]_(Ledger!vars)
<1> USE DEF Ledger!Next, Ledger!vars
<1>1. CASE Operator
  <2>1. registry' \in [Source -> Entry] /\ switches' \in SUBSET KillSwitch
    BY TypeInductive DEF IInv, TypeOK
  <2>2. UNCHANGED <<observations, phase, seen>>
    BY <1>1 DEF Operator, SetEntry, engage, Release
  <2> QED
    BY <2>1, <2>2, SameVocabulary DEF Ledger!Govern, InFlight
<1>2. ASSUME NEW r \in Run, Begin(r) PROVE Ledger!Open(r)
  <2>1. Stage[r] = "new" /\ Stage' = [Stage EXCEPT ![r] = "open"]
    BY <1>2, StageMoves DEF Begin, Stage, StageOf, InFlight, Phase
  <2> QED
    BY <1>2, <2>1 DEF Begin, Ledger!Open, Stage, StageOf, world
<1>3. ASSUME NEW r \in Run, NotConfigured(r) PROVE Ledger!Decline(r)
  <2>1. Stage[r] = "new" /\ Stage' = [Stage EXCEPT ![r] = "closed"]
    BY <1>3, StageMoves DEF NotConfigured, Stage, StageOf, InFlight, Phase
  <2> QED
    BY <1>3, <2>1 DEF NotConfigured, Ledger!Decline, Stage, StageOf, world
<1>4. ASSUME NEW r \in Run, Abort(r) PROVE Ledger!Close(r)
  <2>1. Stage[r] = "open" /\ Stage' = [Stage EXCEPT ![r] = "closed"]
    BY <1>4, StageMoves DEF Abort, Stage, StageOf, InFlight, Phase
  <2> QED
    BY <1>4, <2>1
    DEF Abort, Ledger!Close, Ledger!OnePerSource, Stage, StageOf, world
<1>5. ASSUME NEW r \in Run, Step(r), ~Commit(r) PROVE UNCHANGED Ledger!vars
  <2>1. UNCHANGED <<registry, switches, observations, seen>>
    BY <1>5 DEF Step, Skip, Invoke, Answer, Fail, Report, Die, run_checks, world
  <2>2. Stage' = Stage
    BY <1>5 DEF Step, Skip, Invoke, Answer, Fail, Report, Die, run_checks, IInv, TypeOK,
       Stage, StageOf, InFlight
  <2> QED
    BY <2>1, <2>2 DEF Stage, StageOf
<1>6. CASE UNCHANGED vars
  BY <1>6 DEF vars, InFlight
<1> QED
  BY <1>1, <1>2, <1>3, <1>4, <1>5, <1>6, CommitCloses DEF Next

LEMMA InitRefines == ASSUME Init PROVE Ledger!Init
<1>1. registry \in [Ledger!Source -> Ledger!Entry]
  BY EntriesAssumption, SameVocabulary DEF Init
<1>2. \A r \in Run : StageOf(r) = "new"
  BY DEF Init, StageOf, InFlight
<1> QED
  BY <1>1, <1>2 DEF Init, Ledger!Init, StageOf

\* The overlapping, failing, multi-step runs implement the two-step runs of RunLedger.
THEOREM Refinement == Spec => ImplementsLedger
BY InitRefines, StepRefines, InvariantHolds, PTL DEF Spec, ImplementsLedger, Ledger!Spec
===============================================================================
