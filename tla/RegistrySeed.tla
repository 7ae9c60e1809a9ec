----------------------------- MODULE RegistrySeed -----------------------------
(***************************************************************************)
(* The registry's reference rows and the seed command that brings them to  *)
(* a release.  A seed is one transaction of many statements at READ        *)
(* COMMITTED, and it is run by hand: two may overlap, an older image may   *)
(* be seeded after a newer one, and a person may pause, restrict or        *)
(* rewrite a row by SQL between any two statements.                        *)
(*                                                                         *)
(* Source: apps/api/paxpivot/infrastructure/bootstrap.py.  Of a row only   *)
(* the policy version, the review state and enabled are kept.              *)
(***************************************************************************)
EXTENDS Naturals

CONSTANTS
  RowCount,                   \* how many reference rows there are
  Version,                    \* policy_version_id values
  Generation,                 \* Version -> Nat: a later approval has a higher one
  Release,                    \* images whose seed may be run
  REFERENCE,                  \* Release -> the rows it would insert
  UPGRADABLE_POLICY_VERSIONS, \* Release -> the versions its seed may replace
  Seeder,                     \* runs of the seed command
  PersonsRows,                \* Key -> what a person may write into the row
  MaxEdits                    \* bound on the rows written by persons

Key == 1..RowCount          \* in the order of the inserts: directory, terminals, pages, schedules
PolicyReviewState == {"approved", "needs_review", "paused", "restricted"}
Row == [version : Version, review_state : PolicyReviewState, enabled : BOOLEAN]
NoRow == [version |-> "none", review_state |-> "none", enabled |-> FALSE]

ASSUME CountAssumption == RowCount \in Nat \ {0} /\ MaxEdits \in Nat
ASSUME RowAssumption ==
  /\ Generation \in [Version -> Nat] /\ "none" \notin Version
  /\ REFERENCE \in [Release -> [Key -> Row]]
  /\ PersonsRows \in [Key -> SUBSET Row]
\* The versions a row may carry: the list of replaceable versions is one for all kinds of rows, so
\* a person who gives the directory a page's old version is outside of what is assumed here.
VersionsOf(k) == { REFERENCE[release][k].version : release \in Release } \cup
                 { row.version : row \in PersonsRows[k] }
\* A release replaces, on each row, only versions older than its own.
ASSUME UpgradeAssumption ==
  /\ UPGRADABLE_POLICY_VERSIONS \in [Release -> SUBSET Version]
  /\ \A release \in Release, k \in Key :
       \A v \in UPGRADABLE_POLICY_VERSIONS[release] \cap VersionsOf(k) :
         Generation[v] < Generation[REFERENCE[release][k].version]
\* A release that replaces a version of another one replaces what that one does as well: the list
\* names every prior version, not only the last.
ASSUME CumulativeAssumption ==
  \A newer, older \in Release, k \in Key :
    REFERENCE[older][k].version \in UPGRADABLE_POLICY_VERSIONS[newer] =>
      UPGRADABLE_POLICY_VERSIONS[older] \cap VersionsOf(k) \subseteq UPGRADABLE_POLICY_VERSIONS[newer]

VARIABLES
  rows,    \* Key -> the committed row
  seed,    \* Seeder -> where it is: release, statement, state, rows a person wrote since it began
  written, \* Seeder -> Key -> its uncommitted row, which is also its lock on that row
  persons, \* history, for properties: Key -> the row as a person last wrote it
  edits    \* how many rows persons wrote

vars == <<rows, seed, written, persons, edits>>

Run == [release : Release, at : 1..2 * RowCount + 1,
        state : {"idle", "running", "committed", "rolled_back"}, touched : SUBSET Key]

NothingWritten == [k \in Key |-> NoRow]
Commit == 2 * RowCount + 1      \* the statement after the inserts and the updates

running(i) == seed[i].state = "running"
locked(k) == \E i \in Seeder : written[i][k] # NoRow

Init ==
  /\ rows \in {NothingWritten} \cup { REFERENCE[release] : release \in Release }
  /\ seed \in [Seeder -> [release : Release, at : {1}, state : {"idle"}, touched : {{}}]]
  /\ written = [i \in Seeder |-> NothingWritten]
  /\ persons = NothingWritten
  /\ edits = 0

-------------------------------------------------------------------------------
(* The seed's transaction *)

Begin(i) ==
  /\ seed[i].state = "idle"
  /\ seed' = [seed EXCEPT ![i].state = "running"]
  /\ UNCHANGED <<rows, written, persons, edits>>

\* Statement at of seed i writes row k, or writes nothing.
Statement(i, k, row) ==
  /\ written' = [written EXCEPT ![i][k] = row]
  /\ seed' = [seed EXCEPT ![i].at = @ + 1]
  /\ UNCHANGED <<rows, persons, edits>>

\* Defect: a row that somebody else is inserting is inserted as well.
insert_source_without_waiting(i) ==
  /\ running(i) /\ seed[i].at \in Key
  /\ LET k == seed[i].at IN
       Statement(i, k, IF rows[k] = NoRow THEN REFERENCE[seed[i].release][k] ELSE NoRow)

\* ON CONFLICT DO NOTHING: only an insert that is not committed yet is waited for.
insert_source(i) ==
  /\ running(i) /\ seed[i].at \in Key
  /\ LET k == seed[i].at IN
       \/ rows[k] # NoRow /\ Statement(i, k, NoRow)
       \/ rows[k] = NoRow /\ ~locked(k) /\ Statement(i, k, REFERENCE[seed[i].release][k])

\* Defect: the update does not ask whether a person stopped the source.
upgradable_when_paused(release, k, row) ==
  /\ row.version # REFERENCE[release][k].version
  /\ row.version \in UPGRADABLE_POLICY_VERSIONS[release]

\* Defect: every other version is replaced, not only the known ones.
upgradable_any_version(release, k, row) ==
  /\ row.version # REFERENCE[release][k].version
  /\ row.review_state \notin {"paused", "restricted"}

\* The update's WHERE.
upgradable(release, k, row) ==
  /\ row.version # REFERENCE[release][k].version
  /\ row.version \in UPGRADABLE_POLICY_VERSIONS[release]
  /\ row.review_state \notin {"paused", "restricted"}

\* POLICY_COLUMNS: whether the source is enabled is not among them.
upgraded(release, k, row) ==
  [REFERENCE[release][k] EXCEPT !.enabled = row.enabled]

\* Defect: a row that is locked is passed over.
upgrade_skip_locked(i) ==
  /\ running(i) /\ seed[i].at \in RowCount + 1..2 * RowCount
  /\ LET k == seed[i].at - RowCount
         release == seed[i].release
     IN \/ (written[i][k] # NoRow \/ locked(k) \/ ~upgradable(release, k, rows[k]))
           /\ Statement(i, k, written[i][k])
        \/ /\ written[i][k] = NoRow /\ ~locked(k) /\ upgradable(release, k, rows[k])
           /\ Statement(i, k, upgraded(release, k, rows[k]))

\* The update waits for a matching row that is locked and then asks the WHERE again.  A row this
\* seed inserted is on its own version already.
upgrade(i) ==
  /\ running(i) /\ seed[i].at \in RowCount + 1..2 * RowCount
  /\ LET k == seed[i].at - RowCount
         release == seed[i].release
     IN \/ (written[i][k] # NoRow \/ ~upgradable(release, k, rows[k]))
           /\ Statement(i, k, written[i][k])
        \/ /\ written[i][k] = NoRow /\ ~locked(k) /\ upgradable(release, k, rows[k])
           /\ Statement(i, k, upgraded(release, k, rows[k]))

End(i, state) ==
  /\ seed' = [seed EXCEPT ![i].state = state]
  /\ written' = [written EXCEPT ![i] = NothingWritten]
  /\ UNCHANGED <<persons, edits>>

CommitSeed(i) ==
  /\ running(i) /\ seed[i].at = Commit
  /\ rows' = [k \in Key |-> IF written[i][k] # NoRow THEN written[i][k] ELSE rows[k]]
  /\ End(i, "committed")

\* The process or its connection ends: nothing of it stays.
RollBack(i) == running(i) /\ End(i, "rolled_back") /\ UNCHANGED rows

-------------------------------------------------------------------------------
(* A person, by SQL: one UPDATE, which waits for a row that is locked *)

Write(k, row) ==
  /\ edits < MaxEdits
  /\ rows[k] # NoRow /\ ~locked(k)
  /\ rows' = [rows EXCEPT ![k] = row]
  /\ persons' = [persons EXCEPT ![k] = row]
  /\ seed' = [i \in Seeder |->
       [seed[i] EXCEPT !.touched = IF seed[i].state = "idle" THEN @ ELSE @ \cup {k}]]
  /\ edits' = edits + 1
  /\ UNCHANGED written

Step(i) == Begin(i) \/ insert_source(i) \/ upgrade(i) \/ CommitSeed(i) \/ RollBack(i)

Next ==
  \/ \E i \in Seeder : Step(i)
  \/ \E k \in Key : \E row \in PersonsRows[k] : Write(k, row)

Spec == Init /\ [][Next]_vars

-------------------------------------------------------------------------------
(* Properties *)

\* Type invariant; a row is locked by at most one seed, and only by one that runs.
TypeOK ==
  /\ rows \in [Key -> Row \cup {NoRow}]
  /\ seed \in [Seeder -> Run]
  /\ written \in [Seeder -> [Key -> Row \cup {NoRow}]]
  /\ persons \in [Key -> Row \cup {NoRow}]
  /\ edits \in 0..MaxEdits
  /\ \A i, j \in Seeder, k \in Key : written[i][k] # NoRow /\ written[j][k] # NoRow => i = j
  /\ \A i \in Seeder, k \in Key : written[i][k] # NoRow => running(i)

\* What "was set by a person and is left alone" (bootstrap.py UPGRADABLE_POLICY_VERSIONS).
ByAPerson(row) ==
  \/ row.review_state \in {"paused", "restricted"}
  \/ \A release \in Release : row.version \notin UPGRADABLE_POLICY_VERSIONS[release]

\* A person's pause, restriction or version of their own stands until a person changes it, and a
\* source they disabled stays disabled, whichever seeds run, overlap or were under way when they
\* wrote it (bootstrap.py seed_reference_data).
PersonsWordStands ==
  \A k \in Key : persons[k] # NoRow =>
    /\ ByAPerson(persons[k]) => rows[k] = persons[k]
    /\ rows[k] # NoRow /\ rows[k].enabled = persons[k].enabled

\* No seed takes a row back to an older policy, an older image's seed after or beside a newer
\* one's included (bootstrap.py:306-318).
VersionsNeverGoBack ==
  [][\A k \in Key : rows[k] # NoRow /\ rows'[k] # rows[k] /\ persons' = persons /\ edits' = edits =>
       rows'[k] # NoRow /\ Generation[rows[k].version] < Generation[rows'[k].version]]_vars

\* A seed that committed took hold: every reference row exists, and none that no person wrote
\* since is left on a version it replaces, although other seeds inserted, locked or rolled back
\* the same rows meanwhile (bootstrap.py "ON CONFLICT DO NOTHING", seed_reference_data).
SeedTakesHold ==
  \A i \in Seeder : seed[i].state = "committed" =>
    \A k \in Key : /\ rows[k] # NoRow
                   /\ k \notin seed[i].touched => ~upgradable(seed[i].release, k, rows[k])
===============================================================================
