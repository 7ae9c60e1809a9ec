-------------------------- MODULE RegistrySeedProofs --------------------------
(***************************************************************************)
(* What the seed may do to the registry, for any number of rows, releases  *)
(* and overlapping seeds: a person's word stands, and no policy goes back. *)
(*                                                                         *)
(* Both hang on what an uncommitted write is: made from the row that is    *)
(* still the committed one, because its writer holds the lock on it.       *)
(***************************************************************************)
EXTENDS RegistrySeed, TLAPS

\* An uncommitted write inserts a row nobody has, or upgrades the row that is committed.
WritesAreCurrent ==
  \A i \in Seeder, k \in Key : written[i][k] # NoRow =>
    \/ /\ rows[k] = NoRow
       /\ written[i][k] = REFERENCE[seed[i].release][k]
    \/ /\ rows[k] # NoRow
       /\ upgradable(seed[i].release, k, rows[k])
       /\ written[i][k] = upgraded(seed[i].release, k, rows[k])

\* A row carries a version that some release or some person gives it.
VersionsAreKnown == \A k \in Key : rows[k] # NoRow => rows[k].version \in VersionsOf(k)

IInv == TypeOK /\ WritesAreCurrent /\ VersionsAreKnown /\ PersonsWordStands

\* The absent row is no row.
LEMMA NoRowIsNoRow == NoRow \notin Row
BY RowAssumption DEF NoRow, Row

\* What the seed inserts, and what it makes of a row, is a row with the release's own version.
LEMMA ReferenceRows ==
  ASSUME NEW release \in Release, NEW k \in Key, NEW row \in Row
  PROVE  /\ REFERENCE[release][k] \in Row
         /\ REFERENCE[release][k].version \in VersionsOf(k)
         /\ upgraded(release, k, row) \in Row
         /\ upgraded(release, k, row).version = REFERENCE[release][k].version
         /\ upgraded(release, k, row).enabled = row.enabled
<1>1. REFERENCE[release][k] \in Row
  BY RowAssumption
<1>2. REFERENCE[release][k].version \in VersionsOf(k)
  BY DEF VersionsOf
<1>3. QED
  BY <1>1, <1>2 DEF upgraded, Row

\* The initial states satisfy the invariant.
LEMMA InitIInv == Init => IInv
<1> SUFFICES ASSUME Init PROVE IInv
  OBVIOUS
<1>1. \A k \in Key : rows[k] # NoRow => rows[k] \in Row /\ rows[k].version \in VersionsOf(k)
  BY RowAssumption DEF Init, NothingWritten, VersionsOf
<1>2. rows \in [Key -> Row \cup {NoRow}]
  BY RowAssumption DEF Init, NothingWritten
<1>3. 1 \in 1..Commit /\ 0 \in 0..MaxEdits
  BY CountAssumption DEF Commit
<1>4. TypeOK
  BY <1>2, <1>3 DEF Init, TypeOK, NothingWritten, Run, Commit
<1>5. WritesAreCurrent /\ PersonsWordStands
  BY DEF Init, WritesAreCurrent, PersonsWordStands, NothingWritten
<1>6. QED
  BY <1>1, <1>4, <1>5 DEF IInv, VersionsAreKnown

\* A statement that writes what WritesAreCurrent allows, on a row nobody else holds.
LEMMA StatementIInv ==
  ASSUME IInv, NEW i \in Seeder, NEW k \in Key, NEW row \in Row \cup {NoRow},
         running(i), seed[i].at \in 1..2 * RowCount, Statement(i, k, row),
         row # NoRow =>
           /\ \A j \in Seeder \ {i} : written[j][k] = NoRow
           /\ \/ rows[k] = NoRow /\ row = REFERENCE[seed[i].release][k]
              \/ /\ rows[k] # NoRow
                 /\ upgradable(seed[i].release, k, rows[k])
                 /\ row = upgraded(seed[i].release, k, rows[k])
  PROVE  IInv'
<1> USE DEF IInv
<1>1. seed[i].at + 1 \in 1..Commit
  BY CountAssumption DEF Commit
<1>2. \A j \in Seeder : /\ seed'[j].release = seed[j].release /\ seed'[j].state = seed[j].state
                        /\ seed'[j] \in Run
  BY <1>1 DEF Statement, TypeOK, Run, Commit
<1>3. seed' \in [Seeder -> Run]
  BY <1>2 DEF Statement, TypeOK
<1>4. written' \in [Seeder -> [Key -> Row \cup {NoRow}]]
  BY DEF Statement, TypeOK
<1>5. \A j \in Seeder, l \in Key :
        written'[j][l] = IF j = i /\ l = k THEN row ELSE written[j][l]
  BY DEF Statement, TypeOK
<1>6. TypeOK'
  <2>1. \A a, b \in Seeder, l \in Key : written'[a][l] # NoRow /\ written'[b][l] # NoRow => a = b
    BY <1>5 DEF TypeOK
  <2>2. \A a \in Seeder, l \in Key : written'[a][l] # NoRow => running(a)'
    BY <1>2, <1>5 DEF TypeOK, running
  <2>3. QED
    BY <1>3, <1>4, <2>1, <2>2 DEF Statement, TypeOK
<1>7. WritesAreCurrent'
  BY <1>2, <1>5 DEF WritesAreCurrent, Statement, upgradable, upgraded
<1>8. VersionsAreKnown' /\ PersonsWordStands'
  BY DEF VersionsAreKnown, PersonsWordStands, Statement, ByAPerson
<1>9. QED
  BY <1>6, <1>7, <1>8

\* Every insert and every update is such a statement.
LEMMA SeedStatementIInv ==
  ASSUME IInv, NEW i \in Seeder, insert_source(i) \/ upgrade(i)
  PROVE  IInv'
<1>1. CASE insert_source(i)
  <2> DEFINE k == seed[i].at
  <2>1. k \in Key /\ running(i) /\ k \in 1..2 * RowCount
    BY <1>1, CountAssumption DEF insert_source, Key
  <2>2. CASE rows[k] # NoRow /\ Statement(i, k, NoRow)
    BY <2>1, <2>2, StatementIInv
  <2>3. CASE rows[k] = NoRow /\ ~locked(k) /\ Statement(i, k, REFERENCE[seed[i].release][k])
    <3>1. REFERENCE[seed[i].release][k] \in Row
      BY <2>1, RowAssumption DEF IInv, TypeOK, Run
    <3>2. \A j \in Seeder \ {i} : written[j][k] = NoRow
      BY <2>3 DEF locked
    <3>3. QED
      BY <2>1, <2>3, <3>1, <3>2, StatementIInv
  <2>4. QED
    BY <1>1, <2>2, <2>3 DEF insert_source
<1>2. CASE upgrade(i)
  <2> DEFINE k == seed[i].at - RowCount
             release == seed[i].release
  <2>1. k \in Key /\ running(i) /\ seed[i].at \in 1..2 * RowCount /\ release \in Release
    BY <1>2, CountAssumption DEF upgrade, Key, IInv, TypeOK, Run
  <2>2. CASE Statement(i, k, written[i][k])
    <3>1. written[i][k] \in Row \cup {NoRow}
      BY <2>1 DEF IInv, TypeOK
    <3>2. written[i][k] # NoRow => \A j \in Seeder \ {i} : written[j][k] = NoRow
      BY <2>1 DEF IInv, TypeOK
    <3>3. QED
      BY <2>1, <2>2, <3>1, <3>2, StatementIInv DEF IInv, WritesAreCurrent
  <2>3. CASE /\ ~locked(k) /\ upgradable(release, k, rows[k])
             /\ Statement(i, k, upgraded(release, k, rows[k]))
    <3>1. rows[k] # NoRow
      BY <2>1, <2>3, UpgradeAssumption, RowAssumption DEF upgradable, NoRow
    <3>2. upgraded(release, k, rows[k]) \in Row
      BY <2>1, <3>1, ReferenceRows DEF IInv, TypeOK
    <3>3. \A j \in Seeder \ {i} : written[j][k] = NoRow
      BY <2>3 DEF locked
    <3>4. QED
      BY <2>1, <2>3, <3>1, <3>2, <3>3, StatementIInv
  <2>4. QED
    BY <1>2, <2>2, <2>3 DEF upgrade
<1>3. QED
  BY <1>1, <1>2

\* What a commit makes of a row: it is inserted, or upgraded as WritesAreCurrent says, or kept.
LEMMA CommittedRow ==
  ASSUME IInv, NEW i \in Seeder, CommitSeed(i), NEW k \in Key
  PROVE  \/ rows'[k] = rows[k]
         \/ /\ rows[k] = NoRow
            /\ rows'[k] = REFERENCE[seed[i].release][k]
         \/ /\ rows[k] # NoRow
            /\ upgradable(seed[i].release, k, rows[k])
            /\ rows'[k] = upgraded(seed[i].release, k, rows[k])
BY DEF CommitSeed, IInv, WritesAreCurrent

\* The end of a seed, whatever it leaves in the rows, keeps the types and frees its locks.
LEMMA EndTypeOK ==
  ASSUME IInv, NEW i \in Seeder, NEW state \in {"committed", "rolled_back"}, End(i, state),
         rows' \in [Key -> Row \cup {NoRow}]
  PROVE  /\ TypeOK'
         /\ \A j \in Seeder : seed'[j].release = seed[j].release
         /\ \A j \in Seeder, k \in Key : written'[j][k] = IF j = i THEN NoRow ELSE written[j][k]
<1> USE DEF IInv
<1>1. \A j \in Seeder : /\ seed'[j].release = seed[j].release
                        /\ j # i => seed'[j] = seed[j]
                        /\ seed'[j] \in Run
  BY DEF End, TypeOK, Run
<1>2. seed' \in [Seeder -> Run]
  BY <1>1 DEF End, TypeOK
<1>3. NothingWritten \in [Key -> Row \cup {NoRow}]
  BY DEF NothingWritten
<1>4. written' \in [Seeder -> [Key -> Row \cup {NoRow}]]
  BY <1>3 DEF End, TypeOK
<1>5. \A j \in Seeder, k \in Key : written'[j][k] = IF j = i THEN NoRow ELSE written[j][k]
  BY DEF End, TypeOK, NothingWritten
<1>6. TypeOK'
  <2>1. \A a, b \in Seeder, k \in Key : written'[a][k] # NoRow /\ written'[b][k] # NoRow => a = b
    BY <1>5 DEF TypeOK
  <2>2. \A a \in Seeder, k \in Key : written'[a][k] # NoRow => running(a)'
    BY <1>1, <1>5 DEF TypeOK, running
  <2>3. QED
    BY <1>2, <1>4, <2>1, <2>2 DEF End, TypeOK
<1>7. QED
  BY <1>1, <1>5, <1>6

\* A commit keeps the invariant.
LEMMA CommitIInv ==
  ASSUME IInv, NEW i \in Seeder, CommitSeed(i)
  PROVE  IInv'
<1> USE DEF IInv
<1> DEFINE release == seed[i].release
<1>1. release \in Release
  BY DEF TypeOK, Run
<1>2. rows' \in [Key -> Row \cup {NoRow}]
  BY DEF CommitSeed, TypeOK
<1>3. /\ TypeOK'
      /\ \A j \in Seeder : seed'[j].release = seed[j].release
      /\ \A j \in Seeder, k \in Key : written'[j][k] = IF j = i THEN NoRow ELSE written[j][k]
  BY <1>2, EndTypeOK DEF CommitSeed
<1>4. WritesAreCurrent'
  <2> SUFFICES ASSUME NEW j \in Seeder, NEW k \in Key, written'[j][k] # NoRow
               PROVE  \/ /\ rows'[k] = NoRow
                         /\ written'[j][k] = REFERENCE[seed'[j].release][k]
                      \/ /\ rows'[k] # NoRow
                         /\ upgradable(seed'[j].release, k, rows'[k])
                         /\ written'[j][k] = upgraded(seed'[j].release, k, rows'[k])
    BY DEF WritesAreCurrent, upgradable, upgraded
  <2>1. j # i /\ written[j][k] # NoRow
    BY <1>3
  <2>2. written[i][k] = NoRow
    BY <2>1 DEF TypeOK
  <2>3. rows'[k] = rows[k]
    BY <2>2 DEF CommitSeed
  <2>4. QED
    BY <1>3, <2>1, <2>3 DEF WritesAreCurrent
<1>5. VersionsAreKnown'
  <2> SUFFICES ASSUME NEW k \in Key, rows'[k] # NoRow
               PROVE  rows'[k].version \in VersionsOf(k)
    BY DEF VersionsAreKnown, VersionsOf
  <2>1. rows[k] # NoRow => rows[k] \in Row
    BY DEF TypeOK
  <2>2. CASE rows'[k] = rows[k]
    BY <2>2 DEF VersionsAreKnown
  <2>3. CASE rows'[k] = REFERENCE[release][k]
    BY <1>1, <2>3 DEF VersionsOf
  <2>4. CASE rows[k] # NoRow /\ rows'[k] = upgraded(release, k, rows[k])
    BY <1>1, <2>1, <2>4, ReferenceRows
  <2>5. QED
    BY <2>2, <2>3, <2>4, CommittedRow
<1>6. PersonsWordStands'
  <2> SUFFICES ASSUME NEW k \in Key, persons[k] # NoRow
               PROVE  /\ ByAPerson(persons[k]) => rows'[k] = persons[k]
                      /\ rows'[k] # NoRow /\ rows'[k].enabled = persons[k].enabled
    BY DEF PersonsWordStands, CommitSeed, End, ByAPerson
  <2>1. /\ ByAPerson(persons[k]) => rows[k] = persons[k]
        /\ rows[k] # NoRow /\ rows[k].enabled = persons[k].enabled
    BY DEF PersonsWordStands
  <2>2. CASE rows'[k] = rows[k]
    BY <2>1, <2>2
  <2>3. CASE /\ upgradable(release, k, rows[k])
             /\ rows'[k] = upgraded(release, k, rows[k])
    <3>1. ~ByAPerson(persons[k])
      BY <1>1, <2>1, <2>3 DEF upgradable, ByAPerson
    <3>2. rows[k] \in Row
      BY <2>1 DEF TypeOK
    <3>3. rows'[k] \in Row /\ rows'[k].enabled = rows[k].enabled
      BY <1>1, <2>3, <3>2, ReferenceRows
    <3>4. QED
      BY <2>1, <3>1, <3>3, NoRowIsNoRow
  <2>4. QED
    BY <2>1, <2>2, <2>3, CommittedRow
<1>7. QED
  BY <1>3, <1>4, <1>5, <1>6

\* A person's update keeps the invariant: the row it waits for is then held by no seed.
LEMMA WriteIInv ==
  ASSUME IInv, NEW k \in Key, NEW row \in PersonsRows[k], Write(k, row)
  PROVE  IInv'
<1> USE DEF IInv
<1>1. row \in Row /\ row # NoRow /\ row.version \in VersionsOf(k)
  BY RowAssumption, NoRowIsNoRow DEF VersionsOf
<1>2. \A i \in Seeder : /\ seed'[i].release = seed[i].release /\ seed'[i].state = seed[i].state
                        /\ seed'[i] \in Run
  BY DEF Write, TypeOK, Run
<1>3. seed' \in [Seeder -> Run]
  BY <1>2 DEF Write
<1>4. /\ rows' \in [Key -> Row \cup {NoRow}] /\ persons' \in [Key -> Row \cup {NoRow}]
      /\ rows'[k] = row /\ persons'[k] = row
      /\ \A l \in Key \ {k} : rows'[l] = rows[l] /\ persons'[l] = persons[l]
  BY <1>1 DEF Write, TypeOK
<1>5. edits' \in 0..MaxEdits
  BY CountAssumption DEF Write, TypeOK
<1>6. TypeOK'
  <2>1. \A a \in Seeder, l \in Key : written'[a][l] # NoRow => running(a)'
    BY <1>2 DEF Write, TypeOK, running
  <2>2. QED
    BY <1>3, <1>4, <1>5, <2>1 DEF Write, TypeOK
<1>7. \A i \in Seeder : written[i][k] = NoRow
  BY DEF Write, locked
<1>8. WritesAreCurrent'
  BY <1>2, <1>4, <1>7 DEF WritesAreCurrent, Write, upgradable, upgraded, Run
<1>9. VersionsAreKnown' /\ PersonsWordStands'
  BY <1>1, <1>4 DEF VersionsAreKnown, PersonsWordStands, ByAPerson, VersionsOf
<1>10. QED
  BY <1>6, <1>8, <1>9

\* Every step keeps the invariant.
LEMMA NextIInv == IInv /\ [Next]_vars => IInv'
<1> SUFFICES ASSUME IInv, [Next]_vars PROVE IInv'
  OBVIOUS
<1>1. CASE UNCHANGED vars
  BY <1>1 DEF vars, IInv, TypeOK, running, WritesAreCurrent, VersionsAreKnown, PersonsWordStands,
              ByAPerson, upgradable, upgraded, VersionsOf
<1>2. ASSUME NEW i \in Seeder, Begin(i) PROVE IInv'
  <2>1. \A j \in Seeder : /\ seed'[j].release = seed[j].release
                          /\ running(j) => seed'[j].state = "running"
                          /\ seed'[j] \in Run
    BY <1>2 DEF Begin, IInv, TypeOK, running, Run
  <2>2. TypeOK'
    <3>1. seed' \in [Seeder -> Run]
      BY <1>2, <2>1 DEF Begin, IInv, TypeOK
    <3>2. \A a \in Seeder, l \in Key : written'[a][l] # NoRow => running(a)'
      BY <1>2, <2>1 DEF Begin, IInv, TypeOK, running
    <3>3. QED
      BY <1>2, <3>1, <3>2 DEF Begin, IInv, TypeOK
  <2>3. WritesAreCurrent'
    BY <1>2, <2>1 DEF Begin, IInv, WritesAreCurrent, upgradable, upgraded
  <2>4. VersionsAreKnown' /\ PersonsWordStands'
    BY <1>2 DEF Begin, IInv, VersionsAreKnown, PersonsWordStands, ByAPerson, VersionsOf
  <2>5. QED
    BY <2>2, <2>3, <2>4 DEF IInv
<1>3. ASSUME NEW i \in Seeder, RollBack(i) PROVE IInv'
  <2>1. /\ TypeOK'
        /\ \A j \in Seeder : seed'[j].release = seed[j].release
        /\ \A j \in Seeder, k \in Key : written'[j][k] = IF j = i THEN NoRow ELSE written[j][k]
    BY <1>3, EndTypeOK DEF RollBack, IInv, TypeOK
  <2>2. WritesAreCurrent'
    BY <1>3, <2>1 DEF RollBack, IInv, WritesAreCurrent, upgradable, upgraded
  <2>3. VersionsAreKnown' /\ PersonsWordStands'
    BY <1>3 DEF RollBack, End, IInv, VersionsAreKnown, PersonsWordStands, ByAPerson, VersionsOf
  <2>4. QED
    BY <2>1, <2>2, <2>3 DEF IInv
<1>4. QED
  BY <1>1, <1>2, <1>3, SeedStatementIInv, CommitIInv, WriteIInv DEF Next, Step

\* The registry and the seeds stay in their types, and no two seeds hold the same row.
THEOREM TypeCorrect == Spec => []TypeOK
BY InitIInv, NextIInv, PTL DEF Spec, IInv

\* A person's word stands in every reachable state.
THEOREM PersonsWordAlwaysStands == Spec => []PersonsWordStands
BY InitIInv, NextIInv, PTL DEF Spec, IInv

\* A step that no person takes replaces a version only by a later one.
LEMMA StepNeverGoesBack ==
  ASSUME IInv, Next, persons' = persons, edits' = edits,
         NEW k \in Key, rows[k] # NoRow, rows'[k] # rows[k]
  PROVE  rows'[k] # NoRow /\ Generation[rows[k].version] < Generation[rows'[k].version]
<1>1. PICK i \in Seeder : CommitSeed(i)
  <2>1. ASSUME NEW l \in Key, NEW row \in PersonsRows[l], Write(l, row) PROVE FALSE
    BY <2>1 DEF Write, IInv, TypeOK
  <2>2. QED
    BY <2>1 DEF Next, Step, Begin, insert_source, upgrade, Statement, RollBack
<1>2. seed[i].release \in Release /\ rows[k] \in Row
  BY DEF IInv, TypeOK, Run
<1>3. /\ upgradable(seed[i].release, k, rows[k])
      /\ rows'[k] = upgraded(seed[i].release, k, rows[k])
  BY <1>1, CommittedRow
<1>4. /\ rows'[k] \in Row
      /\ rows'[k].version = REFERENCE[seed[i].release][k].version
  BY <1>2, <1>3, ReferenceRows
<1>5. rows[k].version \in UPGRADABLE_POLICY_VERSIONS[seed[i].release] \cap VersionsOf(k)
  BY <1>3 DEF upgradable, IInv, VersionsAreKnown
<1>6. QED
  BY <1>2, <1>4, <1>5, UpgradeAssumption, NoRowIsNoRow

\* No policy goes back, whichever images are seeded in whatever order.
THEOREM PoliciesNeverGoBack == Spec => VersionsNeverGoBack
<1>1. IInv /\ [Next]_vars =>
        [\A k \in Key : rows[k] # NoRow /\ rows'[k] # rows[k] /\ persons' = persons /\ edits' = edits =>
           rows'[k] # NoRow /\ Generation[rows[k].version] < Generation[rows'[k].version]]_vars
  BY StepNeverGoesBack
<1>2. QED
  BY <1>1, InitIInv, NextIInv, PTL DEF Spec, VersionsNeverGoBack

-------------------------------------------------------------------------------
(* A committed seed took hold *)

\* Seed i has committed, or has executed its statement n.
Passed(i, n) == seed[i].state = "committed" \/ (running(i) /\ seed[i].at > n)

\* Past its insert a row exists or is the seed's own; past its update too, nothing is left to
\* replace, unless the seed replaces it itself or a person has written it meanwhile.
HoldInv ==
  /\ \A i \in Seeder : seed[i].state = "idle" => seed[i].at = 1
  /\ \A i \in Seeder, k \in Key :
       /\ Passed(i, k) => rows[k] # NoRow \/ written[i][k] # NoRow
       /\ Passed(i, RowCount + k) /\ k \notin seed[i].touched /\ written[i][k] = NoRow =>
            ~upgradable(seed[i].release, k, rows[k])

\* What one release leaves alone, another release's upgrade does not make replaceable.
LEMMA UpgradesStayReplaced ==
  ASSUME NEW mine \in Release, NEW theirs \in Release, NEW k \in Key, NEW row \in Row,
         row.version \in VersionsOf(k), upgradable(theirs, k, row), ~upgradable(mine, k, row)
  PROVE  ~upgradable(mine, k, upgraded(theirs, k, row))
<1> DEFINE new == upgraded(theirs, k, row)
<1>1. new \in Row /\ new.version = REFERENCE[theirs][k].version
  BY ReferenceRows
<1>2. new.version \in VersionsOf(k) /\ REFERENCE[mine][k].version \in Version
  BY <1>1, ReferenceRows DEF Row
<1> HIDE DEF new
<1>3. SUFFICES ASSUME upgradable(mine, k, new) PROVE FALSE
  BY DEF new
<1>4. new.version \in UPGRADABLE_POLICY_VERSIONS[mine] \cap VersionsOf(k)
  BY <1>2, <1>3 DEF upgradable
<1>5. row.version \in UPGRADABLE_POLICY_VERSIONS[theirs] \cap VersionsOf(k)
  BY DEF upgradable
<1>6. row.version \in UPGRADABLE_POLICY_VERSIONS[mine]
  BY <1>1, <1>4, <1>5, CumulativeAssumption
<1>7. row.version = REFERENCE[mine][k].version
  BY <1>6 DEF upgradable
<1>8. /\ Generation[row.version] < Generation[new.version]
      /\ Generation[new.version] < Generation[REFERENCE[mine][k].version]
  BY <1>1, <1>4, <1>5, UpgradeAssumption
<1>9. Generation[row.version] \in Nat /\ Generation[new.version] \in Nat
  BY <1>1, RowAssumption DEF Row
<1> QED
  BY <1>7, <1>8, <1>9

\* A statement of the seed keeps it: only the row it is about, and only for this seed, is new.
LEMMA StatementHolds ==
  ASSUME IInv, HoldInv, NEW i \in Seeder, insert_source(i) \/ upgrade(i)
  PROVE  HoldInv'
<1>1. PICK k \in Key, row \in Row \cup {NoRow} :
        /\ running(i) /\ Statement(i, k, row)
        /\ \/ /\ seed[i].at = k
              /\ rows[k] # NoRow \/ row # NoRow
           \/ /\ seed[i].at = RowCount + k
              /\ row = written[i][k] \/ row # NoRow
              /\ row # NoRow \/ ~upgradable(seed[i].release, k, rows[k])
  <2>1. CASE insert_source(i)
    <3>1. seed[i].at \in Key /\ REFERENCE[seed[i].release][seed[i].at] \in Row
      BY <2>1, RowAssumption DEF insert_source, IInv, TypeOK, Run
    <3> QED
      BY <2>1, <3>1, NoRowIsNoRow DEF insert_source
  <2>2. CASE upgrade(i)
    <3> DEFINE k == seed[i].at - RowCount
    <3>1. k \in Key /\ seed[i].at = RowCount + k /\ running(i) /\ seed[i].release \in Release
      BY <2>2, CountAssumption DEF upgrade, Key, IInv, TypeOK, Run
    <3>2. CASE /\ written[i][k] # NoRow \/ ~upgradable(seed[i].release, k, rows[k])
               /\ Statement(i, k, written[i][k])
      <4>1. written[i][k] \in Row \cup {NoRow}
        BY <3>1 DEF IInv, TypeOK
      <4> QED
        BY <3>1, <3>2, <4>1
    <3>3. CASE /\ upgradable(seed[i].release, k, rows[k])
               /\ Statement(i, k, upgraded(seed[i].release, k, rows[k]))
      <4>1. rows[k] # NoRow
        BY <3>1, <3>3, UpgradeAssumption, RowAssumption DEF upgradable, NoRow
      <4>2. upgraded(seed[i].release, k, rows[k]) \in Row
        BY <3>1, <4>1, ReferenceRows DEF IInv, TypeOK
      <4> QED
        BY <3>1, <3>3, <4>2, NoRowIsNoRow
    <3> QED
      BY <2>2, <3>2, <3>3 DEF upgrade
  <2> QED
    BY <2>1, <2>2
<1>2. /\ \A j \in Seeder, l \in Key : written'[j][l] = IF j = i /\ l = k THEN row ELSE written[j][l]
      /\ rows' = rows
  BY <1>1 DEF Statement, IInv, TypeOK
<1>3. /\ \A j \in Seeder : /\ seed'[j].release = seed[j].release /\ seed'[j].state = seed[j].state
                           /\ seed'[j].touched = seed[j].touched
      /\ \A j \in Seeder \ {i} : seed'[j] = seed[j]
      /\ seed'[i].at = seed[i].at + 1
  BY <1>1 DEF Statement, IInv, TypeOK, Run
<1>4. seed[i].at \in Nat /\ RowCount \in Nat /\ \A l \in Key : l \in Nat
  BY CountAssumption DEF IInv, TypeOK, Run, Key
<1>5. ASSUME NEW j \in Seeder, NEW l \in Key
      PROVE  /\ Passed(j, l)' => rows'[l] # NoRow \/ written'[j][l] # NoRow
             /\ Passed(j, RowCount + l)' /\ l \notin seed'[j].touched /\ written'[j][l] = NoRow =>
                  ~upgradable(seed'[j].release, l, rows'[l])
  <2>1. CASE j # i
    BY <1>2, <1>3, <2>1 DEF HoldInv, Passed, running
  <2>2. CASE j = i /\ l # k
    <3>1. Passed(i, l)' => Passed(i, l)
      BY <1>1, <1>3, <1>4, <2>2, CountAssumption DEF Passed, running, Key
    <3>2. Passed(i, RowCount + l)' => Passed(i, RowCount + l)
      BY <1>1, <1>3, <1>4, <2>2 DEF Passed, running, Key
    <3> QED
      BY <1>2, <1>3, <2>2, <3>1, <3>2 DEF HoldInv
  <2>3. CASE j = i /\ l = k
    <3>1. CASE seed[i].at = k
      <4>1. ~Passed(i, RowCount + k)'
        BY <1>1, <1>3, <1>4, <3>1, CountAssumption DEF Passed, running
      <4> QED
        BY <1>1, <1>2, <2>3, <3>1, <4>1, CountAssumption
    <3>2. CASE seed[i].at = RowCount + k
      <4>1. Passed(i, k)
        BY <1>1, <1>4, <3>2, CountAssumption DEF Passed
      <4>2. rows[k] # NoRow \/ written[i][k] # NoRow
        BY <4>1 DEF HoldInv
      <4> QED
        BY <1>1, <1>2, <1>3, <1>4, <2>3, <3>2, <4>2, CountAssumption
    <3> QED
      BY <1>1, <3>1, <3>2
  <2> QED
    BY <2>1, <2>2, <2>3
<1>6. \A j \in Seeder : seed'[j].state = "idle" => seed'[j].at = 1
  BY <1>1, <1>3 DEF HoldInv, running
<1> QED
  BY <1>5, <1>6 DEF HoldInv, Passed, running, upgradable

\* A commit makes the seed's writes the rows, and another seed's row is at most upgraded by it.
LEMMA CommitHolds ==
  ASSUME IInv, HoldInv, NEW i \in Seeder, CommitSeed(i)
  PROVE  HoldInv'
<1>1. /\ \A j \in Seeder : /\ seed'[j].release = seed[j].release
                           /\ seed'[j].touched = seed[j].touched
      /\ \A j \in Seeder \ {i} : seed'[j] = seed[j]
      /\ seed'[i].state = "committed" /\ running(i) /\ seed[i].at = Commit
      /\ \A j \in Seeder, k \in Key : written'[j][k] = IF j = i THEN NoRow ELSE written[j][k]
      /\ \A k \in Key : rows'[k] = IF written[i][k] # NoRow THEN written[i][k] ELSE rows[k]
  BY DEF CommitSeed, End, NothingWritten, IInv, TypeOK, Run
<1>2. \A k \in Key : Passed(i, k) /\ Passed(i, RowCount + k)
  BY <1>1, CountAssumption DEF Passed, Key, Commit
<1>3. ASSUME NEW j \in Seeder, NEW k \in Key, Passed(j, k)'
      PROVE  rows'[k] # NoRow \/ written'[j][k] # NoRow
  BY <1>1, <1>2, <1>3 DEF HoldInv, Passed, running
<1>4. ASSUME NEW j \in Seeder, NEW k \in Key, Passed(j, RowCount + k)', k \notin seed[j].touched,
             written'[j][k] = NoRow
      PROVE  ~upgradable(seed[j].release, k, rows'[k])
  <2>1. seed[i].release \in Release /\ seed[j].release \in Release
    BY DEF IInv, TypeOK, Run
  <2>2. CASE j = i /\ written[i][k] # NoRow
    <3>1. rows'[k].version = REFERENCE[seed[i].release][k].version
      <4>1. rows[k] # NoRow => rows[k] \in Row
        BY DEF IInv, TypeOK
      <4> QED
        BY <1>1, <2>1, <2>2, <4>1, ReferenceRows DEF IInv, WritesAreCurrent
    <3> QED
      BY <2>2, <3>1 DEF upgradable
  <2>3. CASE j # i \/ written[i][k] = NoRow
    <3>1. Passed(j, RowCount + k) /\ Passed(j, k) /\ written[j][k] = NoRow
      <4>1. Passed(j, RowCount + k) /\ written[j][k] = NoRow
        BY <1>1, <1>2, <1>4, <2>3 DEF Passed, running
      <4>2. seed[j].at \in Nat /\ k \in Nat
        BY CountAssumption DEF IInv, TypeOK, Run, Key
      <4> QED
        BY <4>1, <4>2, CountAssumption DEF Passed
    <3>2. rows[k] # NoRow /\ ~upgradable(seed[j].release, k, rows[k])
      BY <1>4, <3>1 DEF HoldInv
    <3>3. rows[k] \in Row /\ rows[k].version \in VersionsOf(k)
      BY <3>2 DEF IInv, TypeOK, VersionsAreKnown
    <3>4. \/ rows'[k] = rows[k]
          \/ /\ upgradable(seed[i].release, k, rows[k])
             /\ rows'[k] = upgraded(seed[i].release, k, rows[k])
      BY <3>2, CommittedRow
    <3> QED
      BY <2>1, <3>2, <3>3, <3>4, UpgradesStayReplaced
  <2> QED
    BY <2>2, <2>3
<1>5. \A j \in Seeder : seed'[j].state = "idle" => seed'[j].at = 1
  BY <1>1 DEF HoldInv
<1> QED
  BY <1>1, <1>3, <1>4, <1>5 DEF HoldInv, Passed, running, upgradable

\* A person's row counts as touched for every seed that has begun.
LEMMA WriteHolds ==
  ASSUME IInv, HoldInv, NEW k \in Key, NEW row \in PersonsRows[k], Write(k, row)
  PROVE  HoldInv'
<1>1. row # NoRow
  BY RowAssumption, NoRowIsNoRow
<1>2. \A i \in Seeder : /\ seed'[i].release = seed[i].release /\ seed'[i].state = seed[i].state
                        /\ seed'[i].at = seed[i].at
                        /\ seed[i].touched \subseteq seed'[i].touched
                        /\ seed[i].state # "idle" => k \in seed'[i].touched
  BY DEF Write, IInv, TypeOK, Run
<1>3. /\ written' = written /\ rows'[k] = row
      /\ \A l \in Key \ {k} : rows'[l] = rows[l]
  BY DEF Write, IInv, TypeOK
<1>4. \A i \in Seeder : \A n : Passed(i, n)' => Passed(i, n) /\ seed[i].state # "idle"
  BY <1>2 DEF Passed, running
<1> QED
  BY <1>1, <1>2, <1>3, <1>4 DEF HoldInv, upgradable

\* Every step keeps it.
LEMMA NextHoldInv == ASSUME IInv, HoldInv, [Next]_vars PROVE HoldInv'
<1>1. CASE UNCHANGED vars
  BY <1>1 DEF vars, HoldInv, Passed, running, upgradable
<1>2. ASSUME NEW i \in Seeder, Begin(i) PROVE HoldInv'
  <2>1. /\ rows' = rows /\ written' = written /\ seed[i].state = "idle"
        /\ \A j \in Seeder : /\ seed'[j].release = seed[j].release /\ seed'[j].at = seed[j].at
                             /\ seed'[j].touched = seed[j].touched
        /\ \A j \in Seeder \ {i} : seed'[j] = seed[j]
        /\ seed'[i].state = "running"
    BY <1>2 DEF Begin, IInv, TypeOK, Run
  <2>2. seed[i].at = 1
    BY <2>1 DEF HoldInv
  <2>3. \A k \in Key : ~Passed(i, k)' /\ ~Passed(i, RowCount + k)'
    BY <2>1, <2>2, CountAssumption DEF Passed, Key
  <2>4. \A j \in Seeder \ {i} : \A n : Passed(j, n)' <=> Passed(j, n)
    BY <2>1 DEF Passed, running
  <2> QED
    BY <2>1, <2>3, <2>4 DEF HoldInv, upgradable
<1>3. ASSUME NEW i \in Seeder, RollBack(i) PROVE HoldInv'
  <2>1. /\ rows' = rows
        /\ \A j \in Seeder, k \in Key : j # i => written'[j][k] = written[j][k]
        /\ \A j \in Seeder \ {i} : seed'[j] = seed[j]
        /\ seed'[i].state = "rolled_back"
    BY <1>3 DEF RollBack, End, IInv, TypeOK, Run
  <2>2. \A n : ~Passed(i, n)'
    BY <2>1 DEF Passed, running
  <2>3. \A j \in Seeder \ {i} : \A n : Passed(j, n)' <=> Passed(j, n)
    BY <2>1 DEF Passed, running
  <2> QED
    BY <2>1, <2>2, <2>3 DEF HoldInv, upgradable
<1> QED
  BY <1>1, <1>2, <1>3, StatementHolds, CommitHolds, WriteHolds DEF Next, Step

\* A seed that committed took hold, whatever other seeds and persons did meanwhile.
THEOREM CommittedSeedsTookHold == Spec => []SeedTakesHold
<1>1. Init => HoldInv
  BY CountAssumption DEF Init, HoldInv, Passed, running
<1>2. ASSUME IInv, HoldInv PROVE SeedTakesHold
  <2> SUFFICES ASSUME NEW i \in Seeder, seed[i].state = "committed", NEW k \in Key
               PROVE  /\ rows[k] # NoRow
                      /\ k \notin seed[i].touched => ~upgradable(seed[i].release, k, rows[k])
    BY DEF SeedTakesHold
  <2>1. written[i][k] = NoRow
    BY <1>2 DEF IInv, TypeOK, running
  <2> QED
    BY <1>2, <2>1 DEF HoldInv, Passed
<1> QED
  BY <1>1, <1>2, InitIInv, NextIInv, NextHoldInv, PTL DEF Spec
===============================================================================
