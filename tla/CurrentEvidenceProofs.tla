------------------------- MODULE CurrentEvidenceProofs -------------------------
(* Theorems about CurrentEvidence. *)
EXTENDS CurrentEvidence, LeastNumber

\* What a request holds between two of its statements comes from its snapshot.
HeldFromSnapshot(q) ==
  /\ phase[q] \in {"ranked", "switched"} => got[q].latest = latest_per_source(snap[q].rows)
  /\ phase[q] = "switched" => got[q].engaged = snap[q].switches

AnsweredFromSnapshot(q) ==
  phase[q] = "answered" =>
    LET then == latest_per_source(snap[q].rows)
        at == answer[q].at
    IN answer[q] \in {terminal_detail(then, snap[q].registry, at),
                      source_health(then, snap[q].switches, snap[q].registry, at)}

ReaderMaps ==
  /\ DOMAIN phase = Request /\ DOMAIN snap = Request
  /\ DOMAIN got = Request /\ DOMAIN answer = Request

IInv ==
  /\ ReaderMaps
  /\ \A q \in Request : HeldFromSnapshot(q) /\ AnsweredFromSnapshot(q)

\* A response carries the time it was given.
LEMMA AnswersAreStamped ==
  ASSUME NEW latest, NEW engaged, NEW register, NEW at
  PROVE  /\ terminal_detail(latest, register, at).at = at
         /\ source_health(latest, engaged, register, at).at = at
BY DEF terminal_detail, source_health

\* A request whose own state a step leaves alone keeps what it had.
LEMMA RequestUntouched ==
  ASSUME NEW q \in Request, HeldFromSnapshot(q), AnsweredFromSnapshot(q),
         phase'[q] = phase[q], snap'[q] = snap[q], got'[q] = got[q], answer'[q] = answer[q]
  PROVE  HeldFromSnapshot(q)' /\ AnsweredFromSnapshot(q)'
BY DEF HeldFromSnapshot, AnsweredFromSnapshot

\* One statement of one request: what it returns is read from the request's snapshot.
LEMMA ReadKeeps ==
  ASSUME IInv, NEW q \in Request, Read(q)
  PROVE  IInv'
<1>1. ReaderMaps'
  BY DEF IInv, ReaderMaps, Read, read_snapshot, Rank, get_terminal_detail, ReadSwitches,
         list_source_health
<1>2. ASSUME NEW p \in Request, p # q
      PROVE  HeldFromSnapshot(p)' /\ AnsweredFromSnapshot(p)'
  <2>1. /\ phase'[p] = phase[p] /\ snap'[p] = snap[p]
        /\ got'[p] = got[p] /\ answer'[p] = answer[p]
    BY <1>2 DEF IInv, ReaderMaps, Read, read_snapshot, Rank, get_terminal_detail, ReadSwitches,
                list_source_health
  <2> QED
    BY <2>1, RequestUntouched DEF IInv
<1>3. HeldFromSnapshot(q)' /\ AnsweredFromSnapshot(q)'
  <2>1. CASE read_snapshot(q)
    BY <2>1 DEF IInv, ReaderMaps, read_snapshot, HeldFromSnapshot, AnsweredFromSnapshot
  <2>2. CASE Rank(q)
    BY <2>2 DEF IInv, ReaderMaps, Rank, Visible, HeldFromSnapshot, AnsweredFromSnapshot
  <2>3. CASE get_terminal_detail(q)
    <3>1. /\ phase'[q] = "answered" /\ snap'[q] = snap[q]
          /\ answer'[q] = terminal_detail(got[q].latest, snap[q].registry, got[q].at)
      BY <2>3 DEF IInv, ReaderMaps, get_terminal_detail, Visible
    <3>2. got[q].latest = latest_per_source(snap[q].rows)
      BY <2>3 DEF IInv, HeldFromSnapshot, get_terminal_detail
    <3>3. answer'[q].at = got[q].at
      BY <3>1, AnswersAreStamped
    <3> QED
      BY <3>1, <3>2, <3>3 DEF HeldFromSnapshot, AnsweredFromSnapshot
  <2>4. CASE ReadSwitches(q)
    BY <2>4 DEF IInv, ReaderMaps, ReadSwitches, Visible, HeldFromSnapshot, AnsweredFromSnapshot
  <2>5. CASE list_source_health(q)
    <3>1. /\ phase'[q] = "answered" /\ snap'[q] = snap[q]
          /\ answer'[q] = source_health(got[q].latest, got[q].engaged, snap[q].registry, got[q].at)
      BY <2>5 DEF IInv, ReaderMaps, list_source_health, Visible
    <3>2. got[q].latest = latest_per_source(snap[q].rows) /\ got[q].engaged = snap[q].switches
      BY <2>5 DEF IInv, HeldFromSnapshot, list_source_health
    <3>3. answer'[q].at = got[q].at
      BY <3>1, AnswersAreStamped
    <3> QED
      BY <3>1, <3>2, <3>3 DEF HeldFromSnapshot, AnsweredFromSnapshot
  <2> QED
    BY <2>1, <2>2, <2>3, <2>4, <2>5 DEF Read
<1> QED
  BY <1>1, <1>2, <1>3 DEF IInv

LEMMA OneMomentInductive ==
  /\ Init => IInv
  /\ IInv /\ [Next]_vars => IInv'
<1>1. Init => IInv
  BY DEF Init, IInv, ReaderMaps, HeldFromSnapshot, AnsweredFromSnapshot
<1>2. ASSUME IInv, [Next]_vars
      PROVE  IInv'
  <2>1. CASE UNCHANGED readers
    <3>1. phase' = phase /\ snap' = snap /\ got' = got /\ answer' = answer
      BY <2>1 DEF readers
    <3> QED
      BY <1>2, <3>1, RequestUntouched DEF IInv, ReaderMaps
  <2>2. CASE \E q \in Request : Read(q)
    BY <1>2, <2>2, ReadKeeps
  <2>3. [Next]_vars => UNCHANGED readers \/ \E q \in Request : Read(q)
    BY DEF Next, vars, readers, Tick, Operator, Write, Open, Close, append
  <2> QED
    BY <1>2, <2>1, <2>2, <2>3
<1> QED
  BY <1>1, <1>2

\* Every response, of any number of requests interleaved with any commits and register changes,
\* is what the database said at one moment (ADR-004 "Isolation").
THEOREM OneMoment == Spec => []AnswersAreOneMoment
<1>1. IInv => AnswersAreOneMoment
  BY DEF IInv, AnswersAreOneMoment, AnsweredFromSnapshot
<1> QED
  BY <1>1, OneMomentInductive, PTL DEF Spec

-------------------------------------------------------------------------------
(* The ranking has a first row *)

\* Every nonempty part of these rows has a row that comes first.
Ranked(all) ==
  \A part \in SUBSET all : part # {} =>
    \E first \in part : \A other \in part : Outranks(first, other)

\* The ranking orders any two rows, and is transitive.
LEMMA OutranksOrders ==
  ASSUME NEW a \in Row, NEW b \in Row, NEW c \in Row
  PROVE  /\ Outranks(a, b) \/ Outranks(b, a)
         /\ Outranks(a, b) /\ Outranks(b, c) => Outranks(a, c)
<1>1. \A row \in Row : row.observed_at \in Nat /\ row.recorded_at \in Nat /\ row.id \in Nat
  BY TimeAssumption DEF Row, Time, Id
<1> QED
  BY <1>1 DEF Outranks

\* Of the first rows of two parts, one comes first in both.
LEMMA RankedUnion ==
  ASSUME NEW A \in SUBSET Row, NEW B \in SUBSET Row, Ranked(A), Ranked(B)
  PROVE  Ranked(A \cup B)
<1> SUFFICES ASSUME NEW part \in SUBSET (A \cup B), part # {}
             PROVE  \E first \in part : \A other \in part : Outranks(first, other)
  BY DEF Ranked
<1>1. CASE part \cap A = {}
  <2>1. part \in SUBSET B
    BY <1>1
  <2> QED
    BY <2>1 DEF Ranked
<1>2. CASE part \cap B = {}
  <2>1. part \in SUBSET A
    BY <1>2
  <2> QED
    BY <2>1 DEF Ranked
<1>3. CASE part \cap A # {} /\ part \cap B # {}
  <2>1. PICK a \in part \cap A : \A other \in part \cap A : Outranks(a, other)
    <3>1. part \cap A \in SUBSET A
      OBVIOUS
    <3> QED
      BY <1>3, <3>1 DEF Ranked
  <2>2. PICK b \in part \cap B : \A other \in part \cap B : Outranks(b, other)
    <3>1. part \cap B \in SUBSET B
      OBVIOUS
    <3> QED
      BY <1>3, <3>1 DEF Ranked
  <2>3. a \in Row /\ b \in Row /\ part \subseteq Row
    OBVIOUS
  <2>4. CASE Outranks(a, b)
    BY <2>1, <2>2, <2>3, <2>4, OutranksOrders
  <2>5. CASE Outranks(b, a)
    BY <2>1, <2>2, <2>3, <2>5, OutranksOrders
  <2> QED
    BY <2>3, <2>4, <2>5, OutranksOrders
<1> QED
  BY <1>1, <1>2, <1>3

LEMMA RankedSingle == ASSUME NEW row \in Row PROVE Ranked({row})
<1>1. Outranks(row, row)
  BY OutranksOrders
<1> SUFFICES ASSUME NEW part \in SUBSET {row}, part # {}
             PROVE  \E first \in part : \A other \in part : Outranks(first, other)
  BY DEF Ranked
<1>2. part = {row}
  OBVIOUS
<1> QED
  BY <1>1, <1>2

-------------------------------------------------------------------------------
(* What is true of a table of observations *)

Leaf(row, all) == row \in all /\ \A other \in all : other.supersedes # row.id

\* Ids identify rows, a row supersedes an earlier one of its own source or none, no source has
\* had all its rows superseded, and rows are ranked.
Sound(all) ==
  /\ all \subseteq Row
  /\ \A a, b \in all : a.id = b.id => a = b
  /\ \A row \in all : row.supersedes # 0 =>
       \E old \in all : old.id = row.supersedes /\ old.source = row.source
  /\ \A row \in all : \E leaf \in all : Leaf(leaf, all) /\ leaf.source = row.source
  /\ Ranked(all)

\* In a sound table every observed source has a current row: one that no other row supersedes,
\* and that comes first among those.
LEMMA LatestIsALeaf ==
  ASSUME NEW all, Sound(all)
  PROVE  LET latest == latest_per_source(all) IN
         /\ DOMAIN latest = { row.source : row \in all }
         /\ \A s \in DOMAIN latest :
              /\ Leaf(latest[s], all) /\ latest[s].source = s
              /\ \A row \in all : row.source = s /\ Leaf(row, all) => Outranks(latest[s], row)
<1> DEFINE leaves == { row \in all : row.id \notin superseded(all) }
           chosen == UNION { First(leaves, s) : s \in Source }
<1>1. \A row : row \in leaves <=> Leaf(row, all)
  BY DEF superseded, Leaf
<1>2. \A row : row \in chosen <=> row.source \in Source /\ row \in First(leaves, row.source)
  BY DEF First
<1>3. ASSUME NEW row \in all PROVE \E first \in chosen : first.source = row.source
  <2> DEFINE part == { leaf \in leaves : leaf.source = row.source }
  <2>1. part # {} /\ part \in SUBSET all
    BY <1>1 DEF Sound
  <2>2. PICK first \in part : \A other \in part : Outranks(first, other)
    BY <2>1 DEF Sound, Ranked
  <2>3. first \in First(leaves, row.source) /\ first.source = row.source
    BY <2>2 DEF First
  <2>4. row.source \in Source
    BY DEF Sound, Row
  <2> QED
    BY <1>2, <2>3, <2>4
<1>4. \A row \in chosen : row \in all
  BY <1>2 DEF First
<1>5. latest_per_source(all) = AsMapping(chosen)
  BY DEF latest_per_source
<1> HIDE DEF chosen
<1>6. DOMAIN latest_per_source(all) = { row.source : row \in all }
  BY <1>3, <1>4, <1>5 DEF AsMapping
<1>7. ASSUME NEW s \in { row.source : row \in all }
      PROVE  latest_per_source(all)[s] \in chosen /\ latest_per_source(all)[s].source = s
  <2>1. \E row \in chosen : row.source = s
    BY <1>3
  <2>2. s \in { row.source : row \in chosen }
    BY <2>1
  <2>3. latest_per_source(all)[s] = CHOOSE row \in chosen : row.source = s
    BY <1>5, <2>2 DEF AsMapping
  <2> QED
    BY <2>1, <2>3
<1>8. ASSUME NEW s \in { row.source : row \in all }
      PROVE  LET row == latest_per_source(all)[s] IN
             /\ Leaf(row, all)
             /\ \A other \in all : other.source = s /\ Leaf(other, all) => Outranks(row, other)
  BY <1>1, <1>2, <1>7 DEF First
<1> QED
  BY <1>6, <1>7, <1>8

-------------------------------------------------------------------------------
(* The tables that runs make are sound *)

\* Rows come from before the runs or from a run that has closed.
Numbered(all) ==
  \A row \in all :
    \/ row.id <= SourceCount
    \/ \E r \in Run : run[r].stage = "closed" /\ row.id = IdOf(r, row.source)

\* What an open run holds: a row of its own per source at most, each superseding a row that the
\* run has seen, and so has the table, or none.
Batch(r) ==
  /\ run[r].sees \subseteq rows /\ run[r].batch \subseteq Row
  /\ run[r].stage # "open" => run[r].batch = {}
  /\ \A row \in run[r].batch :
       /\ row.id = IdOf(r, row.source)
       /\ row.supersedes # 0 =>
            \E old \in run[r].sees : old.id = row.supersedes /\ old.source = row.source
  /\ \A a, b \in run[r].batch : a.source = b.source => a = b
  /\ Ranked(run[r].batch)

RunType ==
  run \in [Run -> [stage : {"new", "open", "closed"}, started : Time,
                   sees : SUBSET Row, batch : SUBSET Row]]

TableInv ==
  /\ now \in Time /\ RunType
  /\ registry \in [Source -> Entry] /\ switches \subseteq KillSwitch
  /\ Sound(rows) /\ Numbered(rows)
  /\ \A r \in Run : Batch(r)

\* Two runs give different ids, and none gives an id of an earlier history.
LEMMA IdsAreDistinct ==
  ASSUME NEW r \in Run, NEW q \in Run, NEW s \in Source, NEW t \in Source
  PROVE  /\ IdOf(r, s) \in Id /\ IdOf(r, s) > SourceCount
         /\ IdOf(r, s) = IdOf(q, t) => r = q /\ s = t
<1> DEFINE n == SourceCount
<1>1. /\ r \in Nat /\ r >= 1 /\ q \in Nat /\ q >= 1 /\ n \in Nat /\ n >= 1
      /\ s \in Nat /\ 1 <= s /\ s <= n /\ t \in Nat /\ 1 <= t /\ t <= n
  BY RunAssumption, SourceCountAssumption DEF Source
<1> HIDE DEF n
<1>2. r * n \in Nat /\ q * n \in Nat /\ r * n >= n
  BY <1>1
<1>3. r < q => r * n + n <= q * n
  <2> SUFFICES ASSUME r < q PROVE r * n + n <= q * n
    OBVIOUS
  <2>1. r + 1 <= q
    BY <1>1
  <2>2. (r + 1) * n = r * n + n
    BY <1>1
  <2>3. (r + 1) * n <= q * n
    BY <1>1, <2>1
  <2> QED
    BY <2>2, <2>3
<1>4. q < r => q * n + n <= r * n
  <2> SUFFICES ASSUME q < r PROVE q * n + n <= r * n
    OBVIOUS
  <2>1. q + 1 <= r
    BY <1>1
  <2>2. (q + 1) * n = q * n + n
    BY <1>1
  <2>3. (q + 1) * n <= r * n
    BY <1>1, <2>1
  <2> QED
    BY <2>2, <2>3
<1>5. IdOf(r, s) = r * n + s /\ IdOf(q, t) = q * n + t
  BY DEF IdOf, n
<1>6. IdOf(r, s) \in Id /\ IdOf(r, s) > n
  BY <1>1, <1>2, <1>5 DEF Id
<1>7. ASSUME IdOf(r, s) = IdOf(q, t) PROVE r = q /\ s = t
  <2>1. ~(r < q)
    BY <1>1, <1>2, <1>3, <1>5, <1>7
  <2>2. ~(q < r)
    BY <1>1, <1>2, <1>4, <1>5, <1>7
  <2>3. r = q
    BY <1>1, <2>1, <2>2
  <2> QED
    BY <1>1, <1>2, <1>5, <1>7, <2>3
<1> QED
  BY <1>6, <1>7 DEF n

\* The rows of an open run are new to the table: no row has their ids, none supersedes them.
LEMMA BatchIsNew ==
  ASSUME TableInv, NEW r \in Run, NEW row \in run[r].batch, NEW other \in rows
  PROVE  other.id # row.id /\ other.supersedes # row.id
<1>1. run[r].stage = "open" /\ row \in Row /\ row.source \in Source /\ row.id = IdOf(r, row.source)
  BY DEF TableInv, Batch, Row
<1>2. ASSUME NEW x \in rows PROVE x.id # row.id
  <2>1. x \in Row /\ x.source \in Source
    BY DEF TableInv, Sound, Row
  <2>2. row.id > SourceCount
    BY <1>1, IdsAreDistinct
  <2>3. \A q \in Run : IdOf(q, x.source) = row.id => q = r
    BY <1>1, <2>1, IdsAreDistinct
  <2>4. CASE x.id <= SourceCount
    BY <1>1, <2>1, <2>2, <2>4, SourceCountAssumption DEF Row, Id
  <2>5. CASE \E q \in Run : run[q].stage = "closed" /\ x.id = IdOf(q, x.source)
    BY <1>1, <2>3, <2>5
  <2> QED
    BY <2>4, <2>5 DEF TableInv, Numbered
<1>3. other.supersedes # row.id
  <2> SUFFICES ASSUME other.supersedes = row.id PROVE FALSE
    OBVIOUS
  <2>1. row.id # 0
    BY <1>1 DEF Row, Id
  <2>2. \E old \in rows : old.id = row.id
    BY <2>1 DEF TableInv, Sound
  <2> QED
    BY <1>2, <2>2
<1> QED
  BY <1>2, <1>3

\* A commit adds its batch to the table, and the table stays sound: the batch's rows are leaves,
\* and of the sources it says nothing about it supersedes nothing.
LEMMA CommitKeepsSound ==
  ASSUME TableInv, NEW r \in Run
  PROVE  Sound(rows \cup run[r].batch)
<1> DEFINE batch == run[r].batch
           all == rows \cup batch
<1>1. /\ Sound(rows) /\ Batch(r) /\ run[r].sees \subseteq rows /\ batch \subseteq Row
      /\ Ranked(batch)
  BY DEF TableInv, Batch
<1>2. all \subseteq Row
  BY <1>1 DEF Sound
<1>3. \A a, b \in batch : a.id = b.id => a = b
  <2> SUFFICES ASSUME NEW a \in batch, NEW b \in batch, a.id = b.id PROVE a = b
    OBVIOUS
  <2>1. /\ a.source \in Source /\ b.source \in Source
        /\ a.id = IdOf(r, a.source) /\ b.id = IdOf(r, b.source)
    BY <1>1 DEF Batch, Row
  <2>2. a.source = b.source
    BY <2>1, IdsAreDistinct
  <2> QED
    BY <1>1, <2>2 DEF Batch
<1>4. \A a, b \in all : a.id = b.id => a = b
  BY <1>1, <1>3, BatchIsNew DEF Sound
<1>5. \A row \in all : row.supersedes # 0 =>
        \E old \in rows : old.id = row.supersedes /\ old.source = row.source
  BY <1>1 DEF Sound, Batch
<1>6. ASSUME NEW row \in batch PROVE Leaf(row, all)
  <2>1. \A other \in batch : other.supersedes # row.id
    <3> SUFFICES ASSUME NEW other \in batch, other.supersedes = row.id PROVE FALSE
      OBVIOUS
    <3>1. row.id # 0
      BY <1>1, <1>6 DEF Row, Id
    <3>2. PICK old \in rows : old.id = row.id
      BY <1>5, <3>1
    <3> QED
      BY <1>6, <3>2, BatchIsNew
  <2> QED
    BY <1>6, <2>1, BatchIsNew DEF Leaf
<1>7. ASSUME NEW row \in all PROVE \E leaf \in all : Leaf(leaf, all) /\ leaf.source = row.source
  <2>1. CASE \E new \in batch : new.source = row.source
    BY <1>6, <2>1
  <2>2. CASE ~\E new \in batch : new.source = row.source
    <3>1. row \in rows
      BY <1>7, <2>2
    <3>2. PICK leaf \in rows : Leaf(leaf, rows) /\ leaf.source = row.source
      BY <1>1, <3>1 DEF Sound
    <3>3. ASSUME NEW new \in batch PROVE new.supersedes # leaf.id
      <4> SUFFICES ASSUME new.supersedes = leaf.id PROVE FALSE
        OBVIOUS
      <4>1. leaf.id # 0
        BY <1>1 DEF Sound, Row, Id
      <4>2. PICK old \in rows : old.id = leaf.id /\ old.source = new.source
        BY <1>5, <3>3, <4>1
      <4>3. old = leaf
        BY <1>1, <4>2 DEF Sound
      <4> QED
        BY <2>2, <3>2, <3>3, <4>2, <4>3
    <3> QED
      BY <3>2, <3>3 DEF Leaf
  <2> QED
    BY <2>1, <2>2
<1>8. Ranked(all)
  BY <1>1, RankedUnion DEF Sound
<1> QED
  BY <1>2, <1>4, <1>5, <1>7, <1>8 DEF Sound

LEMMA RankedEmpty == Ranked({})
BY DEF Ranked

\* The table before the first run: one row per source, numbered like it.
LEMMA HistoryIsSound ==
  ASSUME NEW history \in Histories
  PROVE  Sound(history) /\ \A row \in history : row.id <= SourceCount
<1>1. /\ history \subseteq [id : Source, source : Source, observed_at : {0}, recorded_at : {0},
                            state : States, supersedes : {0}]
      /\ \A row \in history : row.id = row.source
      /\ \A a, b \in history : a.source = b.source => a = b
  BY HistoryAssumption
<1>2. Source \subseteq Id /\ 0 \in Time /\ \A s \in Source : s <= SourceCount /\ s \in Nat /\ s # 0
  BY SourceCountAssumption, TimeAssumption DEF Source, Id, Time
<1>3. history \subseteq Row
  BY <1>1, <1>2 DEF Row
<1>4. \A row \in history : row.supersedes = 0 /\ row.id # 0 /\ row.id \in 0..SourceCount
  BY <1>1, <1>2, SourceCountAssumption
<1>5. Ranked(history)
  <2> SUFFICES ASSUME NEW part \in SUBSET history, part # {}
               PROVE  \E first \in part : \A other \in part : Outranks(first, other)
    BY DEF Ranked
  <2> DEFINE ids == { row.id : row \in part }
  <2>1. ids # {} /\ ids \subseteq 0..SourceCount
    BY <1>4
  <2>2. PICK greatest \in ids : \A id \in ids : id <= greatest
    BY <2>1, GreatestExists, SourceCountAssumption
  <2>3. PICK first \in part : first.id = greatest
    OBVIOUS
  <2>4. ASSUME NEW other \in part PROVE Outranks(first, other)
    <3>1. other.id <= first.id /\ other.id \in Nat /\ first.id \in Nat
      BY <1>4, <2>2, <2>3
    <3>2. /\ other.observed_at = 0 /\ first.observed_at = 0
          /\ other.recorded_at = 0 /\ first.recorded_at = 0
      BY <1>1
    <3> QED
      BY <3>1, <3>2 DEF Outranks
  <2> QED
    BY <2>4
<1> QED
  BY <1>1, <1>3, <1>4, <1>5 DEF Sound, Leaf

LEMMA InitialTable == ASSUME Init PROVE TableInv
<1>1. rows \in Histories /\ now = 0 /\ switches = {} /\ registry \in [Source -> Entry]
  BY RegisterAssumption DEF Init
<1>2. RunType
  BY TimeAssumption DEF Init, RunType, Time
<1>3. \A r \in Run : Batch(r)
  BY RankedEmpty DEF Init, Batch
<1>4. Sound(rows) /\ Numbered(rows)
  BY <1>1, HistoryIsSound DEF Numbered
<1> QED
  BY <1>1, <1>2, <1>3, <1>4, TimeAssumption DEF TableInv, Time

\* A run whose own state a step leaves alone keeps its batch while the table grows.
LEMMA BatchKept ==
  ASSUME NEW q \in Run, Batch(q), run'[q] = run[q], rows \subseteq rows'
  PROVE  Batch(q)'
BY DEF Batch

LEMMA OpenKeeps == ASSUME TableInv, NEW r \in Run, Open(r) PROVE TableInv'
<1>1. /\ run[r].stage = "new"
      /\ run' = [run EXCEPT ![r] = [@ EXCEPT !.stage = "open", !.started = now, !.sees = rows]]
      /\ UNCHANGED <<now, rows, registry, switches>>
  BY DEF Open
<1>2. /\ run'[r].stage = "open" /\ run'[r].sees = rows /\ run'[r].batch = {}
      /\ \A q \in Run \ {r} : run'[q] = run[q]
      /\ RunType'
  <2>1. run[r].batch = {} /\ rows \in SUBSET Row /\ now \in Time
    BY <1>1 DEF TableInv, Batch, Sound
  <2>2. run \in [Run -> [stage : {"new", "open", "closed"}, started : Time,
                        sees : SUBSET Row, batch : SUBSET Row]]
    BY DEF TableInv, RunType
  <2>3. [run[r] EXCEPT !.stage = "open", !.started = now, !.sees = rows]
          \in [stage : {"new", "open", "closed"}, started : Time,
               sees : SUBSET Row, batch : SUBSET Row]
    BY <2>1, <2>2
  <2> QED
    BY <1>1, <2>1, <2>2, <2>3 DEF RunType
<1>3. Batch(r)'
  BY <1>1, <1>2, RankedEmpty DEF Batch
<1>4. \A q \in Run : Batch(q)'
  BY <1>1, <1>2, <1>3, BatchKept DEF TableInv
<1>5. Numbered(rows)'
  BY <1>1, <1>2 DEF TableInv, Numbered
<1> QED
  BY <1>1, <1>2, <1>4, <1>5 DEF TableInv

LEMMA AppendKeeps ==
  ASSUME TableInv, NEW r \in Run, NEW s \in Source, NEW state \in States, NEW t \in 0..now,
         NEW old \in {0} \cup { o.id : o \in run[r].sees }, append(r, s, state, t, old)
  PROVE  TableInv'
<1> DEFINE row == [id |-> IdOf(r, s), source |-> s, observed_at |-> t,
                   recorded_at |-> run[r].started, state |-> state, supersedes |-> old]
<1>1. /\ run[r].stage = "open"
      /\ \A earlier \in run[r].batch : earlier.source < s
      /\ old # 0 => \E o \in run[r].sees : o.id = old /\ o.source = s
      /\ run' = [run EXCEPT ![r].batch = @ \cup {row}]
      /\ UNCHANGED <<now, rows, registry, switches>>
  BY DEF append
<1>2. row \in Row
  <2>1. old \in Id \cup {0}
    BY DEF TableInv, RunType, Row
  <2>2. t \in Time /\ run[r].started \in Time
    BY TimeAssumption DEF TableInv, RunType, Time
  <2>3. IdOf(r, s) \in Id
    BY IdsAreDistinct
  <2> QED
    BY <2>1, <2>2, <2>3 DEF Row
<1>3. row.id = IdOf(r, row.source) /\ row.source = s /\ row.supersedes = old
  OBVIOUS
<1> HIDE DEF row
<1>4. /\ run'[r].batch = run[r].batch \cup {row} /\ run'[r].sees = run[r].sees
      /\ run'[r].stage = "open"
      /\ \A q \in Run \ {r} : run'[q] = run[q]
      /\ RunType'
  BY <1>1, <1>2 DEF TableInv, RunType
<1>5. Batch(r)'
  <2>1. \A a, b \in run'[r].batch : a.source = b.source => a = b
    <3>1. \A earlier \in run[r].batch : earlier.source # s
      BY <1>1, SourceCountAssumption DEF Source
    <3> QED
      BY <1>3, <1>4, <3>1 DEF TableInv, Batch
  <2>2. Ranked(run'[r].batch)
    <3>1. run[r].batch \in SUBSET Row /\ Ranked(run[r].batch)
      BY DEF TableInv, Batch
    <3>2. {row} \in SUBSET Row /\ Ranked({row})
      BY <1>2, RankedSingle
    <3>3. Ranked(run[r].batch \cup {row})
      BY <3>1, <3>2, RankedUnion
    <3> QED
      BY <1>4, <3>3
  <2> QED
    BY <1>1, <1>2, <1>3, <1>4, <2>1, <2>2 DEF TableInv, Batch
<1>6. \A q \in Run : Batch(q)'
  BY <1>1, <1>4, <1>5, BatchKept DEF TableInv
<1>7. Numbered(rows)'
  BY <1>1, <1>4 DEF TableInv, Numbered
<1> QED
  BY <1>1, <1>4, <1>6, <1>7 DEF TableInv

LEMMA CloseKeeps == ASSUME TableInv, NEW r \in Run, Close(r) PROVE TableInv'
<1>1. /\ run[r].stage = "open"
      /\ run' = [run EXCEPT ![r] = [@ EXCEPT !.stage = "closed", !.sees = {}, !.batch = {}]]
      /\ rows' = rows \/ rows' = rows \cup run[r].batch
      /\ UNCHANGED <<now, registry, switches>>
  BY DEF Close
<1>2. /\ run'[r].stage = "closed" /\ run'[r].sees = {} /\ run'[r].batch = {}
      /\ \A q \in Run \ {r} : run'[q] = run[q]
      /\ RunType'
  BY <1>1 DEF TableInv, RunType
<1>3. Batch(r)'
  BY <1>2, RankedEmpty DEF Batch
<1>4. \A q \in Run : Batch(q)'
  BY <1>1, <1>2, <1>3, BatchKept DEF TableInv
<1>5. Sound(rows)'
  BY <1>1, CommitKeepsSound DEF TableInv
<1>6. Numbered(rows)'
  <2>1. ASSUME NEW row \in run[r].batch PROVE row.id = IdOf(r, row.source)
    BY DEF TableInv, Batch
  <2> QED
    BY <1>1, <1>2, <2>1 DEF TableInv, Numbered
<1> QED
  BY <1>1, <1>2, <1>4, <1>5, <1>6 DEF TableInv

LEMMA TableInductive == ASSUME TableInv, [Next]_vars PROVE TableInv'
<1>1. CASE UNCHANGED <<now, rows, registry, switches, run>>
  BY <1>1 DEF TableInv, RunType, Batch, Numbered
<1>2. CASE Tick
  BY <1>2, TimeAssumption DEF Tick, TableInv, RunType, Batch, Numbered, Time
<1>3. CASE Operator
  <2>1. registry' \in [Source -> Entry] /\ switches' \subseteq KillSwitch
    BY <1>3, RegisterAssumption DEF Operator, TableInv
  <2>2. UNCHANGED <<now, rows, run>>
    BY <1>3 DEF Operator
  <2> QED
    BY <2>1, <2>2 DEF TableInv, RunType, Batch, Numbered
<1>4. ASSUME NEW r \in Run, Write(r) PROVE TableInv'
  BY <1>4, OpenKeeps, AppendKeeps, CloseKeeps DEF Write
<1>5. ASSUME NEW q \in Request, Read(q) PROVE UNCHANGED <<now, rows, registry, switches, run>>
  BY <1>5 DEF Read, read_snapshot, Rank, get_terminal_detail, ReadSwitches, list_source_health
<1> QED
  BY <1>1, <1>2, <1>3, <1>4, <1>5 DEF Next, vars

\* In every reachable state the table of observations is sound (repositories.py, migration 0002).
LEMMA TableHolds == Spec => []TableInv
BY InitialTable, TableInductive, PTL DEF Spec

\* Every observed source keeps exactly one current observation, which no row has retired, however
\* many overlapping runs supersede the same rows.
THEOREM SourcesStayVisible == Spec => []ObservedSourcesStayVisible
<1>1. TableInv => ObservedSourcesStayVisible
  BY LatestIsALeaf DEF TableInv, ObservedSourcesStayVisible, current, Leaf
<1> QED
  BY <1>1, TableHolds, PTL

\* What is current of a source is only ever replaced by a reading at least as new, unless a new
\* row retires it by name.
THEOREM NeverBackwards == Spec => CurrentNeverRegresses
<1> DEFINE Moved(s) ==
      (\A row \in rows' \ rows : row.supersedes # current[s].id)
        => s \in DOMAIN current' /\ current'[s].observed_at >= current[s].observed_at
<1>1. ASSUME TableInv, TableInv', rows \subseteq rows', NEW s \in DOMAIN current PROVE Moved(s)
  <2> SUFFICES ASSUME \A row \in rows' \ rows : row.supersedes # current[s].id
               PROVE  s \in DOMAIN current' /\ current'[s].observed_at >= current[s].observed_at
    OBVIOUS
  <2>1. Leaf(current[s], rows) /\ current[s].source = s
    BY <1>1, LatestIsALeaf DEF TableInv, current
  <2>2. Leaf(current[s], rows')
    BY <1>1, <2>1 DEF Leaf
  <2>3. /\ DOMAIN current' = { row.source : row \in rows' }
        /\ \A x \in DOMAIN current' :
             /\ Leaf(current'[x], rows')
             /\ \A row \in rows' : row.source = x /\ Leaf(row, rows') => Outranks(current'[x], row)
    BY <1>1, LatestIsALeaf DEF TableInv, current
  <2>4. current[s] \in rows' /\ s \in DOMAIN current'
    BY <2>1, <2>2, <2>3 DEF Leaf
  <2>5. Outranks(current'[s], current[s]) /\ current'[s] \in rows'
    BY <2>1, <2>2, <2>3, <2>4 DEF Leaf
  <2>6. current[s].observed_at \in Nat /\ current'[s].observed_at \in Nat
    BY <1>1, <2>4, <2>5, TimeAssumption DEF TableInv, Sound, Row, Time
  <2> QED
    BY <2>4, <2>5, <2>6 DEF Outranks
<1>2. [Next]_vars => rows \subseteq rows'
  BY DEF Next, vars, Tick, Operator, Write, Open, Close, append, Read, read_snapshot, Rank,
         get_terminal_detail, ReadSwitches, list_source_health
<1>3. TableInv /\ TableInv' /\ [Next]_vars => [\A s \in DOMAIN current : Moved(s)]_vars
  BY <1>1, <1>2
<1> QED
  BY <1>3, TableHolds, PTL DEF Spec, CurrentNeverRegresses

-------------------------------------------------------------------------------
(* What requests read and answer *)

Phases == {"new", "pinned", "ranked", "switched", "answered"}

\* A snapshot is a sound database, and a request takes the time once.
ReaderInv(q) ==
  /\ phase[q] \in Phases
  /\ snap[q] \in Database /\ Sound(snap[q].rows)
  /\ phase[q] \in {"ranked", "switched"} => got[q].at \in Time
  /\ phase[q] = "answered" => answer[q].at \in Time

Readers == ReaderMaps /\ \A q \in Request : ReaderInv(q)

\* The committed database is one that a snapshot may show.
LEMMA CommittedDatabase ==
  ASSUME TableInv
  PROVE  db \in Database /\ db.rows = rows /\ Sound(db.rows)
BY DEF TableInv, Sound, Database, db

LEMMA ReadersInitially == ASSUME Init PROVE Readers
<1>1. \A q \in Request : snap[q] = db /\ phase[q] = "new"
  BY DEF Init
<1>2. ReaderMaps
  BY DEF Init, ReaderMaps
<1> QED
  BY <1>1, <1>2, InitialTable, CommittedDatabase DEF Readers, ReaderInv, Phases

LEMMA StatementKeeps ==
  ASSUME TableInv, Readers, NEW q \in Request, Read(q)
  PROVE  Readers'
<1>1. ReaderMaps'
  BY DEF Readers, ReaderMaps, Read, read_snapshot, Rank, get_terminal_detail, ReadSwitches,
         list_source_health
<1>2. ASSUME NEW p \in Request, p # q PROVE ReaderInv(p)'
  <2>1. /\ phase'[p] = phase[p] /\ snap'[p] = snap[p]
        /\ got'[p] = got[p] /\ answer'[p] = answer[p]
    BY <1>2 DEF Readers, ReaderMaps, Read, read_snapshot, Rank, get_terminal_detail, ReadSwitches,
                list_source_health
  <2> QED
    BY <2>1 DEF Readers, ReaderInv
<1>3. ReaderInv(q)'
  <2>1. CASE read_snapshot(q)
    <3>1. snap'[q] = db /\ phase'[q] = "pinned"
      BY <2>1 DEF Readers, ReaderMaps, read_snapshot
    <3> QED
      BY <3>1, CommittedDatabase DEF ReaderInv, Phases
  <2>2. CASE Rank(q)
    <3>1. snap'[q] = snap[q] /\ phase'[q] = "ranked" /\ got'[q].at = now
      BY <2>2 DEF Readers, ReaderMaps, Rank
    <3> QED
      BY <3>1 DEF Readers, ReaderInv, Phases, TableInv
  <2>3. CASE get_terminal_detail(q)
    <3>1. /\ phase[q] = "ranked" /\ snap'[q] = snap[q] /\ phase'[q] = "answered"
          /\ answer'[q] = terminal_detail(got[q].latest, snap[q].registry, got[q].at)
      BY <2>3 DEF Readers, ReaderMaps, get_terminal_detail, Visible
    <3>2. answer'[q].at = got[q].at
      BY <3>1, AnswersAreStamped
    <3> QED
      BY <3>1, <3>2 DEF Readers, ReaderInv, Phases
  <2>4. CASE ReadSwitches(q)
    <3>1. /\ phase[q] = "ranked" /\ snap'[q] = snap[q] /\ phase'[q] = "switched"
          /\ got'[q].at = got[q].at
      BY <2>4 DEF Readers, ReaderMaps, ReadSwitches
    <3> QED
      BY <3>1 DEF Readers, ReaderInv, Phases
  <2>5. CASE list_source_health(q)
    <3>1. /\ phase[q] = "switched" /\ snap'[q] = snap[q] /\ phase'[q] = "answered"
          /\ answer'[q] = source_health(got[q].latest, got[q].engaged, snap[q].registry, got[q].at)
      BY <2>5 DEF Readers, ReaderMaps, list_source_health, Visible
    <3>2. answer'[q].at = got[q].at
      BY <3>1, AnswersAreStamped
    <3> QED
      BY <3>1, <3>2 DEF Readers, ReaderInv, Phases
  <2> QED
    BY <2>1, <2>2, <2>3, <2>4, <2>5 DEF Read
<1> QED
  BY <1>1, <1>2, <1>3 DEF Readers

\* In every reachable state snapshots are sound and answers are what one of them says.
LEMMA ReadersHold == Spec => [](TableInv /\ Readers /\ AnswersAreOneMoment)
<1>1. ASSUME TableInv, Readers, [Next]_vars PROVE Readers'
  <2>1. CASE UNCHANGED readers
    BY <1>1, <2>1 DEF readers, Readers, ReaderMaps, ReaderInv
  <2>2. CASE \E q \in Request : Read(q)
    BY <1>1, <2>2, StatementKeeps
  <2>3. [Next]_vars => UNCHANGED readers \/ \E q \in Request : Read(q)
    BY DEF Next, vars, readers, Tick, Operator, Write, Open, Close, append
  <2> QED
    BY <1>1, <2>1, <2>2, <2>3
<1> QED
  BY <1>1, ReadersInitially, TableHolds, OneMoment, PTL DEF Spec

\* The types of the whole model: ids are a primary key, clocks stay in range, and no request
\* ever holds a database that was never committed whole.
THEOREM TypeCorrect == Spec => []TypeOK
<1>1. ASSUME TableInv, Readers PROVE TypeOK
  <2>1. now \in Time /\ db \in Database /\ \A a, b \in rows : a.id = b.id => a = b
    BY <1>1, CommittedDatabase DEF TableInv, Sound
  <2>2. \A r \in Run : run[r].stage \in {"new", "open", "closed"} /\ run[r].started \in Time
    BY <1>1 DEF TableInv, RunType
  <2>3. \A r \in Run : run[r].batch \cup run[r].sees \subseteq Row
    BY <1>1 DEF TableInv, RunType
  <2> QED
    BY <1>1, <2>1, <2>2, <2>3 DEF TypeOK, Readers, ReaderInv, Phases
<1> QED
  BY <1>1, ReadersHold, PTL

\* What a row says is positive of it when it is shown at a time.
LEMMA PositiveIsRecent ==
  ASSUME NEW row \in Row, NEW at \in Time, evidence_read(row, at).state \in POSITIVE_STATES
  PROVE  evidence_read(row, at).state = row.state /\ row.observed_at + Window >= at
<1>1. row.observed_at \in Nat /\ at \in Nat /\ Window \in Nat
  BY TimeAssumption DEF Row, Time
<1>2. "source_stale" \notin POSITIVE_STATES
  BY DEF POSITIVE_STATES, AbsenceClaim
<1>3. row.state \in POSITIVE_STATES /\ ~(at - row.observed_at > Window)
  BY <1>2 DEF evidence_read, effective
<1> QED
  BY <1>1, <1>3 DEF evidence_read, effective

\* Shown evidence is a current row of the snapshot, read at the time of the answer.
LEMMA CurrentIsShown ==
  ASSUME NEW all, Sound(all), NEW s \in DOMAIN latest_per_source(all), NEW at \in Time,
         evidence_read(latest_per_source(all)[s], at).state \in POSITIVE_STATES
  PROVE  LET e == evidence_read(latest_per_source(all)[s], at) IN
         \E row \in all :
           /\ row.id = e.id /\ row.state = e.state
           /\ row.observed_at + Window >= at
           /\ \A other \in all :
                other.source = row.source /\ other.observed_at > row.observed_at =>
                  other.id \in superseded(all)
<1> DEFINE row == latest_per_source(all)[s]
<1>1. /\ Leaf(row, all) /\ row.source = s
      /\ \A other \in all : other.source = s /\ Leaf(other, all) => Outranks(row, other)
  BY LatestIsALeaf
<1> HIDE DEF row
<1>2. row \in all /\ row \in Row
  BY <1>1 DEF Leaf, Sound
<1>3. row.state = evidence_read(row, at).state /\ row.observed_at + Window >= at
  BY <1>2, PositiveIsRecent DEF row
<1>4. ASSUME NEW other \in all, other.source = s, other.observed_at > row.observed_at
      PROVE  other.id \in superseded(all)
  <2>1. other.observed_at \in Nat /\ row.observed_at \in Nat
    BY <1>2, TimeAssumption DEF Sound, Row, Time
  <2>2. ~Outranks(row, other)
    BY <1>4, <2>1 DEF Outranks
  <2>3. ~Leaf(other, all)
    BY <1>1, <1>4, <2>2
  <2> QED
    BY <2>3 DEF Leaf, superseded
<1>5. row.id = evidence_read(row, at).id
  BY DEF evidence_read
<1> QED
  BY <1>1, <1>2, <1>3, <1>4, <1>5 DEF row

\* The current observation of a source is a row of the table, and of that source.
LEMMA CurrentIsARow ==
  ASSUME NEW all, Sound(all), NEW s \in DOMAIN latest_per_source(all)
  PROVE  LET row == latest_per_source(all)[s] IN
         row \in all /\ row \in Row /\ row.source = s /\ row.observed_at \in Time
<1> DEFINE row == latest_per_source(all)[s]
<1>1. Leaf(row, all) /\ row.source = s
  BY LatestIsALeaf
<1> HIDE DEF row
<1>2. row \in all /\ row \in Row
  BY <1>1 DEF Leaf, Sound
<1>3. row.observed_at \in Time
  BY <1>2 DEF Row
<1> QED
  BY <1>1, <1>2, <1>3 DEF row

\* What a row of the health table shows of its source.
LEMMA HealthShows ==
  ASSUME NEW s, NEW latest, NEW engaged, NEW register, NEW at
  PROVE  health_row(s, latest, engaged, register, at).latest =
           IF s \in DOMAIN latest THEN evidence_read(latest[s], at) ELSE NoEvidence
BY DEF health_row

\* The newest of the observed sources exists: max() is given a nonempty sequence.
LEMMA NewestIsObserved ==
  ASSUME NEW latest, NEW observed, observed \subseteq Source, observed # {},
         \A s \in observed : latest[s].observed_at \in Time
  PROVE  /\ newest(latest, observed) \in observed
         /\ \A s \in observed :
              latest[s].observed_at <= latest[newest(latest, observed)].observed_at
<1> DEFINE times == { latest[s].observed_at : s \in observed }
<1>1. times # {} /\ times \subseteq 0..MaxTime /\ times \subseteq Nat
  BY TimeAssumption DEF Time
<1>2. PICK greatest \in times : \A time \in times : time <= greatest
  BY <1>1, GreatestExists, TimeAssumption
<1> DEFINE firsts == { s \in observed : latest[s].observed_at = greatest }
<1>3. firsts # {} /\ firsts \subseteq Nat
  <2>1. \E s \in observed : latest[s].observed_at = greatest
    OBVIOUS
  <2>2. observed \subseteq Nat
    BY SourceCountAssumption DEF Source
  <2> QED
    BY <2>1, <2>2
<1>4. PICK s \in firsts : \A t \in firsts : s <= t
  BY <1>3, LeastExists
<1>5. \A t \in observed : latest[t].observed_at <= latest[s].observed_at
  BY <1>2
<1>6. \A t \in observed :
        \/ latest[s].observed_at > latest[t].observed_at
        \/ latest[s].observed_at = latest[t].observed_at /\ s <= t
  <2> SUFFICES ASSUME NEW t \in observed, latest[s].observed_at <= latest[t].observed_at
               PROVE  latest[s].observed_at = latest[t].observed_at /\ s <= t
    BY <1>1
  <2>1. latest[s].observed_at = latest[t].observed_at
    BY <1>1, <1>5
  <2> QED
    BY <1>4, <2>1
<1>7. LET n == newest(latest, observed) IN
      /\ n \in observed
      /\ \A t \in observed : \/ latest[n].observed_at > latest[t].observed_at
                             \/ latest[n].observed_at = latest[t].observed_at /\ n <= t
  BY <1>6 DEF newest
<1> QED
  BY <1>1, <1>7

\* A positive statement, in a headline, a source list or the health table, is at most the window
\* old, and everything newer of the same source that the reader could know is retired (SRC-008).
THEOREM PositiveIsFresh == Spec => []PositiveMeansRecentlyRead
<1> DEFINE Backed(e, q) ==
      \E row \in snap[q].rows :
        /\ row.id = e.id /\ row.state = e.state
        /\ row.observed_at + Window >= answer[q].at
        /\ \A other \in snap[q].rows :
             other.source = row.source /\ other.observed_at > row.observed_at =>
               other.id \in superseded(snap[q].rows)
<1>1. ASSUME Readers, AnswersAreOneMoment, NEW q \in Request, phase[q] = "answered"
      PROVE  \A e \in IF answer[q].kind = "health"
                      THEN { answer[q].rows[s].latest : s \in Source }
                      ELSE { answer[q].sources[s] : s \in TerminalSources } \cup {answer[q].headline} :
               e.state \in POSITIVE_STATES => Backed(e, q)
  <2> DEFINE then == latest_per_source(snap[q].rows)
             at == answer[q].at
             observed == Observed(then, snap[q].registry)
  <2>1. Sound(snap[q].rows) /\ at \in Time
    BY <1>1 DEF Readers, ReaderInv
  <2>2. ASSUME NEW s \in DOMAIN then, evidence_read(then[s], at).state \in POSITIVE_STATES
        PROVE  Backed(evidence_read(then[s], at), q)
    BY <2>1, <2>2, CurrentIsShown
  <2>3. NoEvidence.state \notin POSITIVE_STATES
    BY DEF NoEvidence, POSITIVE_STATES, AbsenceClaim
  <2>4. observed # {} => newest(then, observed) \in DOMAIN then
    <3> SUFFICES ASSUME observed # {} PROVE newest(then, observed) \in DOMAIN then
      OBVIOUS
    <3>1. observed \subseteq DOMAIN then /\ observed \subseteq Source
      BY TerminalAssumption DEF Observed
    <3>2. \A s \in observed : then[s].observed_at \in Time
      BY <2>1, <3>1, CurrentIsARow
    <3> QED
      BY <3>1, <3>2, NewestIsObserved
  <2>5. CASE answer[q] = terminal_detail(then, snap[q].registry, at)
    <3>1. /\ answer[q].kind = "terminal"
          /\ answer[q].headline = IF observed = {} THEN NoEvidence
                                  ELSE evidence_read(then[newest(then, observed)], at)
          /\ \A s \in TerminalSources :
               answer[q].sources[s] = IF s \in observed THEN evidence_read(then[s], at)
                                      ELSE NoEvidence
      BY <2>5 DEF terminal_detail
    <3>2. \A s \in observed : s \in DOMAIN then
      BY DEF Observed
    <3> HIDE DEF then, at, observed, Backed
    <3>3. ASSUME NEW s \in TerminalSources, answer[q].sources[s].state \in POSITIVE_STATES
          PROVE  Backed(answer[q].sources[s], q)
      BY <2>2, <2>3, <3>1, <3>2, <3>3
    <3>4. ASSUME answer[q].headline.state \in POSITIVE_STATES
          PROVE  Backed(answer[q].headline, q)
      BY <2>2, <2>3, <2>4, <3>1, <3>4
    <3> QED
      BY <3>1, <3>3, <3>4
  <2>6. CASE answer[q] = source_health(then, snap[q].switches, snap[q].registry, at)
    <3>1. /\ answer[q].kind = "health"
          /\ \A s \in Source :
               answer[q].rows[s] = health_row(s, then, snap[q].switches, snap[q].registry, at)
      BY <2>6 DEF source_health
    <3>2. \A s \in Source :
            answer[q].rows[s].latest = IF s \in DOMAIN then THEN evidence_read(then[s], at)
                                       ELSE NoEvidence
      BY <3>1, HealthShows
    <3> HIDE DEF then, at, observed, Backed
    <3>3. ASSUME NEW s \in Source, answer[q].rows[s].latest.state \in POSITIVE_STATES
          PROVE  Backed(answer[q].rows[s].latest, q)
      BY <2>2, <2>3, <3>2, <3>3
    <3> QED
      BY <3>1, <3>3
  <2> QED
    BY <1>1, <2>5, <2>6 DEF AnswersAreOneMoment
<1>2. Readers /\ AnswersAreOneMoment => PositiveMeansRecentlyRead
  BY <1>1 DEF PositiveMeansRecentlyRead
<1> QED
  BY <1>2, ReadersHold, PTL

\* Restricted sources speak for no terminal, neither in the headline nor in the list, and the
\* headline is the newest of what is listed (read_services.terminal_summary).
THEOREM HeadlineIsNewest == Spec => []HeadlineIsLicensedAndNewest
<1>1. ASSUME Readers, AnswersAreOneMoment, NEW q \in Request,
             phase[q] = "answered", answer[q].kind = "terminal"
      PROVE  LET Source_of(e) == { row.source : row \in { x \in snap[q].rows : x.id = e.id } }
                 Age(e) == { row.observed_at : row \in { x \in snap[q].rows : x.id = e.id } }
                 listed == { answer[q].sources[s] : s \in TerminalSources } \ {NoEvidence}
             IN /\ \A e \in listed \cup {answer[q].headline} : \A s \in Source_of(e) :
                     s \in TerminalSources /\ snap[q].registry[s].policy.review_state # "restricted"
                /\ (answer[q].headline = NoEvidence) <=> (listed = {})
                /\ \A e \in listed : \A t \in Age(e), h \in Age(answer[q].headline) : t <= h
  <2> DEFINE then == latest_per_source(snap[q].rows)
             at == answer[q].at
             observed == Observed(then, snap[q].registry)
             top == newest(then, observed)
  <2>1. Sound(snap[q].rows)
    BY <1>1 DEF Readers, ReaderInv
  <2>2. answer[q] = terminal_detail(then, snap[q].registry, at)
    <3>1. source_health(then, snap[q].switches, snap[q].registry, at).kind = "health"
      BY DEF source_health
    <3> QED
      BY <1>1, <3>1 DEF AnswersAreOneMoment
  <2>3. /\ answer[q].headline = IF observed = {} THEN NoEvidence ELSE evidence_read(then[top], at)
        /\ \A s \in TerminalSources :
             answer[q].sources[s] = IF s \in observed THEN evidence_read(then[s], at)
                                    ELSE NoEvidence
    BY <2>2 DEF terminal_detail
  <2>4. /\ observed \subseteq TerminalSources /\ observed \subseteq Source
        /\ \A s \in observed :
             /\ s \in DOMAIN then
             /\ snap[q].registry[s].policy.review_state # "restricted"
    BY TerminalAssumption DEF Observed, restricted
  <2>5. \A s \in observed : then[s] \in snap[q].rows /\ then[s] \in Row /\ then[s].source = s
    BY <2>1, <2>4, CurrentIsARow
  <2>6. observed # {} =>
          top \in observed /\ \A s \in observed : then[s].observed_at <= then[top].observed_at
    BY <2>4, <2>5, NewestIsObserved DEF Row
  \* The row behind shown evidence is the current one, and no row is behind NoEvidence.
  <2>7. ASSUME NEW s \in observed, NEW row \in snap[q].rows,
               row.id = evidence_read(then[s], at).id
        PROVE  row = then[s]
    BY <2>1, <2>5, <2>7 DEF evidence_read, Sound
  <2>8. \A row \in snap[q].rows : row.id # NoEvidence.id
    BY <2>1 DEF Sound, Row, Id, NoEvidence
  <2>9. \A s \in observed : evidence_read(then[s], at) # NoEvidence
    BY <2>5, <2>8 DEF evidence_read
  <2>10. ASSUME NEW e \in { answer[q].sources[s] : s \in TerminalSources } \cup {answer[q].headline}
         PROVE  e = NoEvidence \/ \E s \in observed : e = evidence_read(then[s], at)
    <3> HIDE DEF then, at, observed, top
    <3> QED
      BY <2>3, <2>6, <2>10
  <2> HIDE DEF then, at, observed, top
  <2>11. ASSUME NEW e \in { answer[q].sources[s] : s \in TerminalSources } \cup {answer[q].headline},
                NEW row \in snap[q].rows, row.id = e.id
         PROVE  /\ row.source \in TerminalSources
                /\ snap[q].registry[row.source].policy.review_state # "restricted"
    <3>1. PICK s \in observed : e = evidence_read(then[s], at)
      BY <2>8, <2>10, <2>11
    <3>2. row = then[s]
      BY <2>7, <2>11, <3>1
    <3> QED
      BY <2>4, <2>5, <3>1, <3>2
  <2>12. (answer[q].headline = NoEvidence)
           <=> ({ answer[q].sources[s] : s \in TerminalSources } \ {NoEvidence} = {})
    <3>1. CASE observed = {}
      BY <2>3, <3>1
    <3>2. CASE observed # {}
      <4>1. answer[q].headline # NoEvidence
        BY <2>3, <2>6, <2>9, <3>2
      <4>2. answer[q].sources[top] # NoEvidence /\ top \in TerminalSources
        BY <2>3, <2>4, <2>6, <2>9, <3>2
      <4> QED
        BY <4>1, <4>2
    <3> QED
      BY <3>1, <3>2
  <2>13. ASSUME NEW e \in { answer[q].sources[s] : s \in TerminalSources } \ {NoEvidence},
                NEW row \in snap[q].rows, row.id = e.id,
                NEW head \in snap[q].rows, head.id = answer[q].headline.id
         PROVE  row.observed_at <= head.observed_at
    <3>1. PICK s \in observed : e = evidence_read(then[s], at)
      BY <2>10
    <3>2. row = then[s]
      BY <2>7, <2>13, <3>1
    <3>3. top \in observed /\ answer[q].headline = evidence_read(then[top], at)
      BY <2>3, <2>6, <3>1
    <3>4. head = then[top]
      BY <2>7, <2>13, <3>3
    <3> QED
      BY <2>6, <3>1, <3>2, <3>4
  <2> QED
    BY <2>11, <2>12, <2>13
<1>2. Readers /\ AnswersAreOneMoment => HeadlineIsLicensedAndNewest
  BY <1>1 DEF HeadlineIsLicensedAndNewest
<1> QED
  BY <1>2, ReadersHold, PTL
===============================================================================
