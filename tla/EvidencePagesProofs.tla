-------------------------- MODULE EvidencePagesProofs --------------------------
(***************************************************************************)
(* What holds of the pages about terminals and sources for any number of   *)
(* terminals, sources and readings, however the register changes while a   *)
(* page is read and whichever reads fail.                                  *)
(***************************************************************************)
EXTENDS EvidencePages, LeastNumber, FiniteSetTheorems, SequenceTheorems

-------------------------------------------------------------------------------
(* The order of terminals *)

Before(S, t) == { other \in S : other < t }

\* Each element of a finite set of naturals has a place of its own among 1..Cardinality(S), in
\* their order, and every place is taken.
LEMMA Places ==
  ASSUME NEW S, S \subseteq Nat, IsFiniteSet(S)
  PROVE  /\ Cardinality(S) \in Nat
         /\ \A t \in S : t \in Nat /\ Cardinality(Before(S, t)) \in Nat
         /\ \A t \in S : Cardinality(Before(S, t)) + 1 \in 1..Cardinality(S)
         /\ \A t, u \in S : t < u => Cardinality(Before(S, t)) < Cardinality(Before(S, u))
         /\ \A i \in 1..Cardinality(S) : \E t \in S : Cardinality(Before(S, t)) = i - 1
<1> DEFINE n == Cardinality(S)
           place == [t \in S |-> Cardinality(Before(S, t)) + 1]
<1>1. n \in Nat
  BY FS_CardinalityType
<1>2. ASSUME NEW t \in S
      PROVE  /\ IsFiniteSet(Before(S, t)) /\ Cardinality(Before(S, t)) \in Nat
             /\ Cardinality(Before(S, t)) + 1 \in 1..n
  <2>1. Before(S, t) \in SUBSET S /\ t \notin Before(S, t)
    BY DEF Before
  <2>2. IsFiniteSet(Before(S, t)) /\ Cardinality(Before(S, t)) \in Nat
        /\ Cardinality(Before(S, t)) <= n /\ Cardinality(Before(S, t)) # n
    BY <2>1, FS_Subset, FS_CardinalityType
  <2> QED
    BY <1>1, <2>2
<1>3. ASSUME NEW t \in S, NEW u \in S, t < u
      PROVE  Cardinality(Before(S, t)) < Cardinality(Before(S, u))
  <2>1. /\ Before(S, t) \in SUBSET Before(S, u)
        /\ t \in Before(S, u) /\ t \notin Before(S, t)
    <3>1. ASSUME NEW other \in S, other < t PROVE other < u
      <4>1. other \in Nat /\ t \in Nat /\ u \in Nat
        OBVIOUS
      <4> QED
        BY <3>1, <4>1, <1>3
    <3>2. ~(t < t)
      BY SMT
    <3> QED
      BY <3>1, <3>2, <1>3, Zenon DEF Before
  <2>2. Cardinality(Before(S, t)) <= Cardinality(Before(S, u))
        /\ Cardinality(Before(S, t)) # Cardinality(Before(S, u))
    BY <2>1, <1>2, FS_Subset
  <2> QED
    BY <1>2, <2>2
<1>4. place \in Injection(S, 1..n)
  <2>1. place \in [S -> 1..n]
    BY <1>2
  <2>2. ASSUME NEW t \in S, NEW u \in S, place[t] = place[u] PROVE t = u
    <3>1. Cardinality(Before(S, t)) = Cardinality(Before(S, u))
      BY <2>2, <1>2
    <3>2. ~(t < u) /\ ~(u < t)
      BY <3>1, <1>2, <1>3
    <3> QED
      BY <3>2
  <2> QED
    BY <2>1, <2>2 DEF Injection, IsInjective
<1>5. IsFiniteSet(1..n) /\ Cardinality(1..n) = n
  BY <1>1, FS_Interval
<1>6. place \in Surjection(S, 1..n)
  BY <1>4, <1>5, FS_Injection
<1>7. ASSUME NEW i \in 1..n PROVE \E t \in S : Cardinality(Before(S, t)) = i - 1
  <2>1. PICK t \in S : place[t] = i
    BY <1>6 DEF Surjection
  <2> QED
    BY <1>2, <2>1
<1> QED
  BY <1>1, <1>2, <1>3, <1>7

\* byName lists a finite set of terminals, each once and in order.
LEMMA ByNameSorts ==
  ASSUME NEW S, S \subseteq Nat, IsFiniteSet(S)
  PROVE  /\ byName(S) \in Seq(S) /\ Len(byName(S)) = Cardinality(S)
         /\ \A t \in S : \E i \in 1..Cardinality(S) : byName(S)[i] = t
         /\ \A i, j \in 1..Cardinality(S) : i < j => byName(S)[i] < byName(S)[j]
<1> DEFINE n == Cardinality(S)
           at(i) == CHOOSE t \in S : Cardinality(Before(S, t)) = i - 1
<1>1. n \in Nat
  BY Places
<1>2. byName(S) = [i \in 1..n |-> at(i)]
  BY DEF byName, Before
<1>3. ASSUME NEW i \in 1..n PROVE at(i) \in S /\ Cardinality(Before(S, at(i))) = i - 1
  <2>1. \E t \in S : Cardinality(Before(S, t)) = i - 1
    BY Places
  <2> QED
    BY <2>1
<1> HIDE DEF at
<1>4. byName(S) \in Seq(S) /\ Len(byName(S)) = n
  BY <1>1, <1>2, <1>3
<1>5. ASSUME NEW t \in S, NEW u \in S, Cardinality(Before(S, t)) = Cardinality(Before(S, u))
      PROVE  t = u
  <2>1. t \in Nat /\ u \in Nat /\ Cardinality(Before(S, t)) \in Nat
    BY Places
  <2>2. t < u => Cardinality(Before(S, t)) < Cardinality(Before(S, u))
    BY Places
  <2>3. u < t => Cardinality(Before(S, u)) < Cardinality(Before(S, t))
    BY Places
  <2> QED
    BY <1>5, <2>1, <2>2, <2>3
<1>6. ASSUME NEW t \in S PROVE \E i \in 1..n : byName(S)[i] = t
  <2> DEFINE i == Cardinality(Before(S, t)) + 1
  <2>1. i \in 1..n
    BY Places
  <2>2. Cardinality(Before(S, at(i))) = i - 1 /\ at(i) \in S
    BY <2>1, <1>3
  <2>3. Cardinality(Before(S, t)) \in Nat
    BY Places
  <2>4. Cardinality(Before(S, at(i))) = Cardinality(Before(S, t))
    BY <2>2, <2>3
  <2>5. at(i) = t
    BY <2>2, <2>4, <1>5
  <2> QED
    BY <1>2, <2>1, <2>5
<1>7. ASSUME NEW i \in 1..n, NEW j \in 1..n, i < j PROVE byName(S)[i] < byName(S)[j]
  <2>1. /\ at(i) \in S /\ Cardinality(Before(S, at(i))) = i - 1
        /\ at(j) \in S /\ Cardinality(Before(S, at(j))) = j - 1
    BY <1>3
  <2>2. at(i) # at(j)
    BY <1>7, <2>1
  <2>4. at(i) \in Nat /\ at(j) \in Nat
    BY <2>1
  <2>5. byName(S)[i] = at(i) /\ byName(S)[j] = at(j)
    BY <1>2
  <2>3. ~(at(j) < at(i))
    <3>1. at(j) < at(i) => j - 1 < i - 1
      BY <2>1, Places
    <3> QED
      BY <1>1, <1>7, <3>1
  <2> QED
    BY <2>2, <2>3, <2>4, <2>5
<1> QED
  BY <1>2, <1>4, <1>6, <1>7

\* A trip's terminals: all of them, each once, the origin first and the others in order.
LEMMA OriginThenByName ==
  ASSUME NEW S, S \subseteq Nat, IsFiniteSet(S), NEW origin \in S
  PROVE  LET order == orderTerminals(S, origin) IN
         /\ order \in Seq(S) /\ ToSet(order) = S /\ IsInjective(order)
         /\ order # <<>> /\ order[1] = origin
         /\ \A i, j \in 2..Len(order) : i < j => order[i] < order[j]
<1> DEFINE rest == byName(S \ {origin})
           k == Cardinality(S \ {origin})
           order == orderTerminals(S, origin)
<1>1. S \ {origin} \subseteq Nat /\ IsFiniteSet(S \ {origin})
  BY FS_RemoveElement
<1>2. k \in Nat
  BY <1>1, Places
<1>3. /\ rest \in Seq(S \ {origin}) /\ Len(rest) = k
      /\ \A t \in S \ {origin} : \E i \in 1..k : rest[i] = t
      /\ \A i, j \in 1..k : i < j => rest[i] < rest[j]
  BY <1>1, ByNameSorts
<1>4. order = <<origin>> \o rest
  BY DEF orderTerminals
<1> HIDE DEF rest, k, order
<1>5. <<origin>> \in Seq(S) /\ rest \in Seq(S) /\ Len(<<origin>>) = 1 /\ <<origin>>[1] = origin
  BY <1>3
<1>6. /\ order \in Seq(S) /\ Len(order) = 1 + k
      /\ \A i \in 1..1 + k : order[i] = IF i <= 1 THEN <<origin>>[i] ELSE rest[i - 1]
  BY <1>3, <1>4, <1>5, ConcatProperties
<1>7. order[1] = origin
  BY <1>2, <1>5, <1>6
<1>8. DOMAIN order = 1..1 + k
  BY <1>2, <1>6
<1>9. \A i \in 2..1 + k : i - 1 \in 1..k /\ order[i] = rest[i - 1] /\ order[i] \in S \ {origin}
  <2> SUFFICES ASSUME NEW i \in 2..1 + k
               PROVE  i - 1 \in 1..k /\ order[i] = rest[i - 1] /\ order[i] \in S \ {origin}
    OBVIOUS
  <2>1. i - 1 \in 1..k /\ i \in 1..1 + k /\ ~(i <= 1)
    BY <1>2
  <2>2. rest[i - 1] \in S \ {origin}
    BY <1>3, <2>1
  <2> QED
    BY <1>6, <2>1, <2>2
<1>10. \A i, j \in 2..1 + k : i < j => order[i] < order[j]
  <2> SUFFICES ASSUME NEW i \in 2..1 + k, NEW j \in 2..1 + k, i < j PROVE order[i] < order[j]
    OBVIOUS
  <2>1. i - 1 \in 1..k /\ j - 1 \in 1..k /\ i - 1 < j - 1
    BY <1>2
  <2>2. rest[i - 1] < rest[j - 1]
    BY <1>3, <2>1
  <2> QED
    BY <1>9, <2>2
<1>11. \A i, j \in 1..1 + k : order[i] = order[j] => i = j
  <2> SUFFICES ASSUME NEW i \in 1..1 + k, NEW j \in 1..1 + k, order[i] = order[j], i < j PROVE FALSE
    <3>1. \A i, j \in 1..1 + k : ~(i < j) /\ ~(j < i) => i = j
      BY <1>2
    <3> QED
      BY <3>1
  <2>1. j \in 2..1 + k
    BY <1>2
  <2>2. CASE i = 1
    BY <1>7, <1>9, <2>1, <2>2
  <2>3. CASE i # 1
    <3>1. i \in 2..1 + k
      BY <1>2, <2>3
    <3>2. order[i] < order[j] /\ order[i] \in Nat
      BY <1>9, <1>10, <2>1, <3>1
    <3> QED
      BY <3>2
  <2> QED
    BY <2>2, <2>3
<1>12. ToSet(order) = S
  <2>1. ToSet(order) \subseteq S
    BY <1>6, <1>8 DEF ToSet
  <2>2. ASSUME NEW t \in S PROVE t \in ToSet(order)
    <3>1. CASE t = origin
      BY <1>2, <1>7, <1>8, <3>1 DEF ToSet
    <3>2. CASE t # origin
      <4>1. PICK i \in 1..k : rest[i] = t
        BY <1>3, <3>2
      <4>2. i + 1 \in 2..1 + k /\ i + 1 \in 1..1 + k /\ (i + 1) - 1 = i
        BY <1>2
      <4>3. order[i + 1] = t
        BY <1>9, <4>1, <4>2
      <4> QED
        BY <1>8, <4>2, <4>3 DEF ToSet
    <3> QED
      BY <3>1, <3>2
  <2> QED
    BY <2>1, <2>2
<1>13. IsInjective(order)
  BY <1>8, <1>11 DEF IsInjective
<1> QED
  BY <1>2, <1>6, <1>7, <1>10, <1>12, <1>13 DEF order
-------------------------------------------------------------------------------
(* The inductive invariant: what a page may say *)

NotCheckedYet == Item("state", <<"Not checked yet">>, "unknown", {})
Lexed(code, age) == Item("state", <<code>>, SOURCE_STATE_LEXICON[code].tone, age)

\* The newest reading of a terminal at a moment, if any source licenses one.
reading_source(m, t) == the(headline(m, t))
reading_of(m, t) == the(m.latest[reading_source(m, t)])

\* What the badge and the marker of a terminal say of it.
TerminalState(m, t, at) ==
  IF observed(m, t) = {} THEN NotCheckedYet
  ELSE Lexed(effective(reading_of(m, t), m.now), {formatAge(reading_of(m, t).observed_at, at)})

\* What the evidence list of a terminal's page says of a source.
RowState(m, s) ==
  IF restricted(m, s) THEN Lexed("restricted_user_open_only", {})
  ELSE IF m.latest[s] = {} THEN Item("state", <<"Unknown">>, "unknown", {})
  ELSE Lexed(effective(the(m.latest[s]), m.now), {})

\* What the table of sources says of one.
HealthState(m, s, at) ==
  IF m.latest[s] = {} THEN NotCheckedYet
  ELSE Lexed(effective(the(m.latest[s]), m.now), {formatAge(the(m.latest[s]).observed_at, at)})

Approval(m, s) ==
  Item("pill", <<APPROVAL[m.register[s].review_state]>>,
       APPROVAL_TONE[APPROVAL[m.register[s].review_state]], {})
Stopped == Item("pill", <<"Stopped">>, "caution", {})

\* When the newest reading of a terminal was made, and how old it is.
ReadAt(m, t, at) ==
  Item("age", <<"We read it", "at", reading_of(m, t).observed_at * MinutesPerTick>>, "none",
       {formatAge(reading_of(m, t).observed_at, at)})

\* A fact of the terminal is reproduced only if its sources licensed it, and only told as not
\* published if none did.
FactAllowed(text, m, t) ==
  \A kind \in {"counter_hours", "parking"} :
    text \in {<<"Hours", kind>>, <<"Parking", kind>>} => kind \in displayable_facts(m, t)
FactLabel(kind) == IF kind = "parking" THEN "Parking" ELSE "Hours"
NoteAllowed(text, m, t) ==
  \A kind \in {"counter_hours", "parking"} :
    text = <<FactLabel(kind), "Not published">> => kind \notin displayable_facts(m, t)
FactSaid(item, m, t) ==
  \/ item.shape = "fact" /\ FactAllowed(item.text, m, t)
  \/ item.shape = "note" /\ NoteAllowed(item.text, m, t)

\* The details of a trip's terminals are read apart, each at a moment of its own.
ScheduleAllowed(text, t, witnessed) ==
  text = <<"No 72-hour schedule source is registered">> =>
    \E n \in witnessed : \A s \in of_terminal(n, t) : Row[s].kind # "schedule_artifact"

OfPage(item, m, page, subject) ==
  \/ item.shape \in {"note", "count", "error"}
  \/ item.shape = "empty" /\ page \notin {"terminal", "trip"}
     /\ IF page = "terminals" THEN m.terminals = {} ELSE registered(m) = {}
  \/ item.shape = "not_found" /\ subject \notin m.terminals

\* Statements about a terminal that need nothing but the terminal's moment.
Plain(item, m, t, at) ==
  \/ item.shape \in {"why", "pill"}
  \/ item = TerminalState(m, t, at)
  \/ observed(m, t) # {} /\ item = ReadAt(m, t, at)
  \/ FactSaid(item, m, t)

OfTerminal(item, m, t, page, subject, witnessed, at) ==
  \/ Plain(item, m, t, at)
  \/ item.shape = "opportunities" /\ page = "terminal" /\ subject = t
     /\ item.text = <<opportunitiesNote(terminal_summary(m, t))>>
  \/ item.shape = "schedule" /\ ScheduleAllowed(item.text, t, witnessed)

OfSource(item, m, s, page, at) ==
  \/ item.shape \in {"fact", "note", "why", "notice"}
  \/ page = "terminal" /\ item = RowState(m, s)
  \/ page = "advanced" /\ item \in {HealthState(m, s, at), Approval(m, s)}
  \/ page = "advanced" /\ item = Stopped /\ m.register[s].stopped

\* Every statement of a page is true of the moment m, but for what is said of schedules.
Legit(statement, m, page, subject, witnessed, at) ==
  \/ statement.about = Page /\ OfPage(statement.item, m, page, subject)
  \/ \E t \in m.terminals : statement.about = <<"terminal", t>>
       /\ OfTerminal(statement.item, m, t, page, subject, witnessed, at)
  \/ \E s \in registered(m) : statement.about = <<"source", s>>
       /\ OfSource(statement.item, m, s, page, at)

\* A page that speaks of a terminal's opportunities lists its sources.
RowsListed(items, m, t) ==
  (\E statement \in items : statement.item.shape = "opportunities") =>
    \A s \in of_terminal(m, t) : [about |-> <<"source", s>>, item |-> RowState(m, s)] \in items

\* A trip's page that is no error lists the terminals, each with its state.
TerminalsListed(items, order, m, origin, at) ==
  (\A statement \in items : ~(statement.about = Page /\ statement.item.shape = "error")) =>
    /\ order = orderTerminals(m.terminals, origin)
    /\ \A t \in m.terminals :
         [about |-> <<"terminal", t>>, item |-> TerminalState(m, t, at)] \in items

Truthful(view, page, subject, witnessed, at) ==
  \E m \in witnessed :
    /\ \A statement \in view.items : Legit(statement, m, page, subject, witnessed, at)
    /\ page = "terminal" => RowsListed(view.items, m, subject)
    /\ page = "trip" => TerminalsListed(view.items, view.order, m, subject, at)

\* A moment of a register that keeps its foreign keys, with readings from before.
MomentOK(m, at) ==
  /\ m.now \in Time /\ m.now <= at
  /\ m.terminals \subseteq Terminal
  /\ m.register \in [Source -> Registration]
  /\ m.latest \in [Source -> SUBSET Observation]
  /\ \A s \in Source :
       /\ m.register[s].review_state # "absent" => Row[s].terminal \in m.terminals \cup {0}
       /\ \A a, b \in m.latest[s] : a = b
       /\ \A o \in m.latest[s] : o.observed_at <= m.now

\* An answer is a failure or was true when it was given.
AnswerOK(answer, page, t, witnessed) ==
  \/ \E failure \in Failure : answer = [result |-> failure]
  \/ \E m \in witnessed : answer = Answer(m, page, t)

FirstRead(page) == IF page = "trip" THEN "terminals" ELSE page

RequestTyped ==
  /\ request = [page |-> request.page, about |-> request.about, stage |-> request.stage,
                read |-> request.read, details |-> request.details]
  /\ request.stage \in {"idle", "reading", "shown"}
  /\ request.stage = "idle" => request = Idle /\ moments = {}
  /\ request.stage # "shown" => shown = Shows({})
  /\ request.stage = "shown" => request.read = {} /\ request.details = <<>>

AskedFor ==
  request.stage # "idle" =>
    /\ request.page \in {"terminals", "terminal", "advanced", "trip"}
    /\ request.about \in Terminal \cup {0}
    /\ request.page \in {"terminals", "advanced"} <=> request.about = 0
    /\ request.page = "trip" =>
         request.about \in Origins /\ \A m \in moments : request.about \in m.terminals

AnswersOK ==
  request.stage = "reading" =>
    /\ moment \in moments
    /\ \A a, b \in request.read : a = b
    /\ \A answer \in request.read : AnswerOK(answer, FirstRead(request.page), request.about, moments)
    /\ \A t \in DOMAIN request.details :
         t \in Terminal /\ AnswerOK(request.details[t], "terminal", t, moments)

ShownOK == done => Truthful(shown, request.page, request.about, moments, now)

\* Each source has at most one time since when a run may have read it.
ReadableOK ==
  /\ readable_since \in [Source -> SUBSET Time]
  /\ \A s \in Source :
       /\ \A a, b \in readable_since[s] : a = b
       /\ \A since \in readable_since[s] : since <= now

MomentsOK ==
  /\ MomentOK(moment, now) /\ ReadableOK
  /\ \A m \in moments : MomentOK(m, now)
  /\ changes \in 0..MaxChanges

IInv == MomentsOK /\ RequestTyped /\ AskedFor /\ AnswersOK /\ ShownOK
-------------------------------------------------------------------------------
(* Readings *)

LEMMA TheOnly == ASSUME NEW x PROVE the({x}) = x
BY DEF the

LEMMA TheOne == ASSUME NEW S, S # {} PROVE the(S) \in S
BY DEF the

\* A source has at most one current reading, from no later than the moment.
LEMMA ReadingOfSource ==
  ASSUME NEW m, NEW at \in Time, MomentOK(m, at), NEW s \in Source, m.latest[s] # {}
  PROVE  LET o == the(m.latest[s]) IN
         /\ o \in m.latest[s] /\ m.latest[s] = {o} /\ o \in Observation
         /\ o.observed_at \in Nat /\ m.now \in Nat /\ o.observed_at <= m.now /\ m.now <= at
<1> DEFINE o == the(m.latest[s])
<1>1. o \in m.latest[s]
  BY TheOne
<1>2. m.latest[s] = {o} /\ o.observed_at <= m.now
  BY <1>1 DEF MomentOK
<1>3. o \in Observation
  BY <1>1 DEF MomentOK
<1>4. o.observed_at \in Time
  BY <1>3 DEF Observation
<1> QED
  BY <1>1, <1>2, <1>3, <1>4, TimeAssumption DEF MomentOK, Time

LEMMA OfTerminalIsSource ==
  ASSUME NEW m, NEW t
  PROVE  observed(m, t) \subseteq of_terminal(m, t) /\ of_terminal(m, t) \subseteq Source
         /\ headline(m, t) \subseteq observed(m, t)
BY DEF observed, of_terminal, registered, headline

\* Where a terminal has a source that may speak, exactly one of them is the headline, and no
\* other was read later.
LEMMA HeadlineReading ==
  ASSUME NEW m, NEW at \in Time, MomentOK(m, at), NEW t, observed(m, t) # {}
  PROVE  LET s == reading_source(m, t)
             o == reading_of(m, t) IN
         /\ headline(m, t) = {s} /\ s \in observed(m, t) /\ s \in Source
         /\ o \in m.latest[s] /\ m.latest[s] = {o} /\ o = the(m.latest[s]) /\ o \in Observation
         /\ o.observed_at \in Nat /\ m.now \in Nat /\ o.observed_at <= m.now /\ m.now <= at
         /\ \A other \in observed(m, t) : the(m.latest[other]).observed_at <= o.observed_at
<1> DEFINE age(s) == m.now - the(m.latest[s]).observed_at
           Ages == { age(s) : s \in observed(m, t) }
<1>1. ASSUME NEW s \in observed(m, t)
      PROVE  /\ s \in Source /\ s \in Nat /\ m.latest[s] # {} /\ age(s) \in Nat
             /\ the(m.latest[s]).observed_at \in Nat /\ m.now \in Nat
  <2>1. s \in Source /\ m.latest[s] # {}
    BY OfTerminalIsSource DEF observed
  <2>2. /\ the(m.latest[s]).observed_at \in Nat /\ m.now \in Nat
        /\ the(m.latest[s]).observed_at <= m.now
    BY <2>1, ReadingOfSource
  <2> QED
    BY <2>1, <2>2, SourceAssumption
<1>2. Ages \subseteq Nat /\ Ages # {}
  BY <1>1
<1>3. PICK least \in Ages : \A other \in Ages : least <= other
  BY <1>2, LeastExists
<1> DEFINE Youngest == { s \in observed(m, t) : age(s) = least }
<1>4. Youngest \subseteq Nat /\ Youngest # {}
  BY <1>1, <1>3
<1>5. PICK first \in Youngest : \A other \in Youngest : first <= other
  BY <1>4, LeastExists
<1>6. first \in headline(m, t)
  <2>1. ASSUME NEW other \in observed(m, t)
        PROVE  age(first) < age(other) \/ (age(first) = age(other) /\ first <= other)
    <3>1. age(first) \in Nat /\ age(other) \in Nat /\ age(first) = least /\ least <= age(other)
      BY <1>1, <1>3, <1>5
    <3>2. CASE age(other) = least
      BY <1>5, <3>1, <3>2
    <3>3. CASE age(other) # least
      BY <3>1, <3>3
    <3> QED
      BY <3>2, <3>3
  <2> QED
    BY <1>5, <2>1 DEF headline
<1>7. ASSUME NEW a \in headline(m, t), NEW b \in headline(m, t) PROVE a = b
  <2>1. a \in observed(m, t) /\ b \in observed(m, t)
    BY OfTerminalIsSource
  <2>2. /\ age(a) < age(b) \/ (age(a) = age(b) /\ a <= b)
        /\ age(b) < age(a) \/ (age(b) = age(a) /\ b <= a)
    BY <2>1 DEF headline
  <2>3. age(a) \in Nat /\ age(b) \in Nat /\ a \in Nat /\ b \in Nat
    BY <1>1, <2>1
  <2> HIDE DEF age
  <2> QED
    BY <2>2, <2>3
<1> DEFINE s == reading_source(m, t)
           o == reading_of(m, t)
<1>8. s \in headline(m, t) /\ headline(m, t) = {s} /\ s \in observed(m, t)
  BY <1>6, <1>7, TheOne, OfTerminalIsSource DEF reading_source
<1>9. s \in Source /\ m.latest[s] # {} /\ o = the(m.latest[s])
  BY <1>1, <1>8 DEF reading_of
<1>10. /\ o \in m.latest[s] /\ m.latest[s] = {o} /\ o \in Observation
       /\ o.observed_at \in Nat /\ m.now \in Nat /\ o.observed_at <= m.now /\ m.now <= at
  BY <1>9, ReadingOfSource
<1>11. ASSUME NEW other \in observed(m, t) PROVE the(m.latest[other]).observed_at <= o.observed_at
  <2>1. age(s) < age(other) \/ (age(s) = age(other) /\ s <= other)
    BY <1>8 DEF headline
  <2>2. /\ age(s) = m.now - o.observed_at
        /\ the(m.latest[other]).observed_at \in Nat /\ m.now \in Nat
    BY <1>1, <1>9
  <2> QED
    BY <1>10, <2>1, <2>2
<1> QED
  BY <1>8, <1>9, <1>10, <1>11

\* A terminal's summary carries the headline's reading, as old as it is at that moment, or none.
LEMMA SummaryReading ==
  ASSUME NEW m, NEW at \in Time, MomentOK(m, at), NEW t
  PROVE  terminal_summary(m, t).latest =
           IF observed(m, t) = {} THEN {} ELSE {evidence_read(reading_of(m, t), m.now)}
<1>1. terminal_summary(m, t).latest = { evidence_read(the(m.latest[s]), m.now) : s \in headline(m, t) }
  BY DEF terminal_summary
<1>2. CASE observed(m, t) = {}
  BY <1>1, <1>2, OfTerminalIsSource
<1>3. CASE observed(m, t) # {}
  <2>1. headline(m, t) = {reading_source(m, t)}
    BY <1>3, HeadlineReading
  <2>2. reading_of(m, t) = the(m.latest[reading_source(m, t)])
    BY DEF reading_of
  <2> QED
    BY <1>1, <1>3, <2>1, <2>2
<1> QED
  BY <1>2, <1>3

\* What a reading says at a moment is a state of the lexicon; only the state differs.
LEMMA EvidenceRead ==
  ASSUME NEW o \in Observation, NEW n
  PROVE  LET read == evidence_read(o, n) IN
         /\ read.state = effective(o, n) /\ read.observed_at = o.observed_at
         /\ read.source_time = o.source_time /\ read.retrieval = o.retrieval
         /\ effective(o, n) \in SOURCE_STATE_CODES
BY DEF evidence_read, Observation, effective, SOURCE_STATE_CODES

LEMMA LexemeForCode ==
  ASSUME NEW code \in SOURCE_STATE_CODES
  PROVE  /\ lexemeFor(code) = SOURCE_STATE_LEXICON[code] /\ lexemeFor(code).label = code
         /\ SOURCE_STATE_LEXICON[code].label = code
BY DEF lexemeFor, isSourceStateCode, SOURCE_STATE_LEXICON
-------------------------------------------------------------------------------
(* What the components show *)

LEMMA EmptyBadge == SourceStateBadge({}) = {NotCheckedYet}
BY DEF SourceStateBadge, NotCheckedYet

LEMMA BadgeOfReading ==
  ASSUME NEW o \in Observation, NEW n, NEW at
  PROVE  SourceStateBadge({ toEvidenceView(read, at) : read \in {evidence_read(o, n)} }) =
           {Lexed(effective(o, n), {formatAge(o.observed_at, at)})}
<1> DEFINE view == toEvidenceView(evidence_read(o, n), at)
           code == effective(o, n)
           lexeme == lexemeFor(the({view}).state)
<1>1. { toEvidenceView(read, at) : read \in {evidence_read(o, n)} } = {view}
  OBVIOUS
<1>2. view.state = code /\ view.ageText = formatAge(o.observed_at, at) /\ code \in SOURCE_STATE_CODES
  BY EvidenceRead DEF toEvidenceView
<1>3. the({view}) = view
  BY TheOnly
<1>4. SourceStateBadge({view}) =
        { Item("state", <<lexeme.label>>, lexeme.tone, {the({view}).ageText}) }
  BY DEF SourceStateBadge
<1>5. lexeme.label = code /\ lexeme.tone = SOURCE_STATE_LEXICON[code].tone
  BY <1>2, <1>3, LexemeForCode
<1>6. SourceStateBadge({view}) =
        { Item("state", <<code>>, SOURCE_STATE_LEXICON[code].tone, {formatAge(o.observed_at, at)}) }
  BY <1>2, <1>3, <1>4, <1>5
<1> QED
  BY <1>1, <1>6 DEF Lexed

\* The badge, the marker and the age of a terminal's summary.
LEMMA TerminalBadge ==
  ASSUME NEW m, NEW at \in Time, MomentOK(m, at), NEW t
  PROVE  LET summary == terminal_summary(m, t) IN
         /\ SourceStateBadge({ toEvidenceView(read, at) : read \in summary.latest })
              = {TerminalState(m, t, at)}
         /\ LET marker == toMarker(summary, at) IN
              Item("state", marker.statusText, marker.tone, marker.age) = TerminalState(m, t, at)
         /\ toMarker(summary, at).id = t /\ summary.terminal = t
         /\ ageView(summary, at) = {} => TerminalState(m, t, at) = NotCheckedYet
<1> DEFINE summary == terminal_summary(m, t)
           marker == toMarker(summary, at)
<1>1. summary.terminal = t /\ marker.id = t
  BY DEF terminal_summary, toMarker
<1>2. /\ marker.statusText = statusText(summary) /\ marker.tone = evidenceTone(summary.latest)
      /\ marker.age = { formatAge(read.observed_at, at) : read \in summary.latest }
  BY DEF toMarker
<1>3. CASE observed(m, t) = {}
  <2>1. summary.latest = {}
    BY <1>3, SummaryReading
  <2>2. { toEvidenceView(read, at) : read \in summary.latest } = {}
    BY <2>1
  <2>3. TerminalState(m, t, at) = NotCheckedYet
    BY <1>3 DEF TerminalState
  <2>4. marker.statusText = <<"Not checked yet">> /\ marker.tone = "unknown" /\ marker.age = {}
    BY <1>2, <2>1 DEF statusText, evidenceTone
  <2> QED
    BY <1>1, <2>2, <2>3, <2>4, EmptyBadge DEF NotCheckedYet
<1>4. CASE observed(m, t) # {}
  <2> DEFINE o == reading_of(m, t)
             read_ == evidence_read(o, m.now)
             code == effective(o, m.now)
  <2>1. summary.latest = {read_} /\ o \in Observation
    BY <1>4, SummaryReading, HeadlineReading
  <2>2. TerminalState(m, t, at) = Lexed(code, {formatAge(o.observed_at, at)})
    BY <1>4 DEF TerminalState
  <2>3. SourceStateBadge({ toEvidenceView(read, at) : read \in summary.latest })
          = {TerminalState(m, t, at)}
    BY <2>1, <2>2, BadgeOfReading
  <2>4. the(summary.latest) = read_
    BY <2>1, TheOnly
  <2>5. /\ read_.state = code /\ code \in SOURCE_STATE_CODES /\ read_.observed_at = o.observed_at
        /\ lexemeFor(code) = SOURCE_STATE_LEXICON[code] /\ lexemeFor(code).label = code
    BY <2>1, EvidenceRead, LexemeForCode
  <2> HIDE DEF read_, o, code
  <2>6. marker.statusText = <<code>> /\ marker.tone = SOURCE_STATE_LEXICON[code].tone
    <3>1. summary.latest # {}
      BY <2>1
    <3> QED
      BY <1>2, <2>4, <2>5, <3>1 DEF statusText, evidenceTone
  <2>7. marker.age = {formatAge(o.observed_at, at)}
    BY <1>2, <2>1, <2>5
  <2>8. ageView(summary, at) # {}
    BY <2>1 DEF ageView
  <2> QED
    BY <1>1, <2>2, <2>3, <2>6, <2>7, <2>8 DEF Lexed
<1> QED
  BY <1>3, <1>4

LEMMA AboutOne ==
  ASSUME NEW subject, NEW items, NEW statement \in About(subject, items)
  PROVE  statement.about = subject /\ statement.item \in items
BY DEF About

LEMMA AboutEach ==
  ASSUME NEW subject, NEW items, NEW item \in items
  PROVE  [about |-> subject, item |-> item] \in About(subject, items)
BY DEF About

\* A text that starts with a name of its own.
Text(x) == (\E a : x = <<a>>) \/ (\E a, b : x = <<a, b>>)

LEMMA LabelFirst ==
  ASSUME NEW label, NEW x, Text(x)
  PROVE  (<<label>> \o x)[1] = label
<1>1. CASE \E a : x = <<a>>
  BY <1>1
<1>2. CASE \E a, b : x = <<a, b>>
  BY <1>2
<1> QED
  BY <1>1, <1>2 DEF Text

\* A fact and, where it is unknown, its note are such texts.
Worded(fact) == Text(factText(fact)) /\ (fact.status = "unknown" => Text(fact.note))

\* A fact that is none of the terminal's own.
Other(view) == view.label \notin {"Hours", "Parking"} /\ Worded(view.value)

LEMMA OtherFact ==
  ASSUME NEW label, label \notin {"Hours", "Parking"}, NEW value, Worded(value)
  PROVE  Other(FactView(label, value))
BY DEF FactView, Other

LEMMA ItemShape ==
  ASSUME NEW shape, NEW text, NEW tone, NEW age, NEW item, item = Item(shape, text, tone, age)
  PROVE  item.shape = shape /\ item.text = text /\ item.tone = tone /\ item.age = age
BY DEF Item

LEMMA PillShape ==
  ASSUME NEW tone, NEW text, NEW item \in StatusPill(tone, text)
  PROVE  item.shape = "pill" /\ item = Item("pill", text, tone, {})
BY DEF StatusPill, Item

LEMMA UnknownText == ASSUME NEW note PROVE factText(unknown(note)) = <<"Unknown">>
BY DEF factText, unknown

LEMMA KnownText == ASSUME NEW value PROVE factText(known(value)) = value
BY DEF factText, known

LEMMA UnknownWorded == ASSUME NEW note PROVE Worded(unknown(note))
BY DEF Worded, Text, factText, unknown

LEMMA KnownWorded == ASSUME NEW value, Text(value) PROVE Worded(known(value))
BY DEF Worded, factText, known

\* A note under another name says nothing of the terminal's facts.
LEMMA OtherNote ==
  ASSUME NEW text, text[1] \notin {"Hours", "Parking"}, NEW m, NEW t
  PROVE  NoteAllowed(text, m, t)
<1>1. \A kind : <<FactLabel(kind), "Not published">>[1] \in {"Hours", "Parking"}
  BY DEF FactLabel
<1> QED
  BY <1>1, Zenon DEF NoteAllowed

\* A fact under another name is no fact of the terminal's.
LEMMA OtherFacts ==
  ASSUME NEW label, label \notin {"Hours", "Parking"}, NEW fact, Worded(fact),
         NEW item \in FactValue(label, fact), NEW m, NEW t
  PROVE  FactSaid(item, m, t)
<1>1. \/ item.shape = "fact" /\ item.text = <<label>> \o factText(fact)
      \/ fact.status = "unknown" /\ item.shape = "note" /\ item.text = <<label>> \o fact.note
  BY DEF FactValue, Item
<1>2. CASE item.shape = "fact" /\ item.text = <<label>> \o factText(fact)
  <2>1. (<<label>> \o factText(fact))[1] = label
    BY LabelFirst DEF Worded
  <2>2. ASSUME NEW kind PROVE item.text \notin {<<"Hours", kind>>, <<"Parking", kind>>}
    <3>1. <<"Hours", kind>>[1] = "Hours" /\ <<"Parking", kind>>[1] = "Parking"
      OBVIOUS
    <3> QED
      BY <1>2, <2>1, <3>1, Zenon
  <2> QED
    BY <1>2, <2>2 DEF FactSaid, FactAllowed
<1>3. CASE fact.status = "unknown" /\ item.shape = "note" /\ item.text = <<label>> \o fact.note
  <2>1. item.text[1] = label
    BY <1>3, LabelFirst DEF Worded
  <2> QED
    BY <1>3, <2>1, OtherNote DEF FactSaid
<1> QED
  BY <1>1, <1>2, <1>3

LEMMA LabelAndValue ==
  ASSUME NEW label, NEW a
  PROVE  (<<label>> \o <<a>>)[2] = a
OBVIOUS

\* Hours and parking are shown as the facts that may be, or as not published.
LEMMA TerminalFacts ==
  ASSUME NEW m, NEW t, NEW kind \in {"counter_hours", "parking"},
         NEW item \in FactValue(FactLabel(kind), factValue(displayable_facts(m, t), kind))
  PROVE  FactSaid(item, m, t)
<1> DEFINE facts == displayable_facts(m, t)
           fact == factValue(facts, kind)
           label == FactLabel(kind)
<1>1. \/ item.shape = "fact" /\ item.text = <<label>> \o factText(fact)
      \/ fact.status = "unknown" /\ item.shape = "note" /\ item.text = <<label>> \o fact.note
  BY DEF FactValue, Item
<1>2. CASE kind \in facts
  <2>1. factText(fact) = <<kind>> /\ fact.status = "known"
    BY <1>2, KnownText DEF factValue, known
  <2>2. (<<label>> \o <<kind>>)[2] = kind
    BY LabelAndValue
  <2>3. ASSUME NEW other, <<label>> \o <<kind>> \in {<<"Hours", other>>, <<"Parking", other>>}
        PROVE  other \in facts
    <3>1. <<"Hours", other>>[2] = other /\ <<"Parking", other>>[2] = other
      OBVIOUS
    <3> QED
      BY <1>2, <2>2, <2>3, <3>1, Zenon
  <2>4. item.shape = "fact" /\ item.text = <<label>> \o <<kind>>
    BY <1>1, <2>1
  <2> QED
    BY <2>3, <2>4 DEF FactSaid, FactAllowed
<1>3. CASE kind \notin facts
  <2>1. factText(fact) = <<"Unknown">> /\ fact.note = <<"Not published">>
    BY <1>3, UnknownText DEF factValue, unknown
  <2>2. (<<label>> \o <<"Unknown">>)[2] = "Unknown"
    BY LabelAndValue
  <2>3. ASSUME NEW other \in {"counter_hours", "parking"}
        PROVE  <<label>> \o <<"Unknown">> \notin {<<"Hours", other>>, <<"Parking", other>>}
    <3>1. <<"Hours", other>>[2] = other /\ <<"Parking", other>>[2] = other /\ other # "Unknown"
      OBVIOUS
    <3> QED
      BY <2>2, <3>1, Zenon
  <2>4. ASSUME NEW other \in {"counter_hours", "parking"},
               <<label>> \o <<"Not published">> = <<FactLabel(other), "Not published">>
        PROVE  other \notin facts
    <3>1. (<<label>> \o <<"Not published">>)[1] = label
          /\ <<FactLabel(other), "Not published">>[1] = FactLabel(other)
      BY LabelFirst DEF Text
    <3>2. FactLabel(other) = FactLabel(kind)
      BY <2>4, <3>1
    <3>3. other = kind
      BY <3>2 DEF FactLabel
    <3> QED
      BY <1>3, <3>3
  <2>5. item.shape = "fact" => FactSaid(item, m, t)
    BY <1>1, <2>1, <2>3 DEF FactSaid, FactAllowed
  <2>6. item.shape = "note" => FactSaid(item, m, t)
    BY <1>1, <2>1, <2>4 DEF FactSaid, NoteAllowed
  <2> QED
    BY <1>1, <2>5, <2>6
<1> QED
  BY <1>2, <1>3

LEMMA BadgeItems ==
  ASSUME NEW m, NEW at \in Time, MomentOK(m, at), NEW t,
         NEW item \in SourceStateBadge(
           { toEvidenceView(read, at) : read \in terminal_summary(m, t).latest })
  PROVE  Plain(item, m, t, at)
BY TerminalBadge DEF Plain

\* The card of a terminal.
LEMMA CardItems ==
  ASSUME NEW m, NEW at \in Time, MomentOK(m, at), NEW t,
         NEW statement \in TerminalCard(toTerminalCard(terminal_summary(m, t), at))
  PROVE  statement.about = <<"terminal", t>> /\ Plain(statement.item, m, t, at)
<1> DEFINE summary == terminal_summary(m, t)
           card == toTerminalCard(summary, at)
           strip == {FactView("From you", card.accessText), FactView("Entrance", card.entrance.label)}
<1>1. /\ card.id = t /\ card.accessText = unknown("Not computed for a trip yet")
      /\ card.evidence = { toEvidenceView(read, at) : read \in summary.latest }
      /\ card.entrance.label = Entrance(summary)
  BY DEF toTerminalCard, terminal_summary
<1> DEFINE items ==
    SourceStateBadge(card.evidence) \cup SourceStateDisclosure(card.evidence) \cup FactStrip(strip) \cup
    (IF card.entrance.status = "verified" THEN StatusPill("verified", <<"Entrance verified">>)
     ELSE StatusPill("unknown", <<"Entrance unverified">>))
<1>2. statement \in About(<<"terminal", t>>, items)
  BY <1>1 DEF TerminalCard
<1> HIDE DEF items
<1>3. statement.about = <<"terminal", t>> /\ statement.item \in items
  BY <1>2, AboutOne
<1>4. \/ statement.item \in SourceStateBadge(card.evidence)
      \/ statement.item \in SourceStateDisclosure(card.evidence)
      \/ statement.item \in FactStrip(strip)
      \/ statement.item \in StatusPill("verified", <<"Entrance verified">>)
      \/ statement.item \in StatusPill("unknown", <<"Entrance unverified">>)
  BY <1>3 DEF items
<1> HIDE DEF card
<1>5. CASE statement.item \in SourceStateBadge(card.evidence)
  BY <1>1, <1>3, <1>5, BadgeItems
<1>6. CASE statement.item \in SourceStateDisclosure(card.evidence)
  BY <1>3, <1>6 DEF SourceStateDisclosure, Item, Plain
<1>7. CASE statement.item \in FactStrip(strip)
  <2>1. PICK view \in strip : statement.item \in FactValue(view.label, view.value)
    BY <1>7 DEF FactStrip
  <2>2. Other(FactView("From you", card.accessText))
    <3>1. Worded(card.accessText)
      BY <1>1, UnknownWorded
    <3> QED
      BY <3>1, OtherFact
  <2>3. Other(FactView("Entrance", card.entrance.label))
    <3>1. Worded(Entrance(summary))
      BY UnknownWorded, KnownWorded DEF Text, Entrance
    <3> QED
      BY <1>1, <3>1, OtherFact
  <2>4. Other(view)
    BY <2>2, <2>3
  <2> HIDE DEF strip
  <2> QED
    BY <1>3, <2>1, <2>4, OtherFacts DEF Plain, Other
<1>8. CASE statement.item \in StatusPill("verified", <<"Entrance verified">>)
           \/ statement.item \in StatusPill("unknown", <<"Entrance unverified">>)
  <2>1. statement.item.shape = "pill"
    BY <1>8, PillShape
  <2> QED
    BY <1>3, <2>1 DEF Plain
<1> QED
  BY <1>4, <1>5, <1>6, <1>7, <1>8

LEMMA PageStatement ==
  ASSUME NEW shape, NEW text, NEW tone,
         NEW statement \in About(Page, { Item(shape, text, tone, {}) })
  PROVE  statement.about = Page /\ statement.item.shape = shape
BY DEF About, Item

LEMMA ErrorLegit ==
  ASSUME NEW title, NEW statement \in ErrorState(title),
         NEW m, NEW page, NEW subject, NEW witnessed, NEW at
  PROVE  /\ statement.about = Page /\ statement.item.shape = "error"
         /\ Legit(statement, m, page, subject, witnessed, at)
<1>1. statement.about = Page /\ statement.item.shape = "error"
  BY PageStatement DEF ErrorState
<1> QED
  BY <1>1 DEF Legit, OfPage

\* The map of a page that shows terminals.
LEMMA MapItems ==
  ASSUME NEW m, NEW at \in Time, MomentOK(m, at), NEW T, T # {},
         NEW statement \in MapSurface(mapView({ terminal_summary(m, t) : t \in T }, at))
  PROVE  \/ statement.about = Page /\ statement.item.shape = "note"
         \/ \E t \in T : statement.about = <<"terminal", t>> /\ statement.item = TerminalState(m, t, at)
<1> DEFINE map == mapView({ terminal_summary(m, t) : t \in T }, at)
           marker(t) == toMarker(terminal_summary(m, t), at)
<1>1. map.markers = { marker(t) : t \in T }
  BY DEF mapView
<1>2. map.markers # {}
  BY <1>1
<1>3. \/ statement \in About(Page, { Item("note", <<map.note, Cardinality(map.markers)>>, "none", {}) })
      \/ statement \in MapMarkerList(map.markers)
  BY DEF MapSurface
<1>4. CASE statement \in About(Page, { Item("note", <<map.note, Cardinality(map.markers)>>, "none", {}) })
  BY <1>4, PageStatement
<1>5. CASE statement \in MapMarkerList(map.markers)
  <2>1. PICK t \in T : statement = [about |-> <<"terminal", marker(t).id>>,
          item |-> Item("state", marker(t).statusText, marker(t).tone, marker(t).age)]
    BY <1>1, <1>2, <1>5 DEF MapMarkerList
  <2>2. /\ marker(t).id = t
        /\ Item("state", marker(t).statusText, marker(t).tone, marker(t).age) = TerminalState(m, t, at)
    BY TerminalBadge
  <2>3. statement = [about |-> <<"terminal", t>>, item |-> TerminalState(m, t, at)]
    BY <2>1, <2>2
  <2> QED
    BY <2>3
<1> QED
  BY <1>3, <1>4, <1>5

LEMMA PlainLegit ==
  ASSUME NEW m, NEW at, NEW t \in m.terminals, NEW statement,
         statement.about = <<"terminal", t>>, Plain(statement.item, m, t, at),
         NEW page, NEW subject, NEW witnessed
  PROVE  Legit(statement, m, page, subject, witnessed, at)
BY DEF Legit, OfTerminal

LEMMA NoteLegit ==
  ASSUME NEW statement, statement.about = Page, statement.item.shape \in {"note", "count", "error"},
         NEW m, NEW at, NEW page, NEW subject, NEW witnessed
  PROVE  Legit(statement, m, page, subject, witnessed, at)
BY DEF Legit, OfPage

\* The page of the network is true of the moment the API was read at.
LEMMA NetworkPage ==
  ASSUME NEW m, NEW at \in Time, MomentOK(m, at), NEW subject, NEW witnessed,
         NEW statement \in TerminalNetworkScreen(
           toTerminalNetworkScreenModel(list_terminal_network(m), at))
  PROVE  Legit(statement, m, "terminals", subject, witnessed, at)
<1> DEFINE summaries == { terminal_summary(m, t) : t \in m.terminals }
           model == toTerminalNetworkScreenModel(summaries, at)
<1>1. statement \in TerminalNetworkScreen(model)
  BY DEF list_terminal_network
<1>2. /\ model.status = IF summaries # {} THEN "ready" ELSE "empty"
      /\ model.map = mapView(summaries, at)
      /\ model.terminals = { toTerminalCard(summary, at) : summary \in summaries }
  BY DEF toTerminalNetworkScreenModel
<1>3. CASE m.terminals = {}
  <2>1. summaries = {}
    BY <1>3
  <2>2. statement \in EmptyState("No terminals yet")
    BY <1>1, <1>2, <2>1 DEF TerminalNetworkScreen
  <2>3. statement.about = Page /\ statement.item.shape = "empty"
    BY <2>2, PageStatement DEF EmptyState
  <2> QED
    BY <1>3, <2>3 DEF Legit, OfPage
<1>4. CASE m.terminals # {}
  <2>1. summaries # {}
    BY <1>4
  <2>2. model.status = "ready"
    BY <1>2, <2>1
  <2> HIDE DEF model
  <2>3. statement \in MapSurface(model.map) \/ \E card \in model.terminals : statement \in TerminalCard(card)
    BY <1>1, <2>2 DEF TerminalNetworkScreen
  <2>4. CASE statement \in MapSurface(model.map)
    <3>1. \/ statement.about = Page /\ statement.item.shape = "note"
          \/ \E t \in m.terminals :
               statement.about = <<"terminal", t>> /\ statement.item = TerminalState(m, t, at)
      BY <1>2, <1>4, <2>4, MapItems
    <3> QED
      BY <3>1, NoteLegit, PlainLegit DEF Plain
  <2>5. CASE \E card \in model.terminals : statement \in TerminalCard(card)
    <3>1. PICK t \in m.terminals : statement \in TerminalCard(toTerminalCard(terminal_summary(m, t), at))
      BY <1>2, <2>5
    <3> QED
      BY <3>1, CardItems, PlainLegit
  <2> QED
    BY <2>3, <2>4, <2>5
<1> QED
  BY <1>3, <1>4

-------------------------------------------------------------------------------
(* A terminal's page *)

detail_source(m, s) ==
  [source |-> s, kind |-> Row[s].kind, review_state |-> m.register[s].review_state,
   latest |-> IF restricted(m, s) THEN {} ELSE { evidence_read(o, m.now) : o \in m.latest[s] }]

LEMMA DetailParts ==
  ASSUME NEW m, NEW t
  PROVE  LET read == get_terminal_detail(m, t) IN
         /\ read.summary = terminal_summary(m, t) /\ read.facts = displayable_facts(m, t)
         /\ read.sources = { detail_source(m, s) : s \in of_terminal(m, t) }
BY DEF get_terminal_detail, detail_source

\* What a source's row in the evidence list says.
LEMMA RowItem ==
  ASSUME NEW m, NEW at \in Time, MomentOK(m, at), NEW s \in Source
  PROVE  LET row == evidenceRow(detail_source(m, s)) IN
         row.id = s /\ Item("state", factText(row.value), row.tone, {}) = RowState(m, s)
<1> DEFINE source == detail_source(m, s)
           row == evidenceRow(source)
<1>1. /\ source.source = s /\ source.review_state = m.register[s].review_state
      /\ source.latest = IF restricted(m, s) THEN {} ELSE { evidence_read(o, m.now) : o \in m.latest[s] }
  BY DEF detail_source
<1>2. "restricted_user_open_only" \in SOURCE_STATE_CODES
  BY DEF SOURCE_STATE_CODES
<1> SUFFICES row.id = s /\ Item("state", factText(row.value), row.tone, {}) = RowState(m, s)
  OBVIOUS
<1> HIDE DEF row, source
<1>3. CASE restricted(m, s)
  <2> DEFINE lexeme == SOURCE_STATE_LEXICON["restricted_user_open_only"]
  <2>1. source.latest = {} /\ source.review_state = "restricted"
    BY <1>1, <1>3 DEF restricted
  <2>2. lexeme.label = "restricted_user_open_only"
    BY <1>2, LexemeForCode
  <2> HIDE DEF lexeme
  <2>3. row = [id |-> source.source, value |-> known(<<lexeme.label>>), tone |-> lexeme.tone]
    BY <2>1 DEF evidenceRow, lexeme, row
  <2>4. row.id = s /\ row.value = known(<<lexeme.label>>) /\ row.tone = lexeme.tone
    BY <1>1, <2>3
  <2>5. factText(row.value) = <<"restricted_user_open_only">>
    BY <2>2, <2>4, KnownText
  <2>6. RowState(m, s) = Lexed("restricted_user_open_only", {})
    BY <1>3 DEF RowState
  <2> QED
    BY <2>4, <2>5, <2>6 DEF Lexed, lexeme
<1>4. CASE ~restricted(m, s) /\ m.latest[s] = {}
  <2>1. source.latest = {} /\ source.review_state # "restricted"
    BY <1>1, <1>4 DEF restricted
  <2>2. row = [id |-> source.source, value |-> unknown("Not checked yet"), tone |-> "unknown"]
    BY <2>1 DEF evidenceRow, evidenceTone, row
  <2>3. row.id = s /\ row.value = unknown("Not checked yet") /\ row.tone = "unknown"
    BY <1>1, <2>2
  <2>4. factText(row.value) = <<"Unknown">>
    BY <2>3, UnknownText
  <2> QED
    BY <1>4, <2>3, <2>4 DEF RowState
<1>5. CASE ~restricted(m, s) /\ m.latest[s] # {}
  <2> DEFINE o == the(m.latest[s])
             code == effective(o, m.now)
  <2>1. m.latest[s] = {o} /\ o \in Observation
    BY <1>5, ReadingOfSource
  <2> HIDE DEF o
  <2>2. source.latest = {evidence_read(o, m.now)} /\ source.latest # {}
    BY <1>1, <1>5, <2>1
  <2>3. the(source.latest).state = code /\ code \in SOURCE_STATE_CODES
    <3>1. the(source.latest) = evidence_read(o, m.now)
      BY <2>2, TheOnly
    <3> QED
      BY <2>1, <3>1, EvidenceRead
  <2>4. lexemeFor(code) = SOURCE_STATE_LEXICON[code] /\ lexemeFor(code).label = code
    BY <2>3, LexemeForCode
  <2> HIDE DEF code
  <2>5. evidenceTone(source.latest) = SOURCE_STATE_LEXICON[code].tone
    BY <2>2, <2>3, <2>4 DEF evidenceTone
  <2>6. row = [id |-> source.source, value |-> known(<<lexemeFor(the(source.latest).state).label>>),
               tone |-> evidenceTone(source.latest)]
    BY <2>2 DEF evidenceRow, row
  <2>7. row.id = s /\ row.value = known(<<code>>) /\ row.tone = SOURCE_STATE_LEXICON[code].tone
    BY <1>1, <2>3, <2>4, <2>5, <2>6
  <2>8. factText(row.value) = <<code>>
    BY <2>7, KnownText
  <2>9. RowState(m, s) = Lexed(code, {})
    BY <1>5 DEF RowState, code, o
  <2> QED
    BY <2>7, <2>8, <2>9 DEF Lexed
<1> QED
  BY <1>3, <1>4, <1>5

LEMMA RowsShown ==
  ASSUME NEW m, NEW at \in Time, MomentOK(m, at), NEW t
  PROVE  EvidenceRows({ evidenceRow(source) : source \in get_terminal_detail(m, t).sources }) =
           { [about |-> <<"source", s>>, item |-> RowState(m, s)] : s \in of_terminal(m, t) }
<1> DEFINE row(s) == evidenceRow(detail_source(m, s))
           said(s) == About(<<"source", row(s).id>>,
                            { Item("state", factText(row(s).value), row(s).tone, {}) })
<1>1. get_terminal_detail(m, t).sources = { detail_source(m, s) : s \in of_terminal(m, t) }
  BY DetailParts
<1>2. { evidenceRow(source) : source \in get_terminal_detail(m, t).sources }
        = { row(s) : s \in of_terminal(m, t) }
  BY <1>1
<1>3. EvidenceRows({ row(s) : s \in of_terminal(m, t) }) = UNION { said(s) : s \in of_terminal(m, t) }
  BY DEF EvidenceRows
<1>4. ASSUME NEW s \in of_terminal(m, t)
      PROVE  said(s) = { [about |-> <<"source", s>>, item |-> RowState(m, s)] }
  <2>1. s \in Source
    BY OfTerminalIsSource
  <2>2. row(s).id = s /\ Item("state", factText(row(s).value), row(s).tone, {}) = RowState(m, s)
    BY <2>1, RowItem
  <2>3. said(s) = About(<<"source", s>>, {RowState(m, s)})
    BY <2>2
  <2> QED
    BY <2>3 DEF About
<1> HIDE DEF said, row
<1>5. UNION { said(s) : s \in of_terminal(m, t) }
        = { [about |-> <<"source", s>>, item |-> RowState(m, s)] : s \in of_terminal(m, t) }
  BY <1>4
<1> QED
  BY <1>2, <1>3, <1>5

LEMMA ThreeWords == \A a, b, c : <<a>> \o <<b, c>> = <<a, b, c>>
<1> SUFFICES ASSUME NEW a, NEW b, NEW c PROVE <<a>> \o <<b, c>> = <<a, b, c>>
  OBVIOUS
<1> DEFINE Words == {a, b, c}
<1>1. <<a>> \in Seq(Words) /\ <<b, c>> \in Seq(Words) /\ <<a, b, c>> \in Seq(Words)
  OBVIOUS
<1>2. /\ Len(<<a>>) = 1 /\ Len(<<b, c>>) = 2 /\ Len(<<a, b, c>>) = 3
      /\ <<a>>[1] = a /\ <<b, c>>[1] = b /\ <<b, c>>[2] = c
      /\ <<a, b, c>>[1] = a /\ <<a, b, c>>[2] = b /\ <<a, b, c>>[3] = c
  OBVIOUS
<1> DEFINE joined == <<a>> \o <<b, c>>
<1>3. joined \in Seq(Words) /\ Len(joined) = 3
  BY <1>1, <1>2, ConcatProperties
<1>4. joined[1] = a /\ joined[2] = b /\ joined[3] = c
  BY <1>1, <1>2, ConcatProperties
<1> HIDE DEF joined, Words
<1>5. \A i \in 1..Len(joined) : joined[i] = <<a, b, c>>[i]
  BY <1>2, <1>3, <1>4
<1>6. joined = <<a, b, c>>
  BY <1>1, <1>2, <1>3, <1>5, SeqEqual
<1> QED
  BY <1>6 DEF joined


\* How old the evidence is, and what the page says of itself.
LEMMA AgeItems ==
  ASSUME NEW m, NEW at \in Time, MomentOK(m, at), NEW t,
         NEW age \in ageView(terminal_summary(m, t), at), NEW item \in EvidenceAge(age)
  PROVE  Plain(item, m, t, at)
<1> DEFINE latest_ == terminal_summary(m, t).latest
           o == reading_of(m, t)
<1>1. PICK read \in latest_ : age =
        [sourceTime |-> IF read.source_time # {} THEN known(formatTimestamp(the(read.source_time)))
                        ELSE unknown("Page showed no timestamp"),
         observedAt |-> formatTimestamp(read.observed_at),
         ageText |-> formatAge(read.observed_at, at)]
  BY DEF ageView
<1>2. Worded(age.sourceTime)
  <2>1. Worded(known(formatTimestamp(the(read.source_time))))
    BY KnownWorded DEF Text, formatTimestamp
  <2>2. Worded(unknown("Page showed no timestamp"))
    BY UnknownWorded
  <2>3. age.sourceTime = IF read.source_time # {} THEN known(formatTimestamp(the(read.source_time)))
                         ELSE unknown("Page showed no timestamp")
    BY <1>1
  <2> QED
    BY <2>1, <2>2, <2>3
<1>3. CASE item \in FactValue("Page says", age.sourceTime)
  BY <1>2, <1>3, OtherFacts DEF Plain
<1>4. CASE item = Item("age", <<"We read it">> \o age.observedAt, "none", {age.ageText})
  <2>1. observed(m, t) # {} /\ read = evidence_read(o, m.now)
    BY <1>1, SummaryReading
  <2>2. o \in Observation
    BY <2>1, HeadlineReading
  <2> HIDE DEF o
  <2>3. read.observed_at = o.observed_at
    BY <2>1, <2>2, EvidenceRead
  <2>4. age.observedAt = <<"at", o.observed_at * MinutesPerTick>> /\ age.ageText = formatAge(o.observed_at, at)
    BY <1>1, <2>3 DEF formatTimestamp
  <2>5. <<"We read it">> \o <<"at", o.observed_at * MinutesPerTick>>
          = <<"We read it", "at", o.observed_at * MinutesPerTick>>
    BY ThreeWords
  <2>6. item = Item("age", <<"We read it", "at", o.observed_at * MinutesPerTick>>, "none",
                    {formatAge(o.observed_at, at)})
    BY <1>4, <2>4, <2>5
  <2> QED
    BY <2>1, <2>6 DEF Plain, ReadAt, o
<1> QED
  BY <1>3, <1>4 DEF EvidenceAge

\* What stands in the place of the age.
LEMMA AgesItems ==
  ASSUME NEW m, NEW at \in Time, MomentOK(m, at), NEW t,
         NEW item \in EvidenceAges(ageView(terminal_summary(m, t), at))
  PROVE  Plain(item, m, t, at)
<1> DEFINE ages == ageView(terminal_summary(m, t), at)
<1>1. CASE ages = {}
  <2>1. item = NotCheckedYet
    BY <1>1 DEF EvidenceAges, NotCheckedYet
  <2>2. TerminalState(m, t, at) = NotCheckedYet
    BY <1>1, TerminalBadge
  <2> QED
    BY <2>1, <2>2 DEF Plain
<1>2. CASE ages # {}
  <2>1. \E age \in ages : item \in EvidenceAge(age)
    BY <1>2 DEF EvidenceAges
  <2> QED
    BY <2>1, AgeItems
<1> QED
  BY <1>1, <1>2

LEMMA HistoricalItems ==
  ASSUME NEW item \in HistoricalStats, NEW m, NEW t, NEW at
  PROVE  Plain(item, m, t, at)
<1>1. ASSUME NEW label, label \notin {"Hours", "Parking"}, NEW note
      PROVE  Other(FactView(label, unknown(note)))
  BY <1>1, UnknownWorded, OtherFact
<1>2. PICK stat \in {FactView("Observed", unknown("Fewer than 30 days of checks")),
                     FactView("Successful checks", unknown("")), FactView("Since last", unknown("")),
                     FactView("Median published seats", unknown(""))} :
        item \in FactValue(stat.label, stat.value)
  BY DEF HistoricalStats, StatGrid
<1>3. Other(stat)
  BY <1>1, <1>2
<1> QED
  BY <1>2, <1>3, OtherFacts DEF Plain, Other

\* A terminal's page is true of the moment its detail was read at, and lists every source.
LEMMA DetailPage ==
  ASSUME NEW m, NEW at \in Time, MomentOK(m, at), NEW t \in m.terminals, NEW witnessed
  PROVE  LET items == TerminalDetailScreen(toTerminalDetailScreenModel(get_terminal_detail(m, t), at)) IN
         /\ \A statement \in items : Legit(statement, m, "terminal", t, witnessed, at)
         /\ \A s \in of_terminal(m, t) : [about |-> <<"source", s>>, item |-> RowState(m, s)] \in items
<1> DEFINE read == get_terminal_detail(m, t)
           summary == terminal_summary(m, t)
           model == toTerminalDetailScreenModel(read, at)
           rows == { evidenceRow(source) : source \in read.sources }
           stats == {FactView("Entrance", IF summary.entrance # {} THEN Entrance(summary)
                                          ELSE unknown("Not verified")),
                     FactView("Hours", factValue(read.facts, "counter_hours")),
                     FactView("Published opportunities", unknown("No approved schedule source yet")),
                     FactView("Parking", factValue(read.facts, "parking"))}
<1>1. read.summary = summary /\ read.facts = displayable_facts(m, t)
  BY DetailParts
<1> HIDE DEF read
<1>2. model = [status |-> "ready", terminal |-> toTerminalCard(summary, at),
               map |-> mapView({summary}, at), stats |-> stats, directions |-> summary.entrance,
               opportunitiesNote |-> opportunitiesNote(summary), age |-> ageView(summary, at),
               rows |-> rows]
  BY <1>1 DEF toTerminalDetailScreenModel
<1> HIDE DEF model, stats, rows
<1>3. /\ model.status = "ready" /\ model.terminal = toTerminalCard(summary, at)
      /\ model.map = mapView({summary}, at) /\ model.stats = stats
      /\ model.opportunitiesNote = opportunitiesNote(summary)
      /\ model.age = ageView(summary, at) /\ model.rows = rows
  BY <1>2
<1>4. /\ model.terminal.id = t
      /\ model.terminal.accessText = unknown("Not computed for a trip yet")
      /\ model.terminal.evidence = { toEvidenceView(r, at) : r \in summary.latest }
  <2> DEFINE card == toTerminalCard(terminal_summary(m, t), at)
  <2>1. model.terminal = card
    BY <1>3
  <2>2. /\ card.id = t /\ card.accessText = unknown("Not computed for a trip yet")
        /\ card.evidence = { toEvidenceView(r, at) : r \in terminal_summary(m, t).latest }
    BY DEF toTerminalCard, terminal_summary
  <2> HIDE DEF card
  <2> QED
    BY <2>1, <2>2
<1>5. TerminalDetailScreen(model)
        = MapSurface(model.map) \cup EvidenceRows(model.rows) \cup
          About(<<"terminal", t>>, TerminalPanels(model))
  BY <1>3, <1>4 DEF TerminalDetailScreen
<1>6. EvidenceRows(model.rows)
        = { [about |-> <<"source", s>>, item |-> RowState(m, s)] : s \in of_terminal(m, t) }
  BY <1>3, RowsShown DEF read, rows
<1>7. ASSUME NEW item \in TerminalPanels(model)
      PROVE  \/ Plain(item, m, t, at)
             \/ item.shape = "opportunities" /\ item.text = <<opportunitiesNote(summary)>>
  <2> DEFINE directions ==
        Item("note", <<IF model.directions # {} THEN "Directions" ELSE "No directions">>, "none", {})
  <2>1. \/ item \in SourceStateBadge(model.terminal.evidence)
        \/ item \in FactValue("From you", model.terminal.accessText)
        \/ item = directions
        \/ item = Item("opportunities", <<model.opportunitiesNote>>, "none", {})
        \/ item \in StatGrid(model.stats)
        \/ item \in EvidenceAges(model.age)
        \/ item \in HistoricalStats
    BY <1>7 DEF TerminalPanels
  <2>2. CASE item \in SourceStateBadge(model.terminal.evidence)
    BY <1>4, <2>2, BadgeItems
  <2>3. CASE item \in FactValue("From you", model.terminal.accessText)
    <3>1. Worded(model.terminal.accessText)
      BY <1>4, UnknownWorded
    <3> QED
      BY <2>3, <3>1, OtherFacts DEF Plain
  <2>4. CASE item = directions
    <3> DEFINE word == IF model.directions # {} THEN "Directions" ELSE "No directions"
    <3>1. word \notin {"Hours", "Parking"}
      OBVIOUS
    <3>2. item.shape = "note" /\ item.text = <<word>>
      BY <2>4 DEF Item
    <3> HIDE DEF word
    <3>3. item.text[1] = word
      BY <3>2
    <3>4. NoteAllowed(item.text, m, t)
      BY <3>1, <3>3, OtherNote
    <3> QED
      BY <3>2, <3>4 DEF FactSaid, Plain
  <2>5. CASE item = Item("opportunities", <<model.opportunitiesNote>>, "none", {})
    BY <1>3, <2>5 DEF Item
  <2>6. CASE item \in StatGrid(model.stats)
    <3>1. PICK stat \in stats : item \in FactValue(stat.label, stat.value)
      BY <1>3, <2>6 DEF StatGrid
    <3>2. CASE stat = FactView("Hours", factValue(read.facts, "counter_hours"))
      <4>1. item \in FactValue(FactLabel("counter_hours"), factValue(displayable_facts(m, t), "counter_hours"))
        BY <1>1, <3>1, <3>2 DEF FactView, FactLabel
      <4> QED
        BY <4>1, TerminalFacts DEF Plain
    <3>3. CASE stat = FactView("Parking", factValue(read.facts, "parking"))
      <4>1. item \in FactValue(FactLabel("parking"), factValue(displayable_facts(m, t), "parking"))
        BY <1>1, <3>1, <3>3 DEF FactView, FactLabel
      <4> QED
        BY <4>1, TerminalFacts DEF Plain
    <3>4. CASE Other(stat)
      BY <3>1, <3>4, OtherFacts DEF Plain, Other
    <3>5. Other(FactView("Published opportunities", unknown("No approved schedule source yet")))
      BY UnknownWorded, OtherFact
    <3>6. Other(FactView("Entrance", IF summary.entrance # {} THEN Entrance(summary)
                                     ELSE unknown("Not verified")))
      <4>1. Worded(IF summary.entrance # {} THEN Entrance(summary) ELSE unknown("Not verified"))
        BY UnknownWorded, KnownWorded DEF Text, Entrance
      <4> QED
        BY <4>1, OtherFact
    <3> QED
      BY <3>1, <3>2, <3>3, <3>4, <3>5, <3>6 DEF stats
  <2>7. CASE item \in EvidenceAges(model.age)
    BY <1>3, <2>7, AgesItems
  <2>9. CASE item \in HistoricalStats
    BY <2>9, HistoricalItems
  <2> QED
    BY <2>1, <2>2, <2>3, <2>4, <2>5, <2>6, <2>7, <2>9
<1>8. ASSUME NEW statement \in TerminalDetailScreen(model)
      PROVE  Legit(statement, m, "terminal", t, witnessed, at)
  <2>1. CASE statement \in MapSurface(model.map)
    <3>1. model.map = mapView({ terminal_summary(m, x) : x \in {t} }, at)
      BY <1>3
    <3>2. {t} # {} /\ statement \in MapSurface(mapView({ terminal_summary(m, x) : x \in {t} }, at))
      BY <2>1, <3>1
    <3>3. \/ statement.about = Page /\ statement.item.shape = "note"
          \/ \E x \in {t} : statement.about = <<"terminal", x>> /\ statement.item = TerminalState(m, x, at)
      BY <3>2, MapItems, Zenon
    <3> QED
      BY <3>3, NoteLegit, PlainLegit DEF Plain
  <2>2. CASE statement \in About(<<"terminal", t>>, TerminalPanels(model))
    <3>1. statement.about = <<"terminal", t>> /\ statement.item \in TerminalPanels(model)
      BY <2>2, AboutOne
    <3>2. CASE Plain(statement.item, m, t, at)
      BY <3>1, <3>2, PlainLegit
    <3>3. CASE statement.item.shape = "opportunities" /\ statement.item.text = <<opportunitiesNote(summary)>>
      <4>1. OfTerminal(statement.item, m, t, "terminal", t, witnessed, at)
        BY <3>3 DEF OfTerminal
      <4> QED
        BY <3>1, <4>1 DEF Legit
    <3> QED
      BY <1>7, <3>1, <3>2, <3>3
  <2>3. CASE statement \in EvidenceRows(model.rows)
    <3>1. PICK s \in of_terminal(m, t) : statement = [about |-> <<"source", s>>, item |-> RowState(m, s)]
      BY <1>6, <2>3
    <3>2. s \in registered(m) /\ statement.about = <<"source", s>> /\ statement.item = RowState(m, s)
      BY <3>1 DEF of_terminal
    <3> QED
      BY <3>2 DEF Legit, OfSource
  <2> QED
    BY <1>5, <2>1, <2>2, <2>3
<1>9. \A s \in of_terminal(m, t) :
        [about |-> <<"source", s>>, item |-> RowState(m, s)] \in TerminalDetailScreen(model)
  BY <1>5, <1>6
<1> QED
  BY <1>8, <1>9 DEF model, read

-------------------------------------------------------------------------------
(* The page of the sources *)

health_row(m, s) ==
  [source |-> s, review_state |-> m.register[s].review_state,
   kill_switched |-> m.register[s].stopped,
   cadence_minutes |-> Row[s].cadence, adapter |-> Row[s].adapter,
   latest |-> { evidence_read(o, m.now) : o \in m.latest[s] }]

LEMMA HealthRows ==
  ASSUME NEW m
  PROVE  list_source_health(m).rows = { health_row(m, s) : s \in registered(m) }
BY DEF list_source_health, health_row

LEMMA FactShape ==
  ASSUME NEW label, NEW fact, NEW item \in FactValue(label, fact)
  PROVE  item.shape \in {"fact", "note"}
BY DEF FactValue, Item

LEMMA HealthBadge ==
  ASSUME NEW m, NEW at \in Time, MomentOK(m, at), NEW s \in Source
  PROVE  SourceStateBadge({ toEvidenceView(read, at) : read \in health_row(m, s).latest })
           = {HealthState(m, s, at)}
<1>1. health_row(m, s).latest = { evidence_read(o, m.now) : o \in m.latest[s] }
  BY DEF health_row
<1>2. CASE m.latest[s] = {}
  <2>1. { toEvidenceView(read, at) : read \in health_row(m, s).latest } = {}
    BY <1>1, <1>2
  <2> QED
    BY <1>2, <2>1, EmptyBadge DEF HealthState
<1>3. CASE m.latest[s] # {}
  <2> DEFINE o == the(m.latest[s])
  <2>1. m.latest[s] = {o} /\ o \in Observation
    BY <1>3, ReadingOfSource
  <2>2. HealthState(m, s, at) = Lexed(effective(o, m.now), {formatAge(o.observed_at, at)})
    BY <1>3 DEF HealthState
  <2> HIDE DEF o
  <2>3. health_row(m, s).latest = {evidence_read(o, m.now)}
    BY <1>1, <2>1
  <2> QED
    BY <2>1, <2>2, <2>3, BadgeOfReading
<1> QED
  BY <1>2, <1>3

\* A row of the table says of its source what was registered and read.
LEMMA HealthRowItems ==
  ASSUME NEW m, NEW at \in Time, MomentOK(m, at), NEW s \in registered(m),
         NEW statement \in HealthTableRow(toSourceHealthRow(health_row(m, s), at)),
         NEW subject, NEW witnessed
  PROVE  Legit(statement, m, "advanced", subject, witnessed, at)
<1> DEFINE source == health_row(m, s)
           row == toSourceHealthRow(source, at)
           strip == {FactView("Page time", row.pageTime), FactView("We read it", row.readAt),
                     FactView("Cadence", row.cadence), FactView("Reader", row.reader)}
           stop == IF row.killSwitched THEN StatusPill("caution", <<"Stopped">>) ELSE {}
           items == StatusPill(APPROVAL_TONE[row.approval], <<row.approval>>) \cup stop \cup
                    SourceStateBadge(row.evidence) \cup FactStrip(strip)
<1>1. s \in Source
  BY DEF registered
<1>2. /\ source.source = s /\ source.review_state = m.register[s].review_state
      /\ source.kill_switched = m.register[s].stopped
  BY DEF health_row
<1>3. /\ row.id = source.source /\ row.approval = APPROVAL[source.review_state]
      /\ row.killSwitched = source.kill_switched
      /\ row.evidence = { toEvidenceView(read, at) : read \in source.latest }
  BY DEF toSourceHealthRow
<1> HIDE DEF row, source
<1>4. statement \in About(<<"source", row.id>>, items)
  BY DEF HealthTableRow, row, source
<1> HIDE DEF items, stop, strip
<1>5. statement.about = <<"source", s>> /\ statement.item \in items
  BY <1>2, <1>3, <1>4, AboutOne
<1>6. OfSource(statement.item, m, s, "advanced", at)
  <2>1. CASE statement.item \in StatusPill(APPROVAL_TONE[row.approval], <<row.approval>>)
    <3>1. statement.item = Item("pill", <<row.approval>>, APPROVAL_TONE[row.approval], {})
      BY <2>1, PillShape
    <3>2. statement.item = Approval(m, s)
      BY <1>2, <1>3, <3>1 DEF Approval
    <3> QED
      BY <3>2 DEF OfSource
  <2>2. CASE statement.item \in stop
    <3>1. statement.item \in StatusPill("caution", <<"Stopped">>) /\ row.killSwitched
      BY <2>2 DEF stop
    <3>2. statement.item = Stopped
      BY <3>1, PillShape DEF Stopped
    <3> QED
      BY <1>2, <1>3, <3>1, <3>2 DEF OfSource
  <2>3. CASE statement.item \in SourceStateBadge(row.evidence)
    <3>1. statement.item = HealthState(m, s, at)
      BY <1>1, <1>3, <2>3, HealthBadge DEF source
    <3> QED
      BY <3>1 DEF OfSource
  <2>4. CASE statement.item \in FactStrip(strip)
    <3>1. PICK view \in strip : statement.item \in FactValue(view.label, view.value)
      BY <2>4 DEF FactStrip
    <3> QED
      BY <3>1, FactShape DEF OfSource
  <2> QED
    BY <1>5, <2>1, <2>2, <2>3, <2>4 DEF items
<1> QED
  BY <1>5, <1>6 DEF Legit

LEMMA HealthScreenParts ==
  ASSUME NEW model, model.status = "ready", NEW statement \in SourceHealthScreen(model)
  PROVE  \/ statement \in About(Page,
              { Item("count", <<entry.state, entry.count>>, lexemeFor(entry.state).tone, {}) :
                  entry \in model.summary })
         \/ \E row \in model.rows : statement \in HealthTableRow(row)
         \/ statement \in
              { [about |-> <<"source", notice.id>>, item |-> Item("notice", <<notice.kind>>, "none", {})] :
                  notice \in model.notices }
<1> DEFINE counts == About(Page,
             { Item("count", <<entry.state, entry.count>>, lexemeFor(entry.state).tone, {}) :
                 entry \in model.summary })
           notices ==
             { [about |-> <<"source", notice.id>>, item |-> Item("notice", <<notice.kind>>, "none", {})] :
                 notice \in model.notices }
<1>1. SourceHealthScreen(model) = counts \cup HealthTable(model.rows) \cup notices
  BY DEF SourceHealthScreen
<1> HIDE DEF counts, notices
<1>2. statement \in counts \/ statement \in HealthTable(model.rows) \/ statement \in notices
  BY <1>1
<1>3. statement \in HealthTable(model.rows) => \E row \in model.rows : statement \in HealthTableRow(row)
  BY DEF HealthTable
<1> QED
  BY <1>2, <1>3 DEF counts, notices

\* The page of the sources is true of the moment the API was read at.
LEMMA HealthPage ==
  ASSUME NEW m, NEW at \in Time, MomentOK(m, at), NEW subject, NEW witnessed,
         NEW statement \in SourceHealthScreen(toSourceHealthScreenModel(list_source_health(m), at))
  PROVE  Legit(statement, m, "advanced", subject, witnessed, at)
<1> DEFINE read == list_source_health(m)
           model == toSourceHealthScreenModel(read, at)
           counts == { Item("count", <<entry.state, entry.count>>, lexemeFor(entry.state).tone, {}) :
                         entry \in model.summary }
           notices == { [about |-> <<"source", notice.id>>, item |->
                            Item("notice", <<notice.kind>>, "none", {})] :
                          notice \in model.notices }
<1>1. read.rows = { health_row(m, s) : s \in registered(m) }
  BY HealthRows
<1>2. /\ model.status = IF read.rows # {} THEN "ready" ELSE "empty"
      /\ model.rows = { toSourceHealthRow(row, at) : row \in read.rows }
      /\ model.notices = toNotices(read.rows)
  BY DEF toSourceHealthScreenModel
<1>3. statement \in SourceHealthScreen(model)
  OBVIOUS
<1> HIDE DEF model, read
<1>4. CASE registered(m) = {}
  <2>1. model.status = "empty"
    BY <1>1, <1>2, <1>4
  <2>2. statement \in EmptyState("No sources are being checked yet")
    BY <1>3, <2>1 DEF SourceHealthScreen
  <2>3. statement.about = Page /\ statement.item.shape = "empty"
    BY <2>2, PageStatement DEF EmptyState
  <2> QED
    BY <1>4, <2>3 DEF Legit, OfPage
<1>5. CASE registered(m) # {}
  <2>1. model.status = "ready"
    BY <1>1, <1>2, <1>5
  <2>2. \/ statement \in About(Page, counts)
        \/ \E row \in model.rows : statement \in HealthTableRow(row)
        \/ statement \in notices
    BY <1>3, <2>1, HealthScreenParts
  <2>3. CASE statement \in About(Page, counts)
    <3>1. statement.about = Page /\ statement.item \in counts
      BY <2>3, AboutOne
    <3>2. statement.item.shape = "count"
      BY <3>1 DEF Item
    <3> QED
      BY <3>1, <3>2, NoteLegit
  <2>4. CASE \E row \in model.rows : statement \in HealthTableRow(row)
    <3>1. PICK s \in registered(m) : statement \in HealthTableRow(toSourceHealthRow(health_row(m, s), at))
      BY <1>1, <1>2, <2>4
    <3> QED
      BY <3>1, HealthRowItems
  <2>5. CASE statement \in notices
    <3>1. PICK notice \in toNotices(read.rows) : statement =
            [about |-> <<"source", notice.id>>, item |-> Item("notice", <<notice.kind>>, "none", {})]
      BY <1>2, <2>5
    <3>2. PICK row \in read.rows : notice.id = row.source
      BY DEF toNotices
    <3>3. PICK s \in registered(m) : row = health_row(m, s)
      BY <1>1
    <3>4. notice.id = s
      BY <3>2, <3>3 DEF health_row
    <3>5. statement.about = <<"source", s>> /\ statement.item = Item("notice", <<notice.kind>>, "none", {})
      BY <3>1, <3>4
    <3>6. OfSource(statement.item, m, s, "advanced", at)
      BY <3>5 DEF OfSource, Item
    <3> QED
      BY <3>5, <3>6 DEF Legit
  <2> QED
    BY <2>2, <2>3, <2>4, <2>5
<1> QED
  BY <1>4, <1>5

-------------------------------------------------------------------------------
(* The terminals of a trip's page *)

LEMMA NetworkTerminals ==
  ASSUME NEW m
  PROVE  /\ { summary.terminal : summary \in list_terminal_network(m) } = m.terminals
         /\ \A t \in m.terminals :
              (CHOOSE summary \in list_terminal_network(m) : summary.terminal = t) = terminal_summary(m, t)
<1>1. list_terminal_network(m) = { terminal_summary(m, t) : t \in m.terminals }
  BY DEF list_terminal_network
<1>2. \A t : terminal_summary(m, t).terminal = t
  BY DEF terminal_summary
<1>3. { summary.terminal : summary \in list_terminal_network(m) } = m.terminals
  BY <1>1, <1>2
<1>4. ASSUME NEW t \in m.terminals
      PROVE  (CHOOSE summary \in list_terminal_network(m) : summary.terminal = t) = terminal_summary(m, t)
  <2>1. \A summary \in list_terminal_network(m) : summary.terminal = t => summary = terminal_summary(m, t)
    BY <1>1, <1>2
  <2>2. terminal_summary(m, t) \in list_terminal_network(m) /\ terminal_summary(m, t).terminal = t
    BY <1>1, <1>2
  <2> QED
    BY <2>1, <2>2
<1> QED
  BY <1>3, <1>4

\* "No 72-hour schedule source is registered" is said of a detail that was read and had none.
LEMMA ScheduleText ==
  ASSUME NEW detail, NEW t, NEW witnessed, witnessed \subseteq moments,
         \/ \E failure \in Failure : detail = [result |-> failure]
         \/ \E n \in witnessed : detail = Answer(n, "terminal", t)
  PROVE  LET schedule == scheduleFact(detail) IN
         ScheduleAllowed(IF schedule.status = "known" THEN schedule.value ELSE schedule.note, t, witnessed)
<1> DEFINE schedule == scheduleFact(detail)
           text == IF schedule.status = "known" THEN schedule.value ELSE schedule.note
<1> SUFFICES ScheduleAllowed(text, t, witnessed)
  OBVIOUS
<1>1. CASE detail.result # "ok"
  <2>1. text = <<"could not load this terminal's schedule link">>
    BY <1>1 DEF scheduleFact, unknown
  <2> HIDE DEF text
  <2>2. text # <<"No 72-hour schedule source is registered">>
    BY <2>1
  <2> QED
    BY <2>2 DEF ScheduleAllowed
<1>2. CASE detail.result = "ok"
  <2>1. PICK n \in witnessed : detail = Answer(n, "terminal", t)
    <3>1. \A failure \in Failure : [result |-> failure].result # "ok"
      BY DEF Failure
    <3> QED
      BY <1>2, <3>1
  <2>2. t \in n.terminals /\ detail = Ok(get_terminal_detail(n, t))
    BY <1>2, <2>1 DEF Answer
  <2>3. detail.value.sources = { detail_source(n, s) : s \in of_terminal(n, t) }
    BY <2>2, DetailParts DEF Ok
  <2>4. CASE \E source \in detail.value.sources : source.kind = "schedule_artifact"
    <3>1. text = <<"72-hour schedule">>
      BY <1>2, <2>4 DEF scheduleFact, known
    <3> HIDE DEF text
    <3>2. text # <<"No 72-hour schedule source is registered">>
      BY <3>1
    <3> QED
      BY <3>2 DEF ScheduleAllowed
  <2>5. CASE \A source \in detail.value.sources : source.kind # "schedule_artifact"
    <3>1. \A s \in of_terminal(n, t) : Row[s].kind # "schedule_artifact"
      <4> SUFFICES ASSUME NEW s \in of_terminal(n, t) PROVE Row[s].kind # "schedule_artifact"
        OBVIOUS
      <4>1. detail_source(n, s) \in detail.value.sources
        BY <2>3
      <4>2. detail_source(n, s).kind = Row[s].kind
        BY DEF detail_source
      <4> QED
        BY <2>5, <4>1, <4>2
    <3> HIDE DEF text
    <3> QED
      BY <2>1, <3>1 DEF ScheduleAllowed
  <2> QED
    BY <2>4, <2>5
<1> QED
  BY <1>1, <1>2

\* The card of a terminal to check.
LEMMA ToCheckItems ==
  ASSUME NEW m, NEW at \in Time, MomentOK(m, at), NEW t, NEW origin, NEW detail, NEW witnessed,
         LET schedule == scheduleFact(detail) IN
           ScheduleAllowed(IF schedule.status = "known" THEN schedule.value ELSE schedule.note, t, witnessed)
  PROVE  LET card == TerminalToCheckCard(terminalToCheckRow(terminal_summary(m, t), origin, detail, at)) IN
         /\ \A statement \in card :
              /\ statement.about = <<"terminal", t>>
              /\ OfTerminal(statement.item, m, t, "trip", origin, witnessed, at)
         /\ [about |-> <<"terminal", t>>, item |-> TerminalState(m, t, at)] \in card
<1> DEFINE summary == terminal_summary(m, t)
           row == terminalToCheckRow(summary, origin, detail, at)
           schedule == scheduleFact(detail)
           text == IF schedule.status = "known" THEN schedule.value ELSE schedule.note
           yours == IF row.isOrigin THEN { Item("note", <<"Your origin">>, "none", {}) } ELSE {}
           planned == { Item("schedule", IF row.schedule.status = "known" THEN row.schedule.value
                                         ELSE row.schedule.note, "none", {}) }
           items == SourceStateBadge(row.evidence) \cup yours \cup
                    EvidenceAges(row.age) \cup FactStrip(row.facts) \cup planned
<1>1. /\ row.id = t /\ row.evidence = { toEvidenceView(read, at) : read \in summary.latest }
      /\ row.age = ageView(summary, at) /\ row.schedule = scheduleFact(detail)
      /\ row.facts = ALWAYS_UNKNOWN_FACTS
  BY DEF terminalToCheckRow, terminal_summary
<1> HIDE DEF row
<1>2. TerminalToCheckCard(row) = About(<<"terminal", row.id>>, items)
  BY DEF TerminalToCheckCard
<1> HIDE DEF items, yours, planned
<1>3. TerminalToCheckCard(row) = About(<<"terminal", t>>, items)
  BY <1>1, <1>2
<1>4. ASSUME NEW item \in items PROVE OfTerminal(item, m, t, "trip", origin, witnessed, at)
  <2>1. CASE item \in SourceStateBadge(row.evidence)
    BY <1>1, <2>1, BadgeItems DEF OfTerminal
  <2>2. CASE item \in yours
    <3>1. item = Item("note", <<"Your origin">>, "none", {})
      BY <2>2 DEF yours
    <3>2. item.shape = "note" /\ item.text = <<"Your origin">>
      BY <3>1 DEF Item
    <3>3. item.text[1] = "Your origin"
      <4>1. <<"Your origin">>[1] = "Your origin"
        OBVIOUS
      <4> QED
        BY <3>2, <4>1
    <3>4. NoteAllowed(item.text, m, t)
      BY <3>3, OtherNote
    <3> QED
      BY <3>2, <3>4 DEF FactSaid, Plain, OfTerminal
  <2>3. CASE item \in EvidenceAges(row.age)
    BY <1>1, <2>3, AgesItems DEF OfTerminal
  <2>4. CASE item \in FactStrip(row.facts)
    <3>1. PICK view \in ALWAYS_UNKNOWN_FACTS : item \in FactValue(view.label, view.value)
      BY <1>1, <2>4 DEF FactStrip
    <3>2. ASSUME NEW label, label \notin {"Hours", "Parking"}, NEW note
          PROVE  Other(FactView(label, unknown(note)))
      BY <3>2, UnknownWorded, OtherFact
    <3>3. Other(view)
      BY <3>1, <3>2 DEF ALWAYS_UNKNOWN_FACTS
    <3> QED
      BY <3>1, <3>3, OtherFacts DEF OfTerminal, Plain, Other
  <2>5. CASE item \in planned
    <3>1. item = Item("schedule", text, "none", {})
      BY <1>1, <2>5 DEF planned
    <3>2. item.shape = "schedule" /\ item.text = text
      BY <3>1 DEF Item
    <3> QED
      BY <3>2 DEF OfTerminal
  <2> QED
    BY <2>1, <2>2, <2>3, <2>4, <2>5 DEF items
<1>5. ASSUME NEW statement \in TerminalToCheckCard(row)
      PROVE  statement.about = <<"terminal", t>>
             /\ OfTerminal(statement.item, m, t, "trip", origin, witnessed, at)
  <2>1. statement.about = <<"terminal", t>> /\ statement.item \in items
    BY <1>3, AboutOne
  <2> QED
    BY <1>4, <2>1
<1>6. [about |-> <<"terminal", t>>, item |-> TerminalState(m, t, at)] \in TerminalToCheckCard(row)
  <2>1. TerminalState(m, t, at) \in SourceStateBadge(row.evidence)
    BY <1>1, TerminalBadge
  <2>2. TerminalState(m, t, at) \in items
    BY <2>1 DEF items
  <2> QED
    BY <1>3, <2>2, AboutEach
<1> QED
  BY <1>5, <1>6 DEF row

\* A trip's page lists the terminals of the moment its network was read at.
LEMMA TripTerminals ==
  ASSUME NEW m, NEW at \in Time, MomentOK(m, at), NEW origin \in m.terminals, NEW details,
         \A t \in m.terminals :
           \/ \E failure \in Failure : details[t] = [result |-> failure]
           \/ \E n \in moments : details[t] = Answer(n, "terminal", t)
  PROVE  LET rows == toTerminalsToCheckViewModel(origin, list_terminal_network(m), details, at) IN
         /\ \A statement \in TerminalsToCheck(rows) : Legit(statement, m, "trip", origin, moments, at)
         /\ [i \in DOMAIN rows |-> rows[i].id] = orderTerminals(m.terminals, origin)
         /\ \A t \in m.terminals :
              [about |-> <<"terminal", t>>, item |-> TerminalState(m, t, at)] \in TerminalsToCheck(rows)
<1> DEFINE network == list_terminal_network(m)
           of(t) == CHOOSE summary \in network : summary.terminal = t
           ordered == orderTerminals(m.terminals, origin)
           rows == toTerminalsToCheckViewModel(origin, network, details, at)
           row(t) == terminalToCheckRow(terminal_summary(m, t), origin, details[t], at)
<1>1. m.terminals \subseteq Nat /\ IsFiniteSet(m.terminals)
  BY FS_Subset, TerminalAssumption DEF MomentOK
<1>2. ordered \in Seq(m.terminals) /\ ToSet(ordered) = m.terminals
  BY <1>1, OriginThenByName
<1>3. /\ { summary.terminal : summary \in network } = m.terminals
      /\ \A t \in m.terminals : of(t) = terminal_summary(m, t)
  BY NetworkTerminals
<1>4. rows = [i \in DOMAIN ordered |-> terminalToCheckRow(of(ordered[i]), origin, details[ordered[i]], at)]
  <2> DEFINE ids == { summary.terminal : summary \in network }
  <2>1. rows = [i \in DOMAIN orderTerminals(ids, origin) |->
                  terminalToCheckRow(of(orderTerminals(ids, origin)[i]), origin,
                                     details[orderTerminals(ids, origin)[i]], at)]
    BY DEF toTerminalsToCheckViewModel
  <2>2. orderTerminals(ids, origin) = ordered
    BY <1>3
  <2> HIDE DEF rows, ordered, network, of, ids
  <2> QED
    BY <2>1, <2>2
<1> HIDE DEF rows, ordered, network, of
<1>5. /\ DOMAIN rows = DOMAIN ordered
      /\ \A i \in DOMAIN ordered : ordered[i] \in m.terminals /\ rows[i] = row(ordered[i])
  <2>1. \A i \in DOMAIN ordered : ordered[i] \in m.terminals
    BY <1>2
  <2> QED
    BY <1>3, <1>4, <2>1
<1>6. \A t : row(t).id = t
  BY DEF terminalToCheckRow, terminal_summary
<1>7. ASSUME NEW t \in m.terminals
      PROVE  /\ \A statement \in TerminalToCheckCard(row(t)) :
                  Legit(statement, m, "trip", origin, moments, at)
             /\ [about |-> <<"terminal", t>>, item |-> TerminalState(m, t, at)]
                  \in TerminalToCheckCard(row(t))
  <2>1. /\ \A statement \in TerminalToCheckCard(row(t)) :
             /\ statement.about = <<"terminal", t>>
             /\ OfTerminal(statement.item, m, t, "trip", origin, moments, at)
        /\ [about |-> <<"terminal", t>>, item |-> TerminalState(m, t, at)] \in TerminalToCheckCard(row(t))
    <3> DEFINE schedule == scheduleFact(details[t])
    <3>1. ScheduleAllowed(IF schedule.status = "known" THEN schedule.value ELSE schedule.note, t, moments)
      BY ScheduleText
    <3> QED
      BY <3>1, ToCheckItems
  <2> QED
    BY <2>1 DEF Legit
<1> HIDE DEF row
<1>8. ASSUME NEW statement \in TerminalsToCheck(rows)
      PROVE  Legit(statement, m, "trip", origin, moments, at)
  <2>1. \/ statement \in About(Page, { Item("note", <<"not a ranking">>, "none", {}),
                                       Item("note", <<"does not read departure schedules">>, "none", {}) })
        \/ \E i \in DOMAIN rows : statement \in TerminalToCheckCard(rows[i])
    BY DEF TerminalsToCheck
  <2>2. CASE statement \in About(Page, { Item("note", <<"not a ranking">>, "none", {}),
                                         Item("note", <<"does not read departure schedules">>, "none", {}) })
    <3>1. statement.about = Page
          /\ statement.item \in { Item("note", <<"not a ranking">>, "none", {}),
                                 Item("note", <<"does not read departure schedules">>, "none", {}) }
      BY <2>2, AboutOne
    <3>2. statement.item.shape = "note"
      <4>1. PICK text : statement.item = Item("note", text, "none", {})
        BY <3>1
      <4> QED
        BY <4>1, ItemShape
    <3> QED
      BY <3>1, <3>2, NoteLegit
  <2>3. CASE \E i \in DOMAIN rows : statement \in TerminalToCheckCard(rows[i])
    BY <1>5, <1>7, <2>3
  <2> QED
    BY <2>1, <2>2, <2>3
<1>9. [i \in DOMAIN rows |-> rows[i].id] = ordered
  <2>1. ordered = [i \in DOMAIN ordered |-> ordered[i]]
    BY <1>2
  <2>2. \A i \in DOMAIN ordered : rows[i].id = ordered[i]
    BY <1>5, <1>6
  <2> QED
    BY <1>5, <2>1, <2>2
<1>10. ASSUME NEW t \in m.terminals
       PROVE  [about |-> <<"terminal", t>>, item |-> TerminalState(m, t, at)] \in TerminalsToCheck(rows)
  <2>1. PICK i \in DOMAIN ordered : ordered[i] = t
    BY <1>2 DEF ToSet
  <2>2. i \in DOMAIN rows /\ rows[i] = row(t)
    BY <1>5, <2>1
  <2>3. TerminalToCheckCard(rows[i]) \subseteq TerminalsToCheck(rows)
    BY <2>2 DEF TerminalsToCheck
  <2> QED
    BY <1>7, <2>2, <2>3
<1> QED
  BY <1>8, <1>9, <1>10 DEF rows, ordered, network

-------------------------------------------------------------------------------
(* Rendering *)

\* A page that only says that something failed is true whatever the moment.
LEMMA ErrorTruthful ==
  ASSUME NEW view, NEW title, view = Shows(ErrorState(title)),
         NEW witnessed, witnessed # {}, NEW page, NEW subject, NEW at
  PROVE  Truthful(view, page, subject, witnessed, at)
<1>1. view.items = ErrorState(title)
  BY DEF Shows
<1>2. PICK m \in witnessed : TRUE
  OBVIOUS
<1>3. \A statement \in view.items :
        /\ statement.about = Page /\ statement.item.shape = "error"
        /\ Legit(statement, m, page, subject, witnessed, at)
  BY <1>1, ErrorLegit
<1>4. \E statement \in view.items : statement.about = Page /\ statement.item.shape = "error"
  <2>1. [about |-> Page, item |-> Item("error", <<title>>, "caution", {})] \in view.items
    BY <1>1, AboutEach DEF ErrorState
  <2> QED
    BY <1>3, <2>1
<1>5. RowsListed(view.items, m, subject)
  BY <1>3 DEF RowsListed
<1>6. TerminalsListed(view.items, view.order, m, subject, at)
  BY <1>4 DEF TerminalsListed
<1> QED
  BY <1>2, <1>3, <1>5, <1>6 DEF Truthful

LEMMA AnswerResult ==
  ASSUME NEW answer, NEW page, NEW t, AnswerOK(answer, page, t, moments),
         page \in {"terminals", "terminal", "advanced"}
  PROVE  \/ answer.result \in Failure
         \/ \E m \in moments : answer.result = "ok" /\
              \/ page = "terminals" /\ answer.value = list_terminal_network(m)
              \/ page = "advanced" /\ answer.value = list_source_health(m)
              \/ page = "terminal" /\ t \in m.terminals /\ answer.value = get_terminal_detail(m, t)
         \/ \E m \in moments : answer.result = "not_found" /\ page = "terminal" /\ t \notin m.terminals
<1>1. CASE \E failure \in Failure : answer = [result |-> failure]
  BY <1>1
<1>2. CASE \E m \in moments : answer = Answer(m, page, t)
  <2>1. PICK m \in moments : answer = Answer(m, page, t)
    BY <1>2
  <2>2. CASE page = "terminals"
    <3>1. answer = Ok(list_terminal_network(m))
      BY <2>1, <2>2 DEF Answer
    <3> QED
      BY <2>2, <3>1 DEF Ok
  <2>3. CASE page = "advanced"
    <3>1. answer = Ok(list_source_health(m))
      BY <2>1, <2>3 DEF Answer
    <3> QED
      BY <2>3, <3>1 DEF Ok
  <2>4. CASE page = "terminal" /\ t \in m.terminals
    <3>1. answer = Ok(get_terminal_detail(m, t))
      BY <2>1, <2>4 DEF Answer
    <3> QED
      BY <2>4, <3>1 DEF Ok
  <2>5. CASE page = "terminal" /\ t \notin m.terminals
    <3>1. answer = [result |-> "not_found"]
      BY <2>1, <2>5 DEF Answer
    <3> QED
      BY <2>5, <3>1
  <2> QED
    BY <2>2, <2>3, <2>4, <2>5
<1> QED
  BY <1>1, <1>2 DEF AnswerOK

\* What is rendered of an answer is true of a moment since the click.
LEMMA TerminalsPageTruthful ==
  ASSUME MomentsOK, now \in Time, moment \in moments, NEW read, NEW subject,
         AnswerOK(read, "terminals", subject, moments)
  PROVE  Truthful(TerminalsPage(read), "terminals", subject, moments, now)
<1>1. CASE read.result \in Failure
  <2>1. \E title : TerminalsPage(read) = Shows(ErrorState(title))
    <3>1. CASE read.result = "not_configured"
      <4>1. TerminalsPage(read) = Shows(NotConfigured)
        BY <3>1 DEF TerminalsPage
      <4> QED
        BY <4>1 DEF NotConfigured
    <3>2. CASE read.result = "unavailable"
      <4> DEFINE failed == [status |-> "error", map |-> mapView({}, now), terminals |-> {}]
      <4>1. TerminalsPage(read) = Shows(TerminalNetworkScreen(failed))
        BY <3>2 DEF TerminalsPage
      <4>2. failed.status = "error"
        OBVIOUS
      <4> HIDE DEF failed
      <4>3. TerminalNetworkScreen(failed) = ErrorState("We could not load the terminal network")
        BY <4>2 DEF TerminalNetworkScreen
      <4> QED
        BY <4>1, <4>3
    <3> QED
      BY <1>1, <3>1, <3>2 DEF Failure
  <2> QED
    BY <2>1, ErrorTruthful
<1>2. CASE \E m \in moments : read.result = "ok" /\ read.value = list_terminal_network(m)
  <2>1. PICK m \in moments : read.result = "ok" /\ read.value = list_terminal_network(m)
    BY <1>2
  <2>2. MomentOK(m, now)
    BY DEF MomentsOK
  <2>3. TerminalsPage(read).items
          = TerminalNetworkScreen(toTerminalNetworkScreenModel(list_terminal_network(m), now))
    BY <2>1 DEF TerminalsPage, Shows
  <2>4. \A statement \in TerminalsPage(read).items : Legit(statement, m, "terminals", subject, moments, now)
    BY <2>2, <2>3, NetworkPage
  <2> QED
    BY <2>4 DEF Truthful
<1> QED
  BY <1>1, <1>2, AnswerResult

LEMMA DetailPageTruthful ==
  ASSUME MomentsOK, now \in Time, moment \in moments, NEW read, NEW t, AnswerOK(read, "terminal", t, moments)
  PROVE  Truthful(TerminalDetailPage(read), "terminal", t, moments, now)
<1>1. CASE read.result \in Failure
  <2>1. \E title : TerminalDetailPage(read) = Shows(ErrorState(title))
    <3>1. CASE read.result = "not_configured"
      <4>1. TerminalDetailPage(read) = Shows(NotConfigured)
        BY <3>1 DEF TerminalDetailPage
      <4> QED
        BY <4>1 DEF NotConfigured
    <3>2. CASE read.result = "unavailable"
      <4>1. TerminalDetailPage(read) = Shows(TerminalDetailScreen([status |-> "error"]))
        BY <3>2 DEF TerminalDetailPage
      <4>2. TerminalDetailScreen([status |-> "error"]) = ErrorState("We could not load this terminal")
        BY DEF TerminalDetailScreen
      <4> QED
        BY <4>1, <4>2
    <3> QED
      BY <1>1, <3>1, <3>2 DEF Failure
  <2> QED
    BY <2>1, ErrorTruthful
<1>2. CASE \E m \in moments : read.result = "not_found" /\ t \notin m.terminals
  <2>1. PICK m \in moments : read.result = "not_found" /\ t \notin m.terminals
    BY <1>2
  <2>2. TerminalDetailPage(read).items = NotFound
    BY <2>1 DEF TerminalDetailPage, Shows
  <2>3. ASSUME NEW statement \in TerminalDetailPage(read).items
        PROVE  statement.about = Page /\ statement.item.shape = "not_found"
    BY <2>2, PageStatement DEF NotFound
  <2>4. \A statement \in TerminalDetailPage(read).items : Legit(statement, m, "terminal", t, moments, now)
    BY <2>1, <2>3 DEF Legit, OfPage
  <2>5. RowsListed(TerminalDetailPage(read).items, m, t)
    BY <2>3 DEF RowsListed
  <2> QED
    BY <2>4, <2>5 DEF Truthful
<1>3. CASE \E m \in moments :
        read.result = "ok" /\ t \in m.terminals /\ read.value = get_terminal_detail(m, t)
  <2>1. PICK m \in moments :
          read.result = "ok" /\ t \in m.terminals /\ read.value = get_terminal_detail(m, t)
    BY <1>3
  <2>2. MomentOK(m, now)
    BY DEF MomentsOK
  <2>3. TerminalDetailPage(read).items
          = TerminalDetailScreen(toTerminalDetailScreenModel(get_terminal_detail(m, t), now))
    BY <2>1 DEF TerminalDetailPage, Shows
  <2>4. /\ \A statement \in TerminalDetailPage(read).items : Legit(statement, m, "terminal", t, moments, now)
        /\ \A s \in of_terminal(m, t) :
             [about |-> <<"source", s>>, item |-> RowState(m, s)] \in TerminalDetailPage(read).items
    BY <2>1, <2>2, <2>3, DetailPage
  <2> QED
    BY <2>4 DEF Truthful, RowsListed
<1> QED
  BY <1>1, <1>2, <1>3, AnswerResult

LEMMA AdvancedPageTruthful ==
  ASSUME MomentsOK, now \in Time, moment \in moments, NEW read, NEW subject,
         AnswerOK(read, "advanced", subject, moments)
  PROVE  Truthful(AdvancedPage(read), "advanced", subject, moments, now)
<1>1. CASE read.result \in Failure
  <2>1. \E title : AdvancedPage(read) = Shows(ErrorState(title))
    <3>1. CASE read.result = "not_configured"
      <4>1. AdvancedPage(read) = Shows(NotConfigured)
        BY <3>1 DEF AdvancedPage
      <4> QED
        BY <4>1 DEF NotConfigured
    <3>2. CASE read.result = "unavailable"
      <4> DEFINE failed == [emptySourceHealth EXCEPT !.status = "error"]
      <4>1. AdvancedPage(read) = Shows(SourceHealthScreen(failed))
        BY <3>2 DEF AdvancedPage
      <4>2. failed.status = "error"
        BY DEF emptySourceHealth
      <4> HIDE DEF failed
      <4>3. SourceHealthScreen(failed) = ErrorState("We could not load source health")
        BY <4>2 DEF SourceHealthScreen
      <4> QED
        BY <4>1, <4>3
    <3> QED
      BY <1>1, <3>1, <3>2 DEF Failure
  <2> QED
    BY <2>1, ErrorTruthful
<1>2. CASE \E m \in moments : read.result = "ok" /\ read.value = list_source_health(m)
  <2>1. PICK m \in moments : read.result = "ok" /\ read.value = list_source_health(m)
    BY <1>2
  <2>2. MomentOK(m, now)
    BY DEF MomentsOK
  <2>3. AdvancedPage(read).items = SourceHealthScreen(toSourceHealthScreenModel(list_source_health(m), now))
    BY <2>1 DEF AdvancedPage, Shows
  <2>4. \A statement \in AdvancedPage(read).items : Legit(statement, m, "advanced", subject, moments, now)
    BY <2>2, <2>3, HealthPage
  <2> QED
    BY <2>4 DEF Truthful
<1> QED
  BY <1>1, <1>2, AnswerResult

LEMMA TripPageTruthful ==
  ASSUME MomentsOK, now \in Time, moment \in moments, NEW read, NEW origin,
         \A m \in moments : origin \in m.terminals, AnswerOK(read, "terminals", origin, moments), NEW details,
         read.result = "ok" => \A summary \in read.value :
           AnswerOK(details[summary.terminal], "terminal", summary.terminal, moments)
  PROVE  Truthful(TripPage(read, origin, details), "trip", origin, moments, now)
<1>1. CASE read.result \in Failure
  <2>1. TripPage(read, origin, details) = Shows(ErrorState("We could not load the terminals to check"))
    BY <1>1 DEF TripPage, Failure
  <2> QED
    BY <2>1, ErrorTruthful
<1>2. CASE \E m \in moments : read.result = "ok" /\ read.value = list_terminal_network(m)
  <2>1. PICK m \in moments : read.result = "ok" /\ read.value = list_terminal_network(m)
    BY <1>2
  <2> DEFINE view == TripPage(read, origin, details)
             rows == toTerminalsToCheckViewModel(origin, list_terminal_network(m), details, now)
  <2>2. MomentOK(m, now) /\ origin \in m.terminals
    BY DEF MomentsOK
  <2>3. view = [items |-> TerminalsToCheck(rows), order |-> [i \in DOMAIN rows |-> rows[i].id]]
    BY <2>1 DEF TripPage
  <2>4. ASSUME NEW t \in m.terminals
        PROVE  \/ \E failure \in Failure : details[t] = [result |-> failure]
               \/ \E n \in moments : details[t] = Answer(n, "terminal", t)
    <3>1. terminal_summary(m, t) \in read.value /\ terminal_summary(m, t).terminal = t
      BY <2>1 DEF list_terminal_network, terminal_summary
    <3>2. AnswerOK(details[t], "terminal", t, moments)
      BY <2>1, <3>1
    <3> QED
      BY <3>2 DEF AnswerOK
  <2>5. /\ \A statement \in TerminalsToCheck(rows) : Legit(statement, m, "trip", origin, moments, now)
        /\ [i \in DOMAIN rows |-> rows[i].id] = orderTerminals(m.terminals, origin)
        /\ \A t \in m.terminals :
             [about |-> <<"terminal", t>>, item |-> TerminalState(m, t, now)] \in TerminalsToCheck(rows)
    BY <2>2, <2>4, TripTerminals
  <2> HIDE DEF rows, view
  <2>6. view.items = TerminalsToCheck(rows) /\ view.order = orderTerminals(m.terminals, origin)
    BY <2>3, <2>5
  <2>7. /\ \A statement \in view.items : Legit(statement, m, "trip", origin, moments, now)
        /\ TerminalsListed(view.items, view.order, m, origin, now)
    BY <2>5, <2>6 DEF TerminalsListed
  <2> QED
    BY <2>7 DEF Truthful, view
<1> QED
  BY <1>1, <1>2, AnswerResult

-------------------------------------------------------------------------------
(* The invariant holds initially and is preserved by every step *)

LEMMA MomentFields ==
  /\ moment.now = now /\ moment.terminals = terminals
  /\ moment.register = register /\ moment.latest = latest
BY DEF moment

\* What the register and the clock are, spelled out.
WorldOK ==
  /\ now \in Time
  /\ terminals \subseteq Terminal
  /\ register \in [Source -> Registration]
  /\ latest \in [Source -> SUBSET Observation]
  /\ \A s \in Source :
       /\ register[s].review_state # "absent" => Row[s].terminal \in terminals \cup {0}
       /\ \A a, b \in latest[s] : a = b
       /\ \A o \in latest[s] : o.observed_at <= now

LEMMA MomentIsWorld == MomentOK(moment, now) <=> WorldOK
<1>1. now \in Time => now <= now
  BY TimeAssumption DEF Time
<1> QED
  BY <1>1, MomentFields DEF MomentOK, WorldOK

LEMMA NextMomentIsWorld == MomentOK(moment', now') <=> WorldOK'
<1>1. now' \in Time => now' <= now'
  BY TimeAssumption DEF Time
<1>2. /\ (moment').now = now' /\ (moment').terminals = terminals'
      /\ (moment').register = register' /\ (moment').latest = latest'
  BY DEF moment
<1> QED
  BY <1>1, <1>2 DEF MomentOK, WorldOK

LEMMA ClockMoves ==
  ASSUME NEW m, NEW at \in Time, NEW later \in Time, at <= later, MomentOK(m, at)
  PROVE  MomentOK(m, later)
BY TimeAssumption DEF MomentOK, Time

LEMMA InitHolds == Init => IInv
<1> SUFFICES ASSUME Init PROVE IInv
  OBVIOUS
<1>1. PICK initial \in InitialRegisters :
        terminals = initial.terminals /\ register = initial.register /\ latest = initial.latest
  BY DEF Init
<1>2. now \in Time /\ now = 0
  BY TimeAssumption DEF Init, Time
<1>3. WorldOK
  BY <1>1, <1>2, RegistersAssumption DEF WorldOK
<1>4. moments = {} /\ changes \in 0..MaxChanges
  BY TimeAssumption DEF Init
<1>7. ReadableOK
  <2>1. readable_since \in [Source -> {{0}, {}}]
    BY DEF Init
  <2> QED
    BY <1>2, <2>1 DEF ReadableOK
<1>5. MomentsOK
  BY <1>3, <1>4, <1>7, MomentIsWorld DEF MomentsOK
<1>6. RequestTyped /\ AskedFor /\ AnswersOK /\ ShownOK
  BY <1>4 DEF Init, Idle, RequestTyped, AskedFor, AnswersOK, ShownOK, done
<1> QED
  BY <1>5, <1>6 DEF IInv

\* An answer that was true of a moment since the click stays so while more moments pass.
LEMMA AnswersKept ==
  ASSUME NEW answer, NEW page, NEW t, NEW before, NEW after,
         AnswerOK(answer, page, t, before), before \subseteq after
  PROVE  AnswerOK(answer, page, t, after)
BY DEF AnswerOK

\* A change of the world under a request is witnessed by it.
LEMMA WorldMoves ==
  ASSUME IInv, now' \in Time, now <= now', WorldOK', ReadableOK', changes' \in 0..MaxChanges,
         request.stage # "shown", UNCHANGED <<request, shown>>, Witness,
         \A t \in Origins : t \in terminals => t \in terminals'
  PROVE  IInv'
<1>1. now \in Time /\ moments' \subseteq moments \cup {moment'}
  BY MomentIsWorld DEF IInv, MomentsOK, WorldOK, Witness
<1>2. MomentsOK'
  <2>1. MomentOK(moment', now')
    BY NextMomentIsWorld
  <2>2. \A m \in moments : MomentOK(m, now')
    BY <1>1, ClockMoves DEF IInv, MomentsOK
  <2>3. \A m \in moments' : MomentOK(m, now')
    BY <1>1, <2>1, <2>2
  <2> QED
    BY <2>1, <2>3 DEF MomentsOK
<1>3. RequestTyped'
  BY DEF IInv, RequestTyped, Witness
<1>4. AskedFor'
  <2>1. CASE request.stage = "reading" /\ request.page = "trip"
    <3>1. request.about \in Origins /\ \A m \in moments : request.about \in m.terminals
      BY <2>1 DEF IInv, AskedFor
    <3>2. request.about \in terminals
      BY <2>1, <3>1, MomentFields DEF IInv, AnswersOK
    <3>3. request.about \in (moment').terminals
      BY <3>1, <3>2 DEF moment
    <3>4. \A m \in moments' : request.about \in m.terminals
      BY <1>1, <3>1, <3>3
    <3> QED
      BY <3>1, <3>4 DEF IInv, AskedFor
  <2>2. CASE ~(request.stage = "reading" /\ request.page = "trip")
    BY <2>2 DEF IInv, AskedFor, RequestTyped
  <2> QED
    BY <2>1, <2>2
<1>5. AnswersOK'
  <2> SUFFICES ASSUME request.stage = "reading" PROVE AnswersOK'
    BY DEF AnswersOK
  <2>1. moments' = moments \cup {moment'}
    BY DEF Witness
  <2>2. moments \subseteq moments' /\ moment' \in moments'
    BY <2>1
  <2>3. \A answer \in request.read : AnswerOK(answer, FirstRead(request.page), request.about, moments')
    BY <2>2, AnswersKept DEF IInv, AnswersOK
  <2>4. \A t \in DOMAIN request.details :
          t \in Terminal /\ AnswerOK(request.details[t], "terminal", t, moments')
    BY <2>2, AnswersKept DEF IInv, AnswersOK
  <2> QED
    BY <2>2, <2>3, <2>4 DEF IInv, AnswersOK
<1>6. ShownOK'
  BY DEF ShownOK, done
<1> QED
  BY <1>2, <1>3, <1>4, <1>5, <1>6 DEF IInv

LEMMA WorldOfInv == IInv => WorldOK /\ ReadableOK /\ changes \in 0..MaxChanges /\ now \in Time
BY MomentIsWorld DEF IInv, MomentsOK, WorldOK

LEMMA TickStep == IInv /\ Tick => IInv'
<1> SUFFICES ASSUME IInv, Tick PROVE IInv'
  OBVIOUS
<1>1. now' \in Time /\ now <= now'
  BY WorldOfInv, TimeAssumption DEF Tick, Time
<1>2. WorldOK'
  <2>1. \A s \in Source : \A o \in latest[s] : o.observed_at <= now'
    <3> SUFFICES ASSUME NEW s \in Source, NEW o \in latest[s] PROVE o.observed_at <= now'
      OBVIOUS
    <3>1. o.observed_at \in Time /\ o.observed_at <= now
      BY WorldOfInv DEF WorldOK, Observation
    <3> QED
      BY <1>1, <3>1, WorldOfInv, TimeAssumption DEF Time
  <2> QED
    BY <1>1, <2>1, WorldOfInv DEF WorldOK, Tick, world
<1>3. /\ changes' \in 0..MaxChanges /\ request.stage # "shown" /\ UNCHANGED <<request, shown>>
      /\ Witness /\ terminals' = terminals /\ readable_since' = readable_since
  BY WorldOfInv DEF Tick, world
<1>4. ReadableOK'
  <2>1. \A s \in Source : \A since \in readable_since[s] : since <= now'
    <3> SUFFICES ASSUME NEW s \in Source, NEW since \in readable_since[s] PROVE since <= now'
      OBVIOUS
    <3>1. since \in Time /\ since <= now
      BY WorldOfInv DEF ReadableOK
    <3> QED
      BY <1>1, <3>1, WorldOfInv, TimeAssumption DEF Time
  <2> QED
    BY <1>3, <2>1, WorldOfInv DEF ReadableOK
<1> QED
  BY <1>1, <1>2, <1>3, <1>4, WorldMoves

\* What a change of the register needs for the request under way.
LEMMA ChangeStep ==
  ASSUME IInv, Change, WorldOK', ReadableOK', \A t \in Origins : t \in terminals => t \in terminals'
  PROVE  IInv'
<1>1. now' = now /\ now \in Time /\ now <= now'
  BY WorldOfInv, TimeAssumption DEF Change, Time
<1>2. changes' \in 0..MaxChanges
  BY WorldOfInv, TimeAssumption DEF Change
<1>3. request.stage # "shown" /\ UNCHANGED <<request, shown>> /\ Witness
  BY DEF Change
<1> QED
  BY <1>1, <1>2, <1>3, WorldMoves

\* Where the clock and the times since when sources are readable stay.
LEMMA ReadableStays == IInv /\ now' = now /\ readable_since' = readable_since => ReadableOK'
BY WorldOfInv DEF ReadableOK

LEMMA ObserveStep == \A s \in Source : IInv /\ Observe(s) => IInv'
<1> SUFFICES ASSUME NEW s \in Source, IInv, Observe(s) PROVE IInv'
  OBVIOUS
<1>1. PICK since \in readable_since[s] : \E at \in since..now, state \in States :
        latest' = [latest EXCEPT ![s] =
         {[state |-> state, observed_at |-> at,
           source_time |-> IF Row[s].prints_time THEN {at} ELSE {},
           retrieval |-> IF state \in {"source_unreachable", "source_missing"} THEN "failed"
                         ELSE "succeeded"]}]
  BY DEF Observe
<1>2. PICK at \in since..now, state \in States :
        latest' = [latest EXCEPT ![s] =
         {[state |-> state, observed_at |-> at,
           source_time |-> IF Row[s].prints_time THEN {at} ELSE {},
           retrieval |-> IF state \in {"source_unreachable", "source_missing"} THEN "failed"
                         ELSE "succeeded"]}]
  BY <1>1
<1> DEFINE o == [state |-> state, observed_at |-> at,
                 source_time |-> IF Row[s].prints_time THEN {at} ELSE {},
                 retrieval |-> IF state \in {"source_unreachable", "source_missing"} THEN "failed"
                               ELSE "succeeded"]
<1>3. at \in Time /\ at <= now
  <2>1. since \in Time /\ now \in Time
    BY WorldOfInv DEF ReadableOK
  <2> QED
    BY <2>1, TimeAssumption DEF Time
<1>4. o \in Observation /\ o.observed_at = at
  <2>1. state \in SOURCE_STATE_CODES
    BY StatesAssumption
  <2>2. state \in POSITIVE_STATES => state \notin {"source_unreachable", "source_missing"}
    BY DEF POSITIVE_STATES
  <2> QED
    BY <1>3, <2>1, <2>2 DEF Observation
<1> HIDE DEF o
<1>5. latest' = [latest EXCEPT ![s] = {o}]
  BY <1>2 DEF o
<1>6. WorldOK'
  <2>1. now' = now /\ terminals' = terminals /\ register' = register
    BY DEF Observe, Change
  <2>2. latest' \in [Source -> SUBSET Observation]
    BY <1>4, <1>5, WorldOfInv DEF WorldOK
  <2>3. ASSUME NEW x \in Source
        PROVE  (\A a, b \in latest'[x] : a = b) /\ \A a \in latest'[x] : a.observed_at <= now
    BY <1>3, <1>4, <1>5, WorldOfInv DEF WorldOK
  <2> QED
    BY <2>1, <2>2, <2>3, WorldOfInv DEF WorldOK
<1>7. Change /\ ReadableOK' /\ \A t \in Origins : t \in terminals => t \in terminals'
  BY ReadableStays DEF Observe, Change
<1> QED
  BY <1>6, <1>7, ChangeStep

LEMMA ReviewStep == \A s \in Source : IInv /\ Review(s) => IInv'
<1> SUFFICES ASSUME NEW s \in Source, IInv, Review(s) PROVE IInv'
  OBVIOUS
<1>1. /\ Row[s].terminal \in terminals \cup {0} /\ terminals' = terminals /\ latest' = latest
      /\ Change /\ now' = now
  BY DEF Review, Change
<1>2. PICK registration \in Registration : register' = [register EXCEPT ![s] = registration]
  BY DEF Review
<1>3. register' \in [Source -> Registration] /\ \A x \in Source : x # s => register'[x] = register[x]
  BY <1>2, WorldOfInv DEF WorldOK
<1>4. WorldOK'
  BY <1>1, <1>3, WorldOfInv DEF WorldOK
<1>5. ReadableOK'
  <2>1. CASE readable_since' = readable_since
    BY <1>1, <2>1, ReadableStays
  <2>2. CASE readable_since' = [readable_since EXCEPT ![s] = {now}]
    <3>1. now \in Time /\ now <= now
      BY WorldOfInv, TimeAssumption DEF Time
    <3> QED
      BY <1>1, <2>2, <3>1, WorldOfInv DEF ReadableOK
  <2> QED
    BY <2>1, <2>2 DEF Review
<1> QED
  BY <1>1, <1>4, <1>5, ChangeStep

LEMMA RegisterTerminalStep == \A t \in Terminal : IInv /\ RegisterTerminal(t) => IInv'
<1> SUFFICES ASSUME NEW t \in Terminal, IInv, RegisterTerminal(t) PROVE IInv'
  OBVIOUS
<1>1. /\ terminals' = IF t \in terminals THEN terminals \ {t} ELSE terminals \cup {t}
      /\ t \in terminals => of_terminal(moment, t) = {} /\ t \notin Origins
      /\ register' = register /\ latest' = latest /\ now' = now /\ Change
      /\ readable_since' = readable_since
  BY DEF RegisterTerminal, Change
<1>2. ASSUME NEW s \in Source, register[s].review_state # "absent"
      PROVE  Row[s].terminal \in terminals' \cup {0}
  <2>1. Row[s].terminal \in terminals \cup {0}
    BY <1>2, WorldOfInv DEF WorldOK
  <2>2. s \in of_terminal(moment, Row[s].terminal)
    BY <1>2, MomentFields DEF of_terminal, registered
  <2> QED
    BY <1>1, <2>1, <2>2
<1>3. WorldOK'
  BY <1>1, <1>2, WorldOfInv DEF WorldOK
<1>4. ReadableOK'
  BY <1>1, ReadableStays
<1> QED
  BY <1>1, <1>3, <1>4, ChangeStep

-------------------------------------------------------------------------------

\* A step of the request leaves the world alone.
LEMMA WorldStays ==
  ASSUME IInv, UNCHANGED <<now, world, changes>>, moments' \subseteq moments \cup {moment}
  PROVE  MomentsOK' /\ moment' = moment
<1>1. moment' = moment /\ now' = now /\ readable_since' = readable_since
  BY DEF moment, world
<1> QED
  BY <1>1, ReadableStays DEF IInv, MomentsOK

LEMMA OpenStep ==
  \A page \in {"terminals", "terminal", "advanced", "trip"}, t \in Terminal \cup {0} :
    IInv /\ Open(page, t) => IInv'
<1> SUFFICES ASSUME NEW page \in {"terminals", "terminal", "advanced", "trip"},
                    NEW t \in Terminal \cup {0}, IInv, Open(page, t)
             PROVE  IInv'
  OBVIOUS
<1>1. request' = [page |-> page, about |-> t, stage |-> "reading", read |-> {}, details |-> <<>>]
  BY DEF Open, Idle
<1>2. moments' = {moment} /\ MomentsOK' /\ moment' = moment
  BY WorldStays DEF Open
<1>3. RequestTyped'
  BY <1>1 DEF Open, IInv, RequestTyped
<1>4. AskedFor'
  <2>1. page = "trip" => t \in Origins /\ t \in moment.terminals
    BY MomentFields DEF Open
  <2> QED
    BY <1>1, <1>2, <2>1 DEF Open, AskedFor
<1>5. AnswersOK'
  <2>1. DOMAIN request'.details = {} /\ request'.read = {}
    BY <1>1
  <2> QED
    BY <1>2, <2>1 DEF AnswersOK
<1>6. ShownOK'
  BY <1>1 DEF ShownOK, done
<1> QED
  BY <1>2, <1>3, <1>4, <1>5, <1>6 DEF IInv

LEMMA ReadStep == IInv /\ Read => IInv'
<1> SUFFICES ASSUME IInv, Read PROVE IInv'
  OBVIOUS
<1>1. /\ request.stage = "reading" /\ UNCHANGED <<now, world, changes, shown, moments>>
      /\ moment \in moments
  BY DEF Read, IInv, AnswersOK
<1>2. PICK answer \in Answers(FirstRead(request.page), request.about) :
        request' = [request EXCEPT !.read = {answer}]
  BY DEF Read, FirstRead
<1>3. request' = [page |-> request.page, about |-> request.about, stage |-> "reading",
                  read |-> {answer}, details |-> request.details]
  BY <1>1, <1>2 DEF IInv, RequestTyped
<1>4. AnswerOK(answer, FirstRead(request.page), request.about, moments)
  BY <1>1, <1>2 DEF Answers, AnswerOK
<1>5. MomentsOK' /\ moment' = moment /\ moments' = moments
  BY <1>1, WorldStays
<1>6. RequestTyped'
  BY <1>1, <1>3 DEF IInv, RequestTyped
<1>7. AskedFor'
  BY <1>1, <1>3 DEF IInv, AskedFor
<1>8. AnswersOK'
  <2>1. \A a, b \in request'.read : a = b
    BY <1>3
  <2>2. \A a \in request'.read : AnswerOK(a, FirstRead(request.page), request.about, moments')
    BY <1>3, <1>4, <1>5, AnswersKept
  <2>3. \A t \in DOMAIN request.details :
          t \in Terminal /\ AnswerOK(request.details[t], "terminal", t, moments')
    BY <1>1, <1>5, AnswersKept DEF IInv, AnswersOK
  <2> QED
    BY <1>1, <1>3, <1>5, <2>1, <2>2, <2>3 DEF AnswersOK
<1>9. ShownOK'
  BY <1>3 DEF ShownOK, done
<1> QED
  BY <1>5, <1>6, <1>7, <1>8, <1>9 DEF IInv

\* What the network named are its terminals.
LEMMA ListedTerminals ==
  ASSUME IInv, request.stage = "reading", request.page = "trip"
  PROVE  listed \subseteq Terminal
<1> SUFFICES ASSUME NEW answer \in request.read, answer.result = "ok", NEW summary \in answer.value
             PROVE  summary.terminal \in Terminal
  BY DEF listed
<1>1. AnswerOK(answer, "terminals", request.about, moments)
  BY DEF IInv, AnswersOK, FirstRead
<1>2. PICK m \in moments : answer.value = list_terminal_network(m)
  BY <1>1, AnswerResult DEF Failure
<1>3. summary.terminal \in m.terminals
  BY <1>2, NetworkTerminals
<1> QED
  BY <1>3 DEF IInv, MomentsOK, MomentOK

LEMMA DetailsStep == \A t \in Terminal : IInv /\ readTerminalDetails(t) => IInv'
<1> SUFFICES ASSUME NEW t \in Terminal, IInv, readTerminalDetails(t) PROVE IInv'
  OBVIOUS
<1>1. /\ request.stage = "reading" /\ UNCHANGED <<now, world, changes, shown, moments>>
      /\ moment \in moments
  BY DEF readTerminalDetails, IInv, AnswersOK
<1>2. PICK answer \in Answers("terminal", t) :
        request' = [request EXCEPT !.details =
          [x \in {t} \cup DOMAIN request.details |-> IF x = t THEN answer ELSE request.details[x]]]
  BY DEF readTerminalDetails
<1> DEFINE details == [x \in {t} \cup DOMAIN request.details |-> IF x = t THEN answer ELSE request.details[x]]
<1>3. request' = [page |-> request.page, about |-> request.about, stage |-> "reading",
                  read |-> request.read, details |-> details]
  BY <1>1, <1>2 DEF IInv, RequestTyped
<1>4. AnswerOK(answer, "terminal", t, moments)
  BY <1>1, <1>2 DEF Answers, AnswerOK
<1>5. MomentsOK' /\ moment' = moment /\ moments' = moments
  BY <1>1, WorldStays
<1>6. \A x \in DOMAIN details : x \in Terminal /\ AnswerOK(details[x], "terminal", x, moments)
  BY <1>1, <1>4 DEF IInv, AnswersOK
<1>7. DOMAIN details = {t} \cup DOMAIN request.details
  OBVIOUS
<1> HIDE DEF details
<1>8. RequestTyped'
  BY <1>1, <1>3 DEF IInv, RequestTyped
<1>9. AskedFor'
  BY <1>1, <1>3 DEF IInv, AskedFor
<1>10. AnswersOK'
  <2>1. \A a \in request.read : AnswerOK(a, FirstRead(request.page), request.about, moments')
    BY <1>1, <1>5, AnswersKept DEF IInv, AnswersOK
  <2>2. \A x \in DOMAIN details : x \in Terminal /\ AnswerOK(details[x], "terminal", x, moments')
    BY <1>5, <1>6, AnswersKept
  <2> QED
    BY <1>1, <1>3, <1>5, <2>1, <2>2 DEF IInv, AnswersOK
<1>11. ShownOK'
  BY <1>3 DEF ShownOK, done
<1> QED
  BY <1>5, <1>8, <1>9, <1>10, <1>11 DEF IInv

LEMMA LeaveStep == IInv /\ Leave => IInv'
<1> SUFFICES ASSUME IInv, Leave PROVE IInv'
  OBVIOUS
<1>1. request' = Idle /\ shown' = Shows({}) /\ moments' = {} /\ UNCHANGED <<now, world, changes>>
  BY DEF Leave
<1>2. MomentsOK'
  BY <1>1, WorldStays
<1>3. RequestTyped' /\ AskedFor' /\ AnswersOK' /\ ShownOK'
  BY <1>1 DEF Idle, RequestTyped, AskedFor, AnswersOK, ShownOK, done
<1> QED
  BY <1>2, <1>3 DEF IInv

\* What is rendered is true of a moment since the click, whichever reads failed.
LEMMA RenderedPage ==
  ASSUME IInv, Render
  PROVE  Truthful(shown', request.page, request.about, moments, now)
<1> DEFINE read == the(request.read)
<1>1. /\ request.stage = "reading" /\ request.read # {} /\ Complete
      /\ shown' = CASE request.page = "terminals" -> TerminalsPage(read)
                    [] request.page = "terminal" -> TerminalDetailPage(read)
                    [] request.page = "advanced" -> AdvancedPage(read)
                    [] OTHER -> TripPage(read, request.about, request.details)
  BY DEF Render
<1>2. read \in request.read
  BY <1>1, TheOne
<1>3. /\ AnswerOK(read, FirstRead(request.page), request.about, moments) /\ moment \in moments
      /\ \A t \in DOMAIN request.details : AnswerOK(request.details[t], "terminal", t, moments)
  BY <1>1, <1>2 DEF IInv, AnswersOK
<1>4. MomentsOK /\ now \in Time
  BY WorldOfInv DEF IInv
<1>5. request.page \in {"terminals", "terminal", "advanced", "trip"}
      /\ (request.page = "trip" => \A m \in moments : request.about \in m.terminals)
  BY <1>1 DEF IInv, AskedFor
<1> HIDE DEF read
<1>6. CASE request.page = "terminals"
  BY <1>1, <1>3, <1>4, <1>6, TerminalsPageTruthful DEF FirstRead
<1>7. CASE request.page = "terminal"
  BY <1>1, <1>3, <1>4, <1>7, DetailPageTruthful DEF FirstRead
<1>8. CASE request.page = "advanced"
  BY <1>1, <1>3, <1>4, <1>8, AdvancedPageTruthful DEF FirstRead
<1>9. CASE request.page = "trip"
  <2>1. AnswerOK(read, "terminals", request.about, moments)
    BY <1>3, <1>9 DEF FirstRead
  <2>2. ASSUME read.result = "ok", NEW summary \in read.value
        PROVE  AnswerOK(request.details[summary.terminal], "terminal", summary.terminal, moments)
    <3>1. summary.terminal \in listed
      BY <1>2, <2>2 DEF listed
    <3>2. summary.terminal \in DOMAIN request.details
      BY <1>1, <1>9, <3>1 DEF Complete
    <3> QED
      BY <1>3, <3>2
  <2>3. shown' = TripPage(read, request.about, request.details)
    BY <1>1, <1>9
  <2>4. Truthful(TripPage(read, request.about, request.details), "trip", request.about, moments, now)
    BY <1>3, <1>4, <1>5, <1>9, <2>1, <2>2, TripPageTruthful
  <2> QED
    BY <1>9, <2>3, <2>4
<1> QED
  BY <1>5, <1>6, <1>7, <1>8, <1>9

LEMMA RenderStep == IInv /\ Render => IInv'
<1> SUFFICES ASSUME IInv, Render PROVE IInv'
  OBVIOUS
<1>1. /\ request.stage = "reading" /\ UNCHANGED <<now, world, changes, moments>>
      /\ request' = [request EXCEPT !.stage = "shown", !.read = {}, !.details = <<>>]
  BY DEF Render
<1>2. request' = [page |-> request.page, about |-> request.about, stage |-> "shown",
                  read |-> {}, details |-> <<>>]
  BY <1>1 DEF IInv, RequestTyped
<1>3. MomentsOK' /\ moments' = moments /\ now' = now
  BY <1>1, WorldStays
<1>4. RequestTyped'
  BY <1>2 DEF RequestTyped
<1>5. AskedFor'
  BY <1>1, <1>2 DEF IInv, AskedFor
<1>6. AnswersOK'
  BY <1>2 DEF AnswersOK
<1>7. ShownOK'
  <2>1. Truthful(shown', request.page, request.about, moments, now)
    BY RenderedPage
  <2>2. request'.page = request.page /\ request'.about = request.about
    BY <1>2
  <2>3. Truthful(shown', request'.page, request'.about, moments', now')
    BY <1>3, <2>1, <2>2
  <2> QED
    BY <2>3 DEF ShownOK
<1> QED
  BY <1>3, <1>4, <1>5, <1>6, <1>7 DEF IInv

LEMMA StutterStep == IInv /\ UNCHANGED vars => IInv'
<1> SUFFICES ASSUME IInv, UNCHANGED vars PROVE IInv'
  OBVIOUS
<1>1. UNCHANGED <<now, world, changes>> /\ moments' = moments /\ request' = request /\ shown' = shown
  BY DEF vars, world
<1>2. MomentsOK' /\ moment' = moment
  BY <1>1, WorldStays
<1>3. RequestTyped' /\ AskedFor' /\ AnswersOK'
  BY <1>1, <1>2 DEF IInv, RequestTyped, AskedFor, AnswersOK
<1>4. ShownOK'
  <2>1. now' = now
    BY <1>1
  <2>2. done' = done
    BY <1>1 DEF done
  <2> QED
    BY <1>1, <2>1, <2>2 DEF IInv, ShownOK
<1> QED
  BY <1>2, <1>3, <1>4 DEF IInv

LEMMA NextPreserves == IInv /\ [Next]_vars => IInv'
<1> SUFFICES ASSUME IInv, [Next]_vars PROVE IInv'
  OBVIOUS
<1>1. CASE Tick
  BY <1>1, TickStep
<1>2. CASE \E s \in Source : Observe(s) \/ Review(s)
  BY <1>2, ObserveStep, ReviewStep
<1>3. CASE \E t \in Terminal : RegisterTerminal(t) \/ readTerminalDetails(t)
  BY <1>3, RegisterTerminalStep, DetailsStep
<1>4. CASE \E page \in {"terminals", "terminal", "advanced", "trip"}, t \in Terminal \cup {0} : Open(page, t)
  BY <1>4, OpenStep
<1>5. CASE Read
  BY <1>5, ReadStep
<1>6. CASE Render
  BY <1>6, RenderStep
<1>7. CASE Leave
  BY <1>7, LeaveStep
<1>8. CASE UNCHANGED vars
  BY <1>8, StutterStep
<1> QED
  BY <1>1, <1>2, <1>3, <1>4, <1>5, <1>6, <1>7, <1>8 DEF Next

\* Whatever happens while a page is read, what it shows was true of a moment since the click.
THEOREM InvariantHolds == Spec => []IInv
<1>1. Init => IInv
  BY InitHolds
<1>2. IInv /\ [Next]_vars => IInv'
  BY NextPreserves
<1> QED
  BY <1>1, <1>2, PTL DEF Spec

-------------------------------------------------------------------------------
(* What the invariant says of a page *)

LEMMA LegitPage ==
  ASSUME NEW statement, NEW m, NEW page, NEW subject, NEW witnessed, NEW at,
         Legit(statement, m, page, subject, witnessed, at), statement.about = Page
  PROVE  OfPage(statement.item, m, page, subject)
<1>1. \A t : <<"page", 0>> # <<"terminal", t>> /\ <<"page", 0>> # <<"source", t>>
  OBVIOUS
<1> QED
  BY <1>1 DEF Legit, Page

LEMMA LegitTerminal ==
  ASSUME NEW statement, NEW m, NEW page, NEW subject, NEW witnessed, NEW at, NEW t,
         Legit(statement, m, page, subject, witnessed, at), statement.about = <<"terminal", t>>
  PROVE  t \in m.terminals /\ OfTerminal(statement.item, m, t, page, subject, witnessed, at)
<1>1. \A s : <<"page", 0>> # <<"terminal", t>> /\ <<"source", s>> # <<"terminal", t>>
  OBVIOUS
<1>2. \A x : <<"terminal", x>> = <<"terminal", t>> => x = t
  OBVIOUS
<1> QED
  BY <1>1, <1>2 DEF Legit, Page

LEMMA LegitSource ==
  ASSUME NEW statement, NEW m, NEW page, NEW subject, NEW witnessed, NEW at, NEW s,
         Legit(statement, m, page, subject, witnessed, at), statement.about = <<"source", s>>
  PROVE  s \in registered(m) /\ OfSource(statement.item, m, s, page, at)
<1>1. \A t : <<"page", 0>> # <<"source", s>> /\ <<"terminal", t>> # <<"source", s>>
  OBVIOUS
<1>2. \A x : <<"source", x>> = <<"source", s>> => x = s
  OBVIOUS
<1> QED
  BY <1>1, <1>2 DEF Legit, Page

LEMMA LexedFields ==
  ASSUME NEW code, NEW age
  PROVE  LET item == Lexed(code, age) IN
         /\ item.shape = "state" /\ item.text = <<code>> /\ item.age = age
         /\ item.tone = SOURCE_STATE_LEXICON[code].tone
BY DEF Lexed, Item

LEMMA NotCheckedFields ==
  /\ NotCheckedYet.shape = "state" /\ NotCheckedYet.text = <<"Not checked yet">>
  /\ NotCheckedYet.tone = "unknown"
BY DEF NotCheckedYet, Item

\* No code reads like what is said when there is none.
LEMMA CodeText ==
  ASSUME NEW code \in SOURCE_STATE_CODES
  PROVE  /\ <<code>> # <<"Not checked yet">> /\ <<code>> # <<"Unknown">> /\ <<code>> # <<"Stopped">>
         /\ SOURCE_STATE_LEXICON[code].tone = "verified" <=> code \in POSITIVE_STATES
<1>1. code # "Not checked yet" /\ code # "Unknown" /\ code # "Stopped"
  BY DEF SOURCE_STATE_CODES
<1>2. <<code>>[1] = code /\ <<"Not checked yet">>[1] = "Not checked yet"
      /\ <<"Unknown">>[1] = "Unknown" /\ <<"Stopped">>[1] = "Stopped"
  OBVIOUS
<1>3. SOURCE_STATE_LEXICON[code].tone = "verified" <=> code \in POSITIVE_STATES
  BY DEF SOURCE_STATE_LEXICON, POSITIVE_STATES
<1> QED
  BY <1>1, <1>2, <1>3, Zenon

\* The state of a terminal with a reading is the headline's.
LEMMA TerminalStateText ==
  ASSUME NEW m, NEW at \in Time, MomentOK(m, at), NEW t
  PROVE  LET item == TerminalState(m, t, at) IN
         /\ item.shape = "state"
         /\ item.text = <<"Not checked yet">> <=> observed(m, t) = {}
         /\ observed(m, t) # {} => item = Lexed(effective(reading_of(m, t), m.now),
                                               {formatAge(reading_of(m, t).observed_at, at)})
<1>1. CASE observed(m, t) = {}
  BY <1>1, NotCheckedFields DEF TerminalState
<1>2. CASE observed(m, t) # {}
  <2> DEFINE code == effective(reading_of(m, t), m.now)
  <2>1. reading_of(m, t) \in Observation
    BY <1>2, HeadlineReading
  <2>2. code \in SOURCE_STATE_CODES
    BY <2>1, EvidenceRead
  <2> HIDE DEF code
  <2>3. TerminalState(m, t, at) = Lexed(code, {formatAge(reading_of(m, t).observed_at, at)})
    BY <1>2 DEF TerminalState, code
  <2>4. TerminalState(m, t, at).shape = "state" /\ TerminalState(m, t, at).text = <<code>>
    BY <2>3, LexedFields
  <2> QED
    BY <1>2, <2>2, <2>3, <2>4, CodeText DEF code
<1> QED
  BY <1>1, <1>2

LEMMA Days == \A minutes \in Nat : (minutes \div 60) \div 24 = minutes \div 1440
OBVIOUS

\* The age of a reading is told in minutes, hours or days, as it is when the page is rendered.
LEMMA AgeTold ==
  ASSUME NEW m, MomentOK(m, now), now \in Time, NEW s \in Source, NEW o \in m.latest[s],
         NEW item, item.age \in {{}, {formatAge(o.observed_at, now)}}
  PROVE  AgeOf(o, m, item)
<1>1. /\ o \in Observation /\ o.observed_at \in Nat /\ m.now \in Nat
      /\ o.observed_at <= m.now /\ m.now <= now
  <2>1. o = the(m.latest[s]) /\ m.latest[s] # {}
    BY TheOnly, ReadingOfSource
  <2> QED
    BY <2>1, ReadingOfSource
<1>2. now \in Nat /\ MinutesPerTick \in Nat
  BY TimeAssumption, TickAssumption DEF Time
<1>6. ASSUME NEW said \in item.age
      PROVE  \E rendered \in m.now..now :
               LET minutes == (rendered - o.observed_at) * MinutesPerTick IN
               said.n = CASE said.unit = "m" -> minutes
                          [] said.unit = "h" -> minutes \div 60
                          [] OTHER -> minutes \div 1440
  <2> DEFINE minutes == (now - o.observed_at) * MinutesPerTick
  <2>1. now \in m.now..now /\ ~(now < o.observed_at) /\ minutes \in Nat
    BY <1>1, <1>2
  <2>2. said = formatAge(o.observed_at, now)
    BY <1>6
  <2>3. said = CASE minutes < 60 -> [n |-> minutes, unit |-> "m"]
                 [] minutes >= 60 /\ minutes \div 60 < 48 -> [n |-> minutes \div 60, unit |-> "h"]
                 [] OTHER -> [n |-> (minutes \div 60) \div 24, unit |-> "d"]
    BY <2>1, <2>2 DEF formatAge
  <2>4. said.n = CASE said.unit = "m" -> minutes
                   [] said.unit = "h" -> minutes \div 60
                   [] OTHER -> minutes \div 1440
    <3> HIDE DEF minutes
    <3>1. CASE minutes < 60
      BY <2>1, <2>3, <3>1
    <3>2. CASE minutes >= 60 /\ minutes \div 60 < 48
      <4>1. ~(minutes < 60)
        BY <2>1, <3>2
      <4> QED
        BY <2>3, <3>2, <4>1
    <3>3. CASE ~(minutes < 60) /\ ~(minutes >= 60 /\ minutes \div 60 < 48)
      <4>1. said = [n |-> (minutes \div 60) \div 24, unit |-> "d"]
        BY <2>3, <3>3
      <4>2. said.n = minutes \div 1440 /\ said.unit = "d"
        BY <2>1, <4>1, Days
      <4> QED
        BY <4>2
    <3> QED
      BY <3>1, <3>2, <3>3
  <2> QED
    BY <2>1, <2>4
<1> QED
  BY <1>6 DEF AgeOf

\* What is said of a reading is what a reader could say of it.
LEMMA LexedAgrees ==
  ASSUME NEW m, MomentOK(m, now), now \in Time, NEW s \in Source, NEW o \in m.latest[s], m.latest[s] # {},
         NEW age, age \in {{}, {formatAge(o.observed_at, now)}}, NEW item,
         item = Lexed(effective(o, m.now), age)
  PROVE  Agrees(item, m, s)
<1> DEFINE code == effective(o, m.now)
<1>1. /\ o \in Observation /\ o.observed_at \in Nat /\ m.now \in Nat
  <2>1. o = the(m.latest[s])
    BY TheOnly, ReadingOfSource
  <2> QED
    BY <2>1, ReadingOfSource
<1>2. Window \in Nat
  BY TimeAssumption
<1>3. code \in SOURCE_STATE_CODES
  BY <1>1, EvidenceRead
<1>4. item.text = <<code>> /\ item.tone = SOURCE_STATE_LEXICON[code].tone /\ item.age = age
  BY LexedFields
<1>5. item.tone = "verified" => o.state \in POSITIVE_STATES /\ m.now - o.observed_at <= Window
  <2>1. item.tone = "verified" => code \in POSITIVE_STATES
    BY <1>3, <1>4, CodeText
  <2>2. code \in POSITIVE_STATES => o.state \in POSITIVE_STATES /\ ~(m.now - o.observed_at > Window)
    BY DEF effective, POSITIVE_STATES
  <2> QED
    BY <1>1, <1>2, <2>1, <2>2
<1>6. AgeOf(o, m, item)
  BY <1>4, AgeTold
<1> QED
  BY <1>4, <1>5, <1>6 DEF Agrees

-------------------------------------------------------------------------------
(* The properties *)

LEMMA SaidItem ==
  ASSUME NEW subject, NEW shape, NEW item \in Says(subject, shape)
  PROVE  \E statement \in shown.items :
           statement.about = subject /\ statement.item = item /\ item.shape = shape
BY DEF Says

\* The moment a rendered page speaks of.
LEMMA Witnessed ==
  ASSUME IInv, done
  PROVE  \E m \in moments :
           /\ MomentOK(m, now)
           /\ \A statement \in shown.items :
                Legit(statement, m, request.page, request.about, moments, now)
           /\ request.page = "terminal" => RowsListed(shown.items, m, request.about)
           /\ request.page = "trip" => TerminalsListed(shown.items, shown.order, m, request.about, now)
BY DEF IInv, ShownOK, Truthful, MomentsOK

\* What is said of a terminal's state is its state at that moment.
LEMMA StateSaid ==
  ASSUME IInv, NEW m, MomentOK(m, now),
         \A statement \in shown.items : Legit(statement, m, request.page, request.about, moments, now),
         NEW t, NEW item \in Says(<<"terminal", t>>, "state")
  PROVE  t \in m.terminals /\ item = TerminalState(m, t, now)
<1>1. PICK statement \in shown.items :
        statement.about = <<"terminal", t>> /\ statement.item = item /\ item.shape = "state"
  BY SaidItem
<1>2. t \in m.terminals /\ OfTerminal(item, m, t, request.page, request.about, moments, now)
  BY <1>1, LegitTerminal
<1>3. ReadAt(m, t, now).shape = "age"
  BY DEF ReadAt, Item
<1> QED
  BY <1>1, <1>2, <1>3 DEF OfTerminal, Plain, FactSaid

LEMMA PageSaid ==
  ASSUME NEW m, NEW shape,
         \A statement \in shown.items : Legit(statement, m, request.page, request.about, moments, now),
         NEW item \in Says(Page, shape)
  PROVE  item.shape = shape /\ OfPage(item, m, request.page, request.about)
<1>1. PICK statement \in shown.items :
        statement.about = Page /\ statement.item = item /\ item.shape = shape
  BY SaidItem
<1> QED
  BY <1>1, LegitPage

LEMMA SourceSaid ==
  ASSUME NEW m, NEW shape \in {"state", "pill"},
         \A statement \in shown.items : Legit(statement, m, request.page, request.about, moments, now),
         NEW s, NEW item \in Says(<<"source", s>>, shape)
  PROVE  /\ s \in registered(m) /\ item.shape = shape
         /\ \/ request.page = "terminal" /\ item = RowState(m, s)
            \/ request.page = "advanced" /\ item \in {HealthState(m, s, now), Approval(m, s)}
            \/ request.page = "advanced" /\ item = Stopped /\ m.register[s].stopped
<1>1. PICK statement \in shown.items :
        statement.about = <<"source", s>> /\ statement.item = item /\ item.shape = shape
  BY SaidItem
<1>2. s \in registered(m) /\ OfSource(item, m, s, request.page, now)
  BY <1>1, LegitSource
<1> QED
  BY <1>1, <1>2 DEF OfSource

LEMMA TerminalSaid ==
  ASSUME NEW m, NEW shape, MomentOK(m, now), now \in Time,
         \A statement \in shown.items : Legit(statement, m, request.page, request.about, moments, now),
         NEW t, NEW item \in Says(<<"terminal", t>>, shape)
  PROVE  /\ t \in m.terminals /\ item.shape = shape
         /\ shape = "fact" => FactAllowed(item.text, m, t)
         /\ shape = "note" => NoteAllowed(item.text, m, t)
         /\ shape = "age" => observed(m, t) # {} /\ item = ReadAt(m, t, now)
         /\ shape = "schedule" => ScheduleAllowed(item.text, t, moments)
         /\ shape = "opportunities" =>
              request.page = "terminal" /\ request.about = t
              /\ item.text = <<opportunitiesNote(terminal_summary(m, t))>>
<1>1. PICK statement \in shown.items :
        statement.about = <<"terminal", t>> /\ statement.item = item /\ item.shape = shape
  BY SaidItem
<1>2. t \in m.terminals /\ OfTerminal(item, m, t, request.page, request.about, moments, now)
  BY <1>1, LegitTerminal
<1>3. TerminalState(m, t, now).shape = "state" /\ ReadAt(m, t, now).shape = "age"
  BY TerminalStateText DEF ReadAt, Item
<1> QED
  BY <1>1, <1>2, <1>3 DEF OfTerminal, Plain, FactSaid

\* A row or a badge of a source without a reading says so, and only then.
LEMMA SourceStateText ==
  ASSUME NEW m, NEW at \in Time, MomentOK(m, at), NEW s \in Source
  PROVE  /\ RowState(m, s).shape = "state" /\ HealthState(m, s, at).shape = "state"
         /\ RowState(m, s).text # <<"Not checked yet">> /\ HealthState(m, s, at).text # <<"Unknown">>
         /\ RowState(m, s).text = <<"Unknown">> => ~restricted(m, s) /\ m.latest[s] = {}
         /\ HealthState(m, s, at).text = <<"Not checked yet">> => m.latest[s] = {}
         /\ restricted(m, s) => RowState(m, s).tone # "verified"
                                /\ RowState(m, s).text = <<"restricted_user_open_only">>
<1>1. "restricted_user_open_only" \in SOURCE_STATE_CODES \ POSITIVE_STATES
  BY DEF SOURCE_STATE_CODES, POSITIVE_STATES
<1>2. ASSUME NEW code \in SOURCE_STATE_CODES, NEW age
      PROVE  /\ Lexed(code, age).shape = "state" /\ Lexed(code, age).text # <<"Not checked yet">>
             /\ Lexed(code, age).text # <<"Unknown">> /\ Lexed(code, age).text = <<code>>
             /\ code \notin POSITIVE_STATES => Lexed(code, age).tone # "verified"
  <2>1. /\ Lexed(code, age).shape = "state" /\ Lexed(code, age).text = <<code>>
        /\ Lexed(code, age).tone = SOURCE_STATE_LEXICON[code].tone
    BY LexedFields
  <2> QED
    BY <2>1, CodeText
<1>3. CASE m.latest[s] = {}
  <2>1. HealthState(m, s, at).shape = "state" /\ HealthState(m, s, at).text = <<"Not checked yet">>
    BY <1>3, NotCheckedFields DEF HealthState
  <2>2. <<"Not checked yet">> # <<"Unknown">>
    OBVIOUS
  <2>3. CASE restricted(m, s)
    <3>1. RowState(m, s) = Lexed("restricted_user_open_only", {})
      BY <2>3 DEF RowState
    <3> QED
      BY <1>1, <1>2, <1>3, <2>1, <2>2, <3>1
  <2>4. CASE ~restricted(m, s)
    <3>1. RowState(m, s) = Item("state", <<"Unknown">>, "unknown", {})
      BY <1>3, <2>4 DEF RowState
    <3>2. RowState(m, s).shape = "state" /\ RowState(m, s).text = <<"Unknown">>
      BY <3>1, ItemShape
    <3> QED
      BY <1>3, <2>1, <2>2, <2>4, <3>2
  <2> QED
    BY <2>3, <2>4
<1>4. CASE m.latest[s] # {}
  <2> DEFINE code == effective(the(m.latest[s]), m.now)
  <2>1. code \in SOURCE_STATE_CODES
    BY <1>4, ReadingOfSource, EvidenceRead
  <2>2. HealthState(m, s, at) = Lexed(code, {formatAge(the(m.latest[s]).observed_at, at)})
    BY <1>4 DEF HealthState
  <2>3. RowState(m, s) = IF restricted(m, s) THEN Lexed("restricted_user_open_only", {}) ELSE Lexed(code, {})
    BY <1>4 DEF RowState
  <2> HIDE DEF code
  <2>4. /\ HealthState(m, s, at).shape = "state" /\ HealthState(m, s, at).text # <<"Unknown">>
        /\ HealthState(m, s, at).text # <<"Not checked yet">>
    BY <1>2, <2>1, <2>2
  <2>5. /\ RowState(m, s).shape = "state" /\ RowState(m, s).text # <<"Unknown">>
        /\ RowState(m, s).text # <<"Not checked yet">>
    BY <1>1, <1>2, <2>1, <2>3
  <2>6. restricted(m, s) => RowState(m, s).tone # "verified"
                            /\ RowState(m, s).text = <<"restricted_user_open_only">>
    BY <1>1, <1>2, <2>3
  <2> QED
    BY <2>4, <2>5, <2>6
<1> QED
  BY <1>3, <1>4

\* What the headline of a terminal is at a moment.
LEMMA HeadlineSpeaks ==
  ASSUME NEW m, NEW at \in Time, MomentOK(m, at), NEW t, observed(m, t) # {}
  PROVE  /\ reading_source(m, t) \in Source /\ Speaks(m, t, reading_source(m, t))
         /\ reading_of(m, t) \in m.latest[reading_source(m, t)]
<1> DEFINE s == reading_source(m, t)
           o == reading_of(m, t)
<1>1. /\ s \in observed(m, t) /\ s \in Source /\ o \in m.latest[s] /\ m.latest[s] = {o}
      /\ \A other \in observed(m, t) : the(m.latest[other]).observed_at <= o.observed_at
  BY HeadlineReading
<1>2. s \in of_terminal(m, t) /\ ~restricted(m, s)
  BY <1>1 DEF observed
<1>3. ASSUME NEW other \in of_terminal(m, t), ~restricted(m, other), NEW newer \in m.latest[other]
      PROVE  newer.observed_at <= o.observed_at
  <2>1. other \in observed(m, t) /\ other \in Source
    BY <1>3, OfTerminalIsSource DEF observed
  <2>2. m.latest[other] = {the(m.latest[other])}
    BY <1>3, <2>1, ReadingOfSource
  <2> QED
    BY <1>1, <1>3, <2>1, <2>2
<1> HIDE DEF s, o
<1>4. Speaks(m, t, s)
  BY <1>1, <1>2, <1>3 DEF Speaks
<1> QED
  BY <1>1, <1>4 DEF s, o

\* What a page says of a terminal, a source or a fact was licensed at the moment of the read.
LEMMA InvEvidence == IInv => EvidenceIsEarned
<1> SUFFICES ASSUME IInv, done PROVE EvidenceIsEarned
  BY DEF EvidenceIsEarned
<1>1. PICK m \in moments :
        /\ MomentOK(m, now)
        /\ \A statement \in shown.items : Legit(statement, m, request.page, request.about, moments, now)
  BY Witnessed
<1>2. now \in Time
  BY WorldOfInv
<1>3. ASSUME NEW t \in Terminal, NEW item \in States_of(<<"terminal", t>>)
      PROVE  \E n \in moments, s \in Source : Speaks(n, t, s) /\ Agrees(item, n, s)
  <2>1. item \in Says(<<"terminal", t>>, "state") /\ item.text # <<"Not checked yet">>
    BY <1>3 DEF States_of
  <2>2. item = TerminalState(m, t, now)
    BY <1>1, <2>1, StateSaid
  <2>3. /\ observed(m, t) # {}
        /\ item = Lexed(effective(reading_of(m, t), m.now), {formatAge(reading_of(m, t).observed_at, now)})
    BY <1>1, <1>2, <2>1, <2>2, TerminalStateText
  <2>4. /\ reading_source(m, t) \in Source /\ Speaks(m, t, reading_source(m, t))
        /\ reading_of(m, t) \in m.latest[reading_source(m, t)]
    BY <1>1, <1>2, <2>3, HeadlineSpeaks
  <2>5. Agrees(item, m, reading_source(m, t))
    BY <1>1, <1>2, <2>3, <2>4, LexedAgrees
  <2> QED
    BY <2>4, <2>5
<1>4. ASSUME NEW t \in Terminal, NEW item \in Says(<<"terminal", t>>, "age")
      PROVE  \E n \in moments, s \in Source : Speaks(n, t, s) /\ \E o \in n.latest[s] :
               item.text = <<"We read it", "at", o.observed_at * MinutesPerTick>> /\ AgeOf(o, n, item)
  <2> DEFINE s == reading_source(m, t)
             o == reading_of(m, t)
  <2>1. observed(m, t) # {} /\ item = ReadAt(m, t, now)
    BY <1>1, <1>2, TerminalSaid
  <2>2. s \in Source /\ Speaks(m, t, s) /\ o \in m.latest[s]
    BY <1>1, <1>2, <2>1, HeadlineSpeaks
  <2>3. /\ item.text = <<"We read it", "at", o.observed_at * MinutesPerTick>>
        /\ item.age = {formatAge(o.observed_at, now)}
    BY <2>1 DEF ReadAt, Item
  <2> HIDE DEF s, o
  <2>4. MomentOK(m, now) /\ s \in Source /\ o \in m.latest[s]
        /\ item.age \in {{}, {formatAge(o.observed_at, now)}}
    BY <1>1, <2>2, <2>3
  <2>5. AgeOf(o, m, item)
    BY <1>2, <2>4, AgeTold
  <2> QED
    BY <2>2, <2>3, <2>5
<1>5. ASSUME NEW s \in Source, NEW item \in States_of(<<"source", s>>), item.text # <<"Unknown">>
      PROVE  \E n \in moments : s \in registered(n) /\
               IF request.page = "terminal" /\ restricted(n, s)
               THEN item.text = <<"restricted_user_open_only">> /\ item.tone # "verified"
               ELSE Agrees(item, n, s)
  <2>1. item \in Says(<<"source", s>>, "state") /\ item.text # <<"Not checked yet">>
    BY <1>5 DEF States_of
  <2>2. /\ s \in registered(m) /\ item.shape = "state"
        /\ \/ request.page = "terminal" /\ item = RowState(m, s)
           \/ request.page = "advanced" /\ item \in {HealthState(m, s, now), Approval(m, s)}
           \/ request.page = "advanced" /\ item = Stopped /\ m.register[s].stopped
    BY <1>1, <2>1, SourceSaid
  <2>3. Approval(m, s).shape = "pill" /\ Stopped.shape = "pill"
    BY DEF Approval, Stopped, Item
  <2>4. CASE request.page = "terminal" /\ item = RowState(m, s)
    <3>1. CASE restricted(m, s)
      BY <1>1, <1>2, <2>2, <2>4, <3>1, SourceStateText
    <3>2. CASE ~restricted(m, s)
      <4>1. m.latest[s] # {}
        <5>1. m.latest[s] = {} => RowState(m, s) = Item("state", <<"Unknown">>, "unknown", {})
          BY <3>2 DEF RowState
        <5> QED
          BY <1>5, <2>4, <5>1, ItemShape
      <4>2. item = Lexed(effective(the(m.latest[s]), m.now), {}) /\ the(m.latest[s]) \in m.latest[s]
        BY <2>4, <3>2, <4>1, TheOne DEF RowState
      <4>3. Agrees(item, m, s)
        BY <1>1, <1>2, <4>1, <4>2, LexedAgrees
      <4> QED
        BY <2>2, <3>2, <4>3
    <3> QED
      BY <3>1, <3>2
  <2>5. CASE request.page = "advanced" /\ item = HealthState(m, s, now)
    <3>1. m.latest[s] # {}
      <4>1. m.latest[s] = {} => HealthState(m, s, now) = NotCheckedYet
        BY DEF HealthState
      <4> QED
        BY <2>1, <2>5, <4>1, NotCheckedFields
    <3>2. item = Lexed(effective(the(m.latest[s]), m.now), {formatAge(the(m.latest[s]).observed_at, now)})
          /\ the(m.latest[s]) \in m.latest[s]
      BY <2>5, <3>1, TheOne DEF HealthState
    <3>3. Agrees(item, m, s)
      BY <1>1, <1>2, <3>1, <3>2, LexedAgrees
    <3> QED
      BY <2>2, <2>5, <3>3
  <2> QED
    BY <2>2, <2>3, <2>4, <2>5
<1>6. ASSUME NEW s \in Source, NEW item \in Says(<<"source", s>>, "pill")
      PROVE  \E n \in moments : s \in registered(n) /\
               \/ item.text = <<"Stopped">> /\ item.tone = "caution" /\ n.register[s].stopped
               \/ LET state == n.register[s].review_state IN
                  item.text = <<APPROVAL[state]>> /\ (item.tone = "verified" <=> state = "approved")
  <2> DEFINE state == m.register[s].review_state
  <2>1. /\ s \in registered(m) /\ item.shape = "pill"
        /\ \/ request.page = "terminal" /\ item = RowState(m, s)
           \/ request.page = "advanced" /\ item \in {HealthState(m, s, now), Approval(m, s)}
           \/ request.page = "advanced" /\ item = Stopped /\ m.register[s].stopped
    BY <1>1, SourceSaid
  <2>2. RowState(m, s).shape = "state" /\ HealthState(m, s, now).shape = "state"
    BY <1>1, <1>2, SourceStateText
  <2>3. CASE item = Stopped /\ m.register[s].stopped
    <3>1. item.text = <<"Stopped">> /\ item.tone = "caution"
      BY <2>3, ItemShape DEF Stopped
    <3> QED
      BY <2>1, <2>3, <3>1
  <2>4. CASE item = Approval(m, s)
    <3>1. m.register[s] \in Registration /\ state # "absent"
      BY <1>1, <2>1 DEF MomentOK, registered
    <3>2. state \in ReviewState
      BY <3>1 DEF Registration
    <3>3. item = Item("pill", <<APPROVAL[state]>>, APPROVAL_TONE[APPROVAL[state]], {})
      BY <2>4 DEF Approval
    <3> HIDE DEF state
    <3>6. item.text = <<APPROVAL[state]>> /\ item.tone = APPROVAL_TONE[APPROVAL[state]]
      BY <3>3, ItemShape
    <3>4. APPROVAL_TONE[APPROVAL[state]] = "verified" <=> state = "approved"
      BY <3>2 DEF APPROVAL_TONE, APPROVAL, ReviewState
    <3>5. item.text = <<APPROVAL[state]>> /\ (item.tone = "verified" <=> state = "approved")
      BY <3>4, <3>6
    <3> QED
      BY <2>1, <3>5 DEF state
  <2> QED
    BY <2>1, <2>2, <2>3, <2>4
<1>7. ASSUME NEW t \in Terminal, NEW item \in Says(<<"terminal", t>>, "fact"),
             NEW kind \in {"counter_hours", "parking"}, item.text \in {<<"Hours", kind>>, <<"Parking", kind>>}
      PROVE  \E n \in moments, s \in Source :
               /\ s \in of_terminal(n, t) /\ kind \in Row[s].facts
               /\ n.register[s].review_state = "approved" /\ n.register[s].may_display
  <2>1. FactAllowed(item.text, m, t)
    BY <1>1, <1>2, TerminalSaid
  <2>2. kind \in displayable_facts(m, t)
    BY <1>7, <2>1 DEF FactAllowed
  <2>3. PICK s \in of_terminal(m, t) : /\ kind \in Row[s].facts
                                      /\ m.register[s].review_state = "approved" /\ m.register[s].may_display
    BY <2>2 DEF displayable_facts
  <2> QED
    BY <2>3, OfTerminalIsSource
<1> QED
  BY <1>3, <1>4, <1>5, <1>6, <1>7 DEF EvidenceIsEarned

LEMMA OneWord == \A a, b : <<a>> = <<b>> <=> a = b
<1> SUFFICES ASSUME NEW a, NEW b, <<a>> = <<b>> PROVE a = b
  OBVIOUS
<1>1. <<a>>[1] = a /\ <<b>>[1] = b
  OBVIOUS
<1> QED
  BY <1>1

\* The sentence about opportunities says of the headline what the badge says of it.
LEMMA NoteAndBadge ==
  ASSUME NEW m, NEW at \in Time, MomentOK(m, at), NEW t
  PROVE  LET note == opportunitiesNote(terminal_summary(m, t))
             state == TerminalState(m, t, at).text IN
         /\ note = "none published" <=> state = <<"no_departures_published">>
         /\ note = "no opportunities" <=> state = <<"fresh">>
         /\ note = "never checked" <=> state = <<"Not checked yet">>
<1> DEFINE summary == terminal_summary(m, t)
           note == opportunitiesNote(summary)
           state == TerminalState(m, t, at).text
<1>1. \A a, b : <<a>> = <<b>> <=> a = b
  BY OneWord
<1>2. CASE observed(m, t) = {}
  <2>1. summary.latest = {}
    BY <1>2, SummaryReading
  <2>2. note = "never checked"
    BY <2>1 DEF opportunitiesNote
  <2>3. state = <<"Not checked yet">>
    BY <1>2, TerminalStateText
  <2> HIDE DEF note, state
  <2>4. state # <<"no_departures_published">> /\ state # <<"fresh">>
    BY <1>1, <2>3
  <2> QED
    BY <2>2, <2>3, <2>4 DEF note, state
<1>3. CASE observed(m, t) # {}
  <2> DEFINE o == reading_of(m, t)
             code == effective(o, m.now)
             read_ == evidence_read(o, m.now)
  <2>1. o \in Observation /\ summary.latest = {read_}
    BY <1>3, SummaryReading, HeadlineReading
  <2>2. the(summary.latest) = read_ /\ summary.latest # {}
    BY <2>1, TheOnly
  <2>3. /\ read_.state = code /\ read_.retrieval = o.retrieval /\ code \in SOURCE_STATE_CODES
    BY <2>1, EvidenceRead
  <2>4. state = <<code>>
    <3>1. TerminalState(m, t, at) = Lexed(code, {formatAge(o.observed_at, at)})
      BY <1>3, TerminalStateText
    <3> QED
      BY <3>1, LexedFields
  <2>5. o.retrieval \in {"succeeded", "failed"}
        /\ (code \in {"fresh", "no_departures_published"} => o.retrieval = "succeeded")
    <3>1. code \in {"fresh", "no_departures_published"} => o.state \in POSITIVE_STATES
      BY DEF effective, POSITIVE_STATES
    <3> QED
      BY <2>1, <3>1 DEF Observation
  <2>6. note = CASE o.retrieval = "failed" -> "last check failed"
                 [] o.retrieval # "failed" /\ code = "no_departures_published" -> "none published"
                 [] o.retrieval # "failed" /\ code = "source_stale" -> "out of date"
                 [] o.retrieval # "failed" /\ code = "fresh" -> "no opportunities"
                 [] OTHER -> "not established"
    <3> HIDE DEF read_, code, o
    <3> QED
      BY <2>2, <2>3 DEF opportunitiesNote
  <2> HIDE DEF note, state, code, o
  <2>7. note = "none published" <=> code = "no_departures_published"
    BY <2>5, <2>6
  <2>8. note = "no opportunities" <=> code = "fresh"
    BY <2>5, <2>6
  <2>9. note # "never checked"
    BY <2>5, <2>6
  <2>10. state # <<"Not checked yet">>
    BY <2>3, <2>4, CodeText
  <2> QED
    BY <1>1, <2>4, <2>7, <2>8, <2>9, <2>10 DEF note, state
<1> QED
  BY <1>2, <1>3

LEMMA NotOlder == \A a, b, c \in Nat : ~(a - b > c) => a - b <= c
OBVIOUS

\* A badge that speaks of departures is that of a retrieved reading within the window.
LEMMA NoteTrue ==
  ASSUME NEW m, NEW at \in Time, MomentOK(m, at), NEW t,
         NEW told \in {"no_departures_published", "fresh"}, TerminalState(m, t, at).text = <<told>>
  PROVE  \E s \in Source : Speaks(m, t, s) /\ \E o \in m.latest[s] :
           o.retrieval = "succeeded" /\ m.now - o.observed_at <= Window /\ o.state = told
<1> DEFINE s == reading_source(m, t)
           o == reading_of(m, t)
           code == effective(o, m.now)
<1>1. told # "Not checked yet" /\ told \in POSITIVE_STATES
  BY DEF POSITIVE_STATES
<1>2. observed(m, t) # {}
  <2>1. TerminalState(m, t, at).text # <<"Not checked yet">>
    BY <1>1, OneWord
  <2> QED
    BY <2>1, TerminalStateText
<1>3. o \in Observation /\ o.observed_at \in Nat /\ m.now \in Nat
  BY <1>2, HeadlineReading
<1>4. s \in Source /\ Speaks(m, t, s) /\ o \in m.latest[s]
  BY <1>2, HeadlineSpeaks
<1>5. code = told
  <2>1. TerminalState(m, t, at) = Lexed(code, {formatAge(o.observed_at, at)})
    BY <1>2, TerminalStateText
  <2> HIDE DEF code
  <2>2. Lexed(code, {formatAge(o.observed_at, at)}).text = <<code>>
    BY LexedFields
  <2> QED
    BY <2>1, <2>2, OneWord
<1>6. o.state = told /\ ~(m.now - o.observed_at > Window)
  BY <1>1, <1>5 DEF effective, POSITIVE_STATES
<1>7. o.retrieval = "succeeded"
  BY <1>1, <1>3, <1>6 DEF Observation
<1> HIDE DEF o, s
<1>8. m.now - o.observed_at <= Window
  BY <1>3, <1>6, NotOlder, TimeAssumption
<1> QED
  BY <1>4, <1>6, <1>7, <1>8

\* Nothing is told as absent that was not so at a moment since the click.
LEMMA InvAbsence == IInv => AbsenceWasTrue
<1> SUFFICES ASSUME IInv, done PROVE AbsenceWasTrue
  BY DEF AbsenceWasTrue
<1>1. PICK m \in moments :
        /\ MomentOK(m, now)
        /\ \A statement \in shown.items : Legit(statement, m, request.page, request.about, moments, now)
  BY Witnessed
<1>2. now \in Time
  BY WorldOfInv
<1>3. ASSUME Says(Page, "empty") # {}
      PROVE  IF request.page = "terminals" THEN m.terminals = {} ELSE registered(m) = {}
  <2>1. PICK item \in Says(Page, "empty") : TRUE
    BY <1>3
  <2>2. item.shape = "empty" /\ OfPage(item, m, request.page, request.about)
    BY <1>1, PageSaid
  <2> QED
    BY <2>2 DEF OfPage
<1>4. ASSUME Says(Page, "not_found") # {} PROVE request.about \notin m.terminals
  <2>1. PICK item \in Says(Page, "not_found") : TRUE
    BY <1>4
  <2>2. item.shape = "not_found" /\ OfPage(item, m, request.page, request.about)
    BY <1>1, PageSaid
  <2> QED
    BY <2>2 DEF OfPage
<1>5. ASSUME NEW t \in Terminal, Says(<<"terminal", t>>, "state") # States_of(<<"terminal", t>>)
      PROVE  t \in m.terminals /\ observed(m, t) = {}
  <2>1. PICK item \in Says(<<"terminal", t>>, "state") : item.text = <<"Not checked yet">>
    BY <1>5 DEF States_of
  <2>2. t \in m.terminals /\ item = TerminalState(m, t, now)
    BY <1>1, StateSaid
  <2> QED
    BY <1>1, <1>2, <2>1, <2>2, TerminalStateText
<1>6. ASSUME NEW s \in Source,
             \/ Says(<<"source", s>>, "state") # States_of(<<"source", s>>)
             \/ \E item \in Says(<<"source", s>>, "state") : item.text = <<"Unknown">>
      PROVE  s \in registered(m) /\ m.latest[s] = {}
  <2>1. PICK item \in Says(<<"source", s>>, "state") : item.text \in {<<"Not checked yet">>, <<"Unknown">>}
    BY <1>6 DEF States_of
  <2>2. /\ s \in registered(m) /\ item.shape = "state"
        /\ \/ request.page = "terminal" /\ item = RowState(m, s)
           \/ request.page = "advanced" /\ item \in {HealthState(m, s, now), Approval(m, s), Stopped}
    BY <1>1, SourceSaid
  <2>3. item \notin {Approval(m, s), Stopped}
    <3>1. Approval(m, s).shape = "pill" /\ Stopped.shape = "pill"
      BY DEF Approval, Stopped, Item
    <3> QED
      BY <2>2, <3>1
  <2> QED
    <3>2. /\ RowState(m, s).text # <<"Not checked yet">> /\ HealthState(m, s, now).text # <<"Unknown">>
          /\ RowState(m, s).text = <<"Unknown">> => m.latest[s] = {}
          /\ HealthState(m, s, now).text = <<"Not checked yet">> => m.latest[s] = {}
      BY <1>1, <1>2, SourceStateText
    <3>3. item = RowState(m, s) \/ item = HealthState(m, s, now)
      BY <2>2, <2>3
    <3> QED
      BY <2>1, <2>2, <3>2, <3>3, Zenon
<1>7. ASSUME NEW t \in Terminal, NEW item \in Says(<<"terminal", t>>, "schedule"),
             item.text = <<"No 72-hour schedule source is registered">>
      PROVE  \E n \in moments : \A s \in of_terminal(n, t) : Row[s].kind # "schedule_artifact"
  <2>1. ScheduleAllowed(item.text, t, moments)
    BY <1>1, <1>2, TerminalSaid
  <2> QED
    BY <1>7, <2>1 DEF ScheduleAllowed
<1>8. \A t \in Terminal : \E n \in moments :
        (\E item \in Says(<<"terminal", t>>, "schedule") :
           item.text = <<"No 72-hour schedule source is registered">>) =>
          \A s \in of_terminal(n, t) : Row[s].kind # "schedule_artifact"
  BY <1>7
<1>9. ASSUME NEW t \in Terminal, NEW item \in Says(<<"terminal", t>>, "opportunities")
      PROVE  \E n \in moments :
               /\ item.text = <<"never checked">> => observed(n, t) = {}
               /\ item.text \in {<<"none published">>, <<"no opportunities">>} =>
                    \E s \in Source : Speaks(n, t, s) /\ \E o \in n.latest[s] :
                      /\ o.retrieval = "succeeded" /\ n.now - o.observed_at <= Window
                      /\ o.state = IF item.text = <<"none published">> THEN "no_departures_published"
                                   ELSE "fresh"
  <2> DEFINE words == opportunitiesNote(terminal_summary(m, t))
  <2>1. item.text = <<words>>
    BY <1>1, <1>2, TerminalSaid
  <2>2. \A word : <<words>> = <<word>> <=> words = word
    BY OneWord
  <2>3. words = "never checked" => observed(m, t) = {}
    <3>1. words = "never checked" => TerminalState(m, t, now).text = <<"Not checked yet">>
      BY <1>1, <1>2, NoteAndBadge
    <3> QED
      BY <1>1, <1>2, <3>1, TerminalStateText
  <2>4. ASSUME NEW told, \/ words = "none published" /\ told = "no_departures_published"
                         \/ words = "no opportunities" /\ told = "fresh"
        PROVE  \E s \in Source : Speaks(m, t, s) /\ \E o \in m.latest[s] :
                 o.retrieval = "succeeded" /\ m.now - o.observed_at <= Window /\ o.state = told
    <3>1. TerminalState(m, t, now).text = <<told>>
      BY <1>1, <1>2, <2>4, NoteAndBadge
    <3>2. MomentOK(m, now) /\ told \in {"no_departures_published", "fresh"}
      BY <1>1, <2>4
    <3> HIDE DEF words
    <3> QED
      BY <1>2, <3>1, <3>2, NoteTrue
  <2> HIDE DEF words
  <2>5. item.text = <<"never checked">> => observed(m, t) = {}
    BY <2>1, <2>2, <2>3
  <2>6. ASSUME item.text = <<"none published">>
        PROVE  \E s \in Source : Speaks(m, t, s) /\ \E o \in m.latest[s] :
                 o.retrieval = "succeeded" /\ m.now - o.observed_at <= Window
                 /\ o.state = "no_departures_published"
    BY <2>1, <2>2, <2>4, <2>6
  <2>7. ASSUME item.text = <<"no opportunities">>
        PROVE  \E s \in Source : Speaks(m, t, s) /\ \E o \in m.latest[s] :
                 o.retrieval = "succeeded" /\ m.now - o.observed_at <= Window /\ o.state = "fresh"
    BY <2>1, <2>2, <2>4, <2>7
  <2>8. <<"none published">> # <<"no opportunities">>
    BY OneWord
  <2> QED
    BY <2>5, <2>6, <2>7, <2>8
<1>10. ASSUME NEW t \in Terminal, NEW item \in Says(<<"terminal", t>>, "note"),
              NEW kind \in {"counter_hours", "parking"},
              item.text = <<IF kind = "parking" THEN "Parking" ELSE "Hours", "Not published">>
       PROVE  \E n \in moments : kind \notin displayable_facts(n, t)
  <2>1. NoteAllowed(item.text, m, t)
    BY <1>1, <1>2, TerminalSaid
  <2> QED
    BY <1>10, <2>1 DEF NoteAllowed, FactLabel
<1> QED
  BY <1>3, <1>4, <1>5, <1>6, <1>8, <1>9, <1>10 DEF AbsenceWasTrue

\* On one page, what is computed apart agrees.
LEMMA InvOneVoice == IInv => PageSpeaksWithOneVoice
<1> SUFFICES ASSUME IInv, done, NEW t \in Terminal
             PROVE  LET states == Says(<<"terminal", t>>, "state") IN
                    /\ \A a, b \in states : a.text = b.text /\ a.tone = b.tone
                    /\ \A note \in Says(<<"terminal", t>>, "opportunities"), item \in states :
                         /\ note.text = <<"none published">> <=> item.text = <<"no_departures_published">>
                         /\ note.text = <<"no opportunities">> <=> item.text = <<"fresh">>
                         /\ note.text = <<"never checked">> <=> item.text = <<"Not checked yet">>
                         /\ request.page = "terminal" /\ item.text # <<"Not checked yet">> =>
                              \E s \in Source :
                                \E row \in Says(<<"source", s>>, "state") : row.text = item.text
  BY DEF PageSpeaksWithOneVoice
<1>1. PICK m \in moments :
        /\ MomentOK(m, now)
        /\ \A statement \in shown.items : Legit(statement, m, request.page, request.about, moments, now)
        /\ request.page = "terminal" => RowsListed(shown.items, m, request.about)
  BY Witnessed
<1>2. now \in Time
  BY WorldOfInv
<1>3. \A item \in Says(<<"terminal", t>>, "state") : item = TerminalState(m, t, now)
  BY <1>1, StateSaid
<1>4. ASSUME NEW note \in Says(<<"terminal", t>>, "opportunities"),
             NEW item \in Says(<<"terminal", t>>, "state")
      PROVE  /\ note.text = <<"none published">> <=> item.text = <<"no_departures_published">>
             /\ note.text = <<"no opportunities">> <=> item.text = <<"fresh">>
             /\ note.text = <<"never checked">> <=> item.text = <<"Not checked yet">>
             /\ request.page = "terminal" /\ item.text # <<"Not checked yet">> =>
                  \E s \in Source : \E row \in Says(<<"source", s>>, "state") : row.text = item.text
  <2> DEFINE words == opportunitiesNote(terminal_summary(m, t))
  <2>1. /\ request.page = "terminal" /\ request.about = t
        /\ note.text = <<words>> /\ note.shape = "opportunities"
    BY <1>1, <1>2, TerminalSaid
  <2>2. item = TerminalState(m, t, now)
    BY <1>3
  <2>3. /\ words = "none published" <=> item.text = <<"no_departures_published">>
        /\ words = "no opportunities" <=> item.text = <<"fresh">>
        /\ words = "never checked" <=> item.text = <<"Not checked yet">>
    BY <1>1, <1>2, <2>2, NoteAndBadge
  <2> HIDE DEF words
  <2>4. \A word : <<words>> = <<word>> <=> words = word
    <3> SUFFICES ASSUME NEW word, <<words>> = <<word>> PROVE words = word
      OBVIOUS
    <3>1. <<words>>[1] = words /\ <<word>>[1] = word
      OBVIOUS
    <3> QED
      BY <3>1
  <2>5. ASSUME item.text # <<"Not checked yet">>
        PROVE  \E s \in Source : \E row \in Says(<<"source", s>>, "state") : row.text = item.text
    <3> DEFINE s == reading_source(m, t)
               o == reading_of(m, t)
               row == RowState(m, s)
    <3>1. observed(m, t) # {}
      BY <1>1, <1>2, <2>2, <2>5, TerminalStateText
    <3>2. item = Lexed(effective(o, m.now), {formatAge(o.observed_at, now)})
      BY <1>1, <1>2, <2>2, <3>1, TerminalStateText
    <3>3. s \in observed(m, t) /\ s \in Source /\ o = the(m.latest[s]) /\ m.latest[s] # {}
      BY <1>1, <1>2, <3>1, HeadlineReading
    <3>4. s \in of_terminal(m, t) /\ ~restricted(m, s)
      BY <3>3 DEF observed
    <3>5. row = Lexed(effective(o, m.now), {})
      BY <3>3, <3>4 DEF RowState
    <3>6. row.shape = "state" /\ row.text = item.text
      BY <3>2, <3>5, LexedFields
    <3>7. \E statement \in shown.items : statement.item.shape = "opportunities"
      BY <2>1, SaidItem
    <3>8. [about |-> <<"source", s>>, item |-> row] \in shown.items
      BY <1>1, <2>1, <3>4, <3>7 DEF RowsListed
    <3> HIDE DEF row, s
    <3>9. row \in Says(<<"source", s>>, "state")
      BY <3>6, <3>8 DEF Says
    <3> QED
      BY <3>3, <3>6, <3>9
  <2> QED
    BY <2>1, <2>3, <2>4, <2>5
<1> QED
  BY <1>3, <1>4

\* A trip's page lists all the terminals of one moment, in their order.
LEMMA InvTripLists == IInv => TripListsEveryTerminal
<1> SUFFICES ASSUME IInv, done, request.page = "trip", Says(Page, "error") = {}
             PROVE  LET order == shown.order IN
                    /\ \E m \in moments : ToSet(order) = m.terminals
                    /\ IsInjective(order) /\ order # <<>> /\ order[1] = request.about
                    /\ \A i, j \in 2..Len(order) : i < j => order[i] < order[j]
                    /\ \A t \in ToSet(order) : Says(<<"terminal", t>>, "state") # {}
  BY DEF TripListsEveryTerminal
<1>1. PICK m \in moments :
        MomentOK(m, now) /\ TerminalsListed(shown.items, shown.order, m, request.about, now)
  BY Witnessed
<1>2. now \in Time
  BY WorldOfInv
<1>3. \A statement \in shown.items : ~(statement.about = Page /\ statement.item.shape = "error")
  BY DEF Says
<1>4. /\ shown.order = orderTerminals(m.terminals, request.about)
      /\ \A t \in m.terminals :
           [about |-> <<"terminal", t>>, item |-> TerminalState(m, t, now)] \in shown.items
  BY <1>1, <1>3 DEF TerminalsListed
<1>5. request.about \in m.terminals
  BY DEF IInv, AskedFor, done
<1>6. m.terminals \subseteq Nat /\ IsFiniteSet(m.terminals)
  BY <1>1, FS_Subset, TerminalAssumption DEF MomentOK
<1>7. /\ ToSet(shown.order) = m.terminals /\ IsInjective(shown.order)
      /\ shown.order # <<>> /\ shown.order[1] = request.about
      /\ \A i, j \in 2..Len(shown.order) : i < j => shown.order[i] < shown.order[j]
  BY <1>4, <1>5, <1>6, OriginThenByName
<1>8. ASSUME NEW t \in m.terminals PROVE Says(<<"terminal", t>>, "state") # {}
  <2> DEFINE item == TerminalState(m, t, now)
  <2>1. item.shape = "state"
    BY <1>1, <1>2, TerminalStateText
  <2>2. [about |-> <<"terminal", t>>, item |-> item] \in shown.items
    BY <1>4
  <2> HIDE DEF item
  <2>3. item \in Says(<<"terminal", t>>, "state")
    BY <2>1, <2>2 DEF Says
  <2> QED
    BY <2>3
<1> QED
  BY <1>7, <1>8

LEMMA InvTypes == IInv => TypeOK
<1> SUFFICES ASSUME IInv PROVE TypeOK
  OBVIOUS
<1>1. WorldOK /\ changes \in 0..MaxChanges
  BY WorldOfInv
<1>2. ASSUME NEW S, \A a, b \in S : a = b PROVE Cardinality(S) <= 1
  <2>1. CASE S = {}
    BY <2>1, FS_EmptySet
  <2>2. CASE S # {}
    <3>1. PICK x \in S : S = {x}
      BY <1>2, <2>2
    <3>2. Cardinality({x}) = 1
      BY FS_Singleton
    <3> QED
      BY <3>1, <3>2
  <2> QED
    BY <2>1, <2>2
<1>3. \A s \in Source : Cardinality(latest[s]) <= 1 /\ latest[s] \subseteq Observation
  BY <1>1, <1>2 DEF WorldOK
<1>4. \A s \in registered(moment) : Row[s].terminal \in terminals \cup {0}
  BY <1>1, MomentFields DEF registered, WorldOK
<1>5. \A a, b \in request.read : a = b
  <2>1. CASE request.stage = "idle"
    BY <2>1 DEF IInv, RequestTyped, Idle
  <2>2. CASE request.stage # "idle"
    BY <2>2 DEF IInv, RequestTyped, AnswersOK
  <2> QED
    BY <2>1, <2>2
<1>6. \A statement \in shown.items : statement.about[2] \in {0} \cup Terminal \cup Source
  <2>1. CASE done
    <3>1. PICK m \in moments :
            /\ MomentOK(m, now)
            /\ \A statement \in shown.items : Legit(statement, m, request.page, request.about, moments, now)
      BY <2>1, Witnessed
    <3> SUFFICES ASSUME NEW statement \in shown.items
                 PROVE  statement.about[2] \in {0} \cup Terminal \cup Source
      OBVIOUS
    <3>2. Legit(statement, m, request.page, request.about, moments, now)
      BY <3>1
    <3>3. CASE statement.about = Page
      BY <3>3 DEF Page
    <3>4. CASE \E t \in m.terminals : statement.about = <<"terminal", t>>
      BY <3>1, <3>4 DEF MomentOK
    <3>5. CASE \E s \in registered(m) : statement.about = <<"source", s>>
      BY <3>5 DEF registered
    <3> QED
      BY <3>2, <3>3, <3>4, <3>5 DEF Legit
  <2>2. CASE ~done
    BY <2>2 DEF IInv, RequestTyped, Shows, done
  <2> QED
    BY <2>1, <2>2
<1>7. request.stage \in {"idle", "reading", "shown"} /\ Cardinality(request.read) <= 1
  BY <1>2, <1>5 DEF IInv, RequestTyped
<1>8. ASSUME NEW s \in Source
      PROVE  Cardinality(readable_since[s]) <= 1 /\ readable_since[s] \subseteq 0..now
  <2>1. readable_since[s] \subseteq Time /\ now \in Time /\ \A since \in readable_since[s] : since <= now
    BY WorldOfInv DEF ReadableOK
  <2>2. readable_since[s] \subseteq 0..now
    BY <2>1, TimeAssumption DEF Time
  <2> QED
    BY <1>2, <2>2, WorldOfInv DEF ReadableOK
<1> QED
  BY <1>1, <1>3, <1>4, <1>6, <1>7, <1>8 DEF TypeOK, WorldOK

-------------------------------------------------------------------------------

\* The register, the request under way and what is shown stay in their domains.
THEOREM TypeCorrect == Spec => []TypeOK
BY InvariantHolds, InvTypes, PTL

\* What a page says of a terminal as evidence, its state, tone and age, is the newest reading of a
\* source that might speak at some moment since the click; what it says of a source is that
\* source's reading, restriction, review state or switch; the facts it reproduces were approved for
\* display; slate is earned (lib/presentation/source-state.ts, adapters/terminals.ts).
THEOREM EvidenceEarned == Spec => []EvidenceIsEarned
BY InvariantHolds, InvEvidence, PTL

\* Nothing is told as absent because it could not be read.  No terminals, no sources, no such page,
\* no source that may speak was read, no schedule source, nothing published and fact not
\* published: each was so at a moment since the click (app/terminals/page.tsx).
THEOREM AbsenceTrue == Spec => []AbsenceWasTrue
BY InvariantHolds, InvAbsence, PTL

\* The badge, the marker, the evidence list and the sentence about opportunities never
\* contradict each other on one page (adapters/terminals.ts, opportunitiesNote).
THEOREM OneVoice == Spec => []PageSpeaksWithOneVoice
BY InvariantHolds, InvOneVoice, PTL

\* A trip's page lists every terminal that was registered at one moment since the click, once,
\* the origin first and the others by name (adapters/terminals-to-check.ts orderTerminals).
THEOREM TripListsAll == Spec => []TripListsEveryTerminal
BY InvariantHolds, InvTripLists, PTL
===============================================================================
