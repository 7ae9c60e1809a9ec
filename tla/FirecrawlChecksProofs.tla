------------------------- MODULE FirecrawlChecksProofs -------------------------
(* Theorems of FirecrawlChecks: the adapter is a provider as the port allows it, and keeps *)
(* to its permissions, its budget and its own evidence, for every terminal and reply.      *)
EXTENDS FirecrawlChecks, SourceChecksProofs, LeastNumber, SequenceTheorems

(* The adapter as a provider *)

AdapterTypeOK ==
  /\ page_cache \in [Run -> [Source -> Reply \cup {NotFetched}]]
  /\ fetches \in [Run -> Seq(Fetch)]

\* The first of the pages that may be retrieved is one of them.
LEMMA ParentIsAPage ==
  ASSUME NEW r \in Run, NEW s \in Source, ParentPages(r, s) # {}
  PROVE  Parent(r, s) \in ParentPages(r, s)
<1>1. ParentPages(r, s) \subseteq Nat
  BY DEF ParentPages, Source
<1>2. \E p \in ParentPages(r, s) : \A q \in ParentPages(r, s) : p <= q
  BY <1>1, LeastExists
<1> QED
  BY <1>2 DEF Parent

\* Whatever a reply is, the adapter's reading of it is an observation the port allows.
LEMMA ObservedIsAnAnswer ==
  ASSUME TypeOK, NEW r \in Run, NEW s \in Source, NEW reply \in Reply, reply.ok
  PROVE  Observed(r, s, reply) \in Answers
<1>1. seen[r].registry[s].policy.version \in Version
  <2>1. seen[r].registry \in [Source -> Entry]
    BY DEF TypeOK, Snapshot
  <2>2. seen[r].registry[s].policy \in SourceProcessingPolicy
    BY <2>1 DEF Entry
  <2> QED
    BY <2>2 DEF SourceProcessingPolicy
<1>2. reply.status \in PageStatus /\ reply.text \in BOOLEAN
  BY DEF Reply
<1>3. /\ StateOf(reply.status) \in {"fresh", "source_missing", "source_unreachable"}
      /\ StateOf(reply.status) = "fresh" => reply.status = "2xx"
  BY <1>2 DEF StateOf, PageStatus
<1>4. /\ ExtractionOf(r, s, reply) \in {"not_attempted", "failed", "exact_text"}
      /\ ExtractionOf(r, s, reply) = "exact_text" => reply.status = "2xx"
  BY DEF ExtractionOf
<1> DEFINE obs == Observed(r, s, reply)
<1>5. /\ obs.state = StateOf(reply.status)
      /\ obs.extraction = ExtractionOf(r, s, reply)
      /\ obs.retrieval = (IF reply.status = "2xx" THEN "succeeded" ELSE "failed")
      /\ obs.payload_ref = FALSE
  BY DEF Observed
<1>6. evidence_consistency(obs)
  BY <1>3, <1>4, <1>5 DEF evidence_consistency, POSITIVE_STATES, AbsenceClaim, Interpreted
<1>7. obs \in [source : Source, version : Version, provider : {ProviderId},
           state : {"fresh", "source_missing", "source_unreachable"},
           retrieval : {"succeeded", "failed"},
           extraction : {"not_attempted", "failed", "exact_text"},
           url_clean : {TRUE}, payload_ref : {FALSE}, content_hash : BOOLEAN]
  BY <1>1, <1>2, <1>3, <1>4 DEF Observed
<1> QED
  BY <1>6, <1>7, PortAssumption DEF AdapterObservation

\* An answer is a step of SourceChecks: a Failure, or an observation the port allows.
LEMMA DeliverIsAStep ==
  ASSUME IInv, NEW r \in Run, NEW reply \in Reply, Deliver(r, reply)
  PROVE  Step(r) /\ phase[r] = "awaiting"
<1>1. phase[r] = "awaiting"
  BY DEF Deliver, Answer, Fail
<1>2. Turn(r) \in Source
  BY <1>1 DEF IInv, RunInv, RunShape
<1>3. CASE reply.ok
  <2>1. Observed(r, Turn(r), reply) \in Answers
    BY <1>2, <1>3, ObservedIsAnAnswer DEF IInv
  <2> QED
    BY <1>1, <1>3, <2>1 DEF Deliver, Step
<1>4. CASE ~reply.ok
  <2>1. reply.code \in ErrorCode
    BY <1>4 DEF Reply, ErrorCode
  <2> QED
    BY <1>1, <1>4, <2>1 DEF Deliver, Step
<1> QED
  BY <1>3, <1>4

\* What the adapter does at one source: it sends a request, or it answers, or both.
LEMMA ObserveIsAStep ==
  ASSUME IInv, AdapterTypeOK, NEW r \in Run, Observe(r)
  PROVE  /\ phase[r] = "awaiting" /\ Turn(r) \in Source
         /\ Step(r) \/ UNCHANGED vars
<1>1. phase[r] = "awaiting"
  BY DEF Observe, ArtifactParentMissing, ArtifactNotFound, Discovered, Discovering, FetchPage,
         FetchParent, FetchDocument
<1>2. Turn(r) \in Source
  BY <1>1 DEF IInv, RunInv, RunShape
<1>3. CASE ArtifactParentMissing(r)
  <2>1. "invalid_input" \in ErrorCode
    BY DEF ErrorCode
  <2> QED
    BY <1>1, <1>2, <1>3, <2>1 DEF ArtifactParentMissing, Step
<1>4. CASE ArtifactNotFound(r)
  <2>1. ParentReply(r) \in Reply
    <3>1. Parent(r, Turn(r)) \in Source
      BY <1>2, <1>4, ParentIsAPage DEF ArtifactNotFound, Discovered, Discovering, ParentPages
    <3> QED
      BY <1>4, <3>1 DEF ArtifactNotFound, Discovered, ParentReply, AdapterTypeOK
  <2>2. (IF ParentReply(r).ok THEN "unavailable" ELSE ParentReply(r).code) \in ErrorCode
    BY <2>1 DEF Reply, ErrorCode
  <2> QED
    BY <1>1, <1>2, <1>4, <2>2 DEF ArtifactNotFound, Step
<1>5. ASSUME NEW reply \in Replies, FetchPage(r, reply) \/ FetchDocument(r, reply)
      PROVE  Step(r)
  BY <1>5, DeliverIsAStep, RepliesAssumption DEF FetchPage, FetchDocument
<1>6. ASSUME NEW reply \in Replies, FetchParent(r, reply) PROVE UNCHANGED vars
  BY <1>6 DEF FetchParent
<1> QED
  BY <1>1, <1>2, <1>3, <1>4, <1>5, <1>6 DEF Observe

\* Every step with Firecrawl is a step of the runs with any provider, or none.
LEMMA FirecrawlSteps ==
  ASSUME IInv, AdapterTypeOK, [FirecrawlNext]_allVars
  PROVE  [Next]_vars
<1>1. CASE Govern \/ UNCHANGED allVars
  BY <1>1 DEF Govern, Next, allVars
<1>2. ASSUME NEW r \in Run, Starting(r) \/ Around(r) PROVE Next
  BY <1>2 DEF Starting, Around, Next, Step
<1>3. ASSUME NEW r \in Run, Observe(r) PROVE Next \/ UNCHANGED vars
  BY <1>3, ObserveIsAStep DEF Next
<1> QED
  BY <1>1, <1>2, <1>3 DEF FirecrawlNext

-------------------------------------------------------------------------------
(* The inductive invariant: what every request of a run was sent for. *)

\* Each request was allowed by the registry rows and switches the run read, and stays on the
\* terminal of the source it is sent for.
Permitted(r) ==
  \A f \in Requests(r) :
    /\ May(r, f.page, "retrieve")
    /\ Readable(f.for, seen[r].registry[f.for], ProviderId, seen[r].switches)
    /\ f.page # f.for => /\ Kind[f.for] = ArtifactKind /\ Kind[f.page] = "terminal_page"
                         /\ TerminalOf[f.page] = TerminalOf[f.for]

\* A document was requested for a source that has its outcome, a discovery for the cache.
Accounted(r) ==
  \A f \in Requests(r) :
    /\ f.for = f.page => f.for <= Len(outcomes[r])
    /\ f.for # f.page => page_cache[r][f.page] # NotFetched

\* What the cache holds is what a discovery of this run was answered.
CacheIsAnswered(r) ==
  \A p \in Source : page_cache[r][p] # NotFetched =>
    \E f \in Requests(r) : f.page = p /\ f.for # p /\ f.reply = page_cache[r][p]

Bounded(r) ==
  \A i, j \in DOMAIN fetches[r] :
    /\ fetches[r][i].page = fetches[r][j].page
    /\ (fetches[r][i].for = fetches[r][i].page) <=> (fetches[r][j].for = fetches[r][j].page)
    => i = j

\* The row says of its source what the source's own document answered.
OwnEvidence(r, row) ==
  LET obs == row.observation
      s == obs.source
  IN /\ \E f \in Requests(r) :
          /\ f.for = s /\ f.page = s /\ f.reply.ok
          /\ (obs.state = "fresh") <=> (f.reply.status = "2xx")
          /\ (obs.state = "source_missing") <=> (f.reply.status = "404_410")
          /\ obs.extraction = "exact_text" => f.reply.stamp = "date_time"
     /\ Kind[s] = ArtifactKind =>
          \E f \in Requests(r) : f.page # f.for /\ f.reply.ok /\ s \in f.reply.links

\* A source that was refused had no document of its own requested.
NotRefused(r) ==
  \A s \in DOMAIN outcomes[r] :
    outcomes[r][s] = "rejected" => \A f \in Requests(r) : f.for = s => f.page # s

FetchInv(r) ==
  /\ phase[r] = "idle" => Requests(r) = {}
  /\ Permitted(r) /\ Accounted(r) /\ CacheIsAnswered(r) /\ Bounded(r) /\ NotRefused(r)
  /\ \A row \in pending[r] : OwnEvidence(r, row)

AdapterIInv == IInv /\ AdapterTypeOK /\ \A r \in Run : FetchInv(r)

\* Steps that send nothing and store nothing keep what is known of the requests.
LEMMA NothingSent ==
  ASSUME NEW q \in Run, FetchInv(q), NEW outcome \in Outcome,
         fetches'[q] = fetches[q], page_cache'[q] = page_cache[q], pending'[q] = pending[q],
         outcomes[q] \in Seq(Outcome),
         outcomes'[q] = outcomes[q] \/ outcomes'[q] = Append(outcomes[q], outcome),
         seen'[q] = seen[q] \/ phase[q] = "idle",
         phase'[q] = "idle" => phase[q] = "idle",
         fetches[q] \in Seq(Fetch)
  PROVE  FetchInv(q)'
<1>0. /\ Len(outcomes[q]) \in Nat /\ Len(outcomes'[q]) \in Nat
      /\ Len(outcomes[q]) <= Len(outcomes'[q])
  BY OneMoreOutcome DEF Turn
<1>1. Requests(q)' = Requests(q)
  BY DEF Requests
<1>2. Permitted(q)'
  <2>1. CASE phase[q] = "idle"
    BY <1>1, <2>1 DEF FetchInv, Permitted
  <2>2. CASE seen'[q] = seen[q]
    BY <1>1, <2>2 DEF FetchInv, Permitted, May
  <2> QED
    BY <2>1, <2>2
<1>3. Accounted(q)'
  <2>1. ASSUME NEW f \in Requests(q), f.for = f.page PROVE f.for <= Len(outcomes'[q])
    <3>1. f \in Fetch
      BY ElementOfSeq DEF Requests
    <3>2. f.for \in Nat
      BY <3>1, SourceCountAssumption DEF Fetch, Source
    <3>3. f.for <= Len(outcomes[q])
      BY <2>1 DEF FetchInv, Accounted
    <3> QED
      BY <1>0, <3>2, <3>3
  <2> QED
    BY <1>1, <2>1 DEF FetchInv, Accounted
<1>4. CacheIsAnswered(q)'
  BY <1>1 DEF FetchInv, CacheIsAnswered
<1>5. Bounded(q)'
  BY DEF FetchInv, Bounded
<1>6. \A row \in pending[q] : OwnEvidence(q, row)'
  BY <1>1 DEF FetchInv, OwnEvidence
<1>7. NotRefused(q)'
  <2> SUFFICES ASSUME NEW s \in DOMAIN outcomes'[q], outcomes'[q][s] = "rejected",
                      NEW f \in Requests(q), f.for = s, f.page = s
               PROVE  FALSE
    BY <1>1 DEF NotRefused
  <2>1. s <= Len(outcomes[q])
    BY DEF FetchInv, Accounted
  <2>2. s \in DOMAIN outcomes[q] /\ outcomes'[q][s] = outcomes[q][s]
    BY <1>0, <2>1, OneMoreOutcome DEF Turn
  <2> QED
    BY <2>2 DEF FetchInv, NotRefused
<1> QED
  BY <1>1, <1>2, <1>3, <1>4, <1>5, <1>6, <1>7 DEF FetchInv

\* A request more: the earlier ones keep their places.
LEMMA OneMoreRequest ==
  ASSUME NEW r \in Run, fetches[r] \in Seq(Fetch), NEW f \in Fetch,
         fetches'[r] = Append(fetches[r], f)
  PROVE  /\ Requests(r)' = Requests(r) \cup {f}
         /\ DOMAIN fetches'[r] = DOMAIN fetches[r] \cup {Len(fetches[r]) + 1}
         /\ \A i \in DOMAIN fetches[r] : fetches'[r][i] = fetches[r][i]
         /\ fetches'[r][Len(fetches[r]) + 1] = f
<1>1. /\ DOMAIN fetches[r] = 1..Len(fetches[r]) /\ Len(fetches[r]) \in Nat
      /\ DOMAIN fetches'[r] = 1..(Len(fetches[r]) + 1)
      /\ \A i \in DOMAIN fetches[r] : fetches'[r][i] = fetches[r][i]
      /\ fetches'[r][Len(fetches[r]) + 1] = f
  OBVIOUS
<1>2. 1..(Len(fetches[r]) + 1) = 1..Len(fetches[r]) \cup {Len(fetches[r]) + 1}
  BY <1>1
<1> QED
  BY <1>1, <1>2 DEF Requests

\* A request unlike the earlier ones keeps the budget.
LEMMA StillBounded ==
  ASSUME NEW r \in Run, fetches[r] \in Seq(Fetch), NEW f \in Fetch, Bounded(r),
         fetches'[r] = Append(fetches[r], f),
         \A g \in Requests(r) : g.page = f.page => ~((g.for = g.page) <=> (f.for = f.page))
  PROVE  Bounded(r)'
<1>1. /\ DOMAIN fetches'[r] = DOMAIN fetches[r] \cup {Len(fetches[r]) + 1}
      /\ \A i \in DOMAIN fetches[r] : fetches'[r][i] = fetches[r][i]
      /\ fetches'[r][Len(fetches[r]) + 1] = f
  BY OneMoreRequest
<1>2. \A i \in DOMAIN fetches[r] :
        fetches[r][i].page = f.page =>
          ~((fetches[r][i].for = fetches[r][i].page) <=> (f.for = f.page))
  BY DEF Requests
<1>3. SUFFICES ASSUME NEW i \in DOMAIN fetches'[r], NEW j \in DOMAIN fetches'[r],
                      fetches'[r][i].page = fetches'[r][j].page,
                      (fetches'[r][i].for = fetches'[r][i].page)
                        <=> (fetches'[r][j].for = fetches'[r][j].page)
               PROVE  i = j
  BY DEF Bounded
<1>4. CASE i \in DOMAIN fetches[r] /\ j \in DOMAIN fetches[r]
  BY <1>1, <1>3, <1>4 DEF Bounded
<1>5. CASE i \in DOMAIN fetches[r] /\ j = Len(fetches[r]) + 1
  BY <1>1, <1>2, <1>3, <1>5
<1>6. CASE i = Len(fetches[r]) + 1 /\ j \in DOMAIN fetches[r]
  BY <1>1, <1>2, <1>3, <1>6
<1> QED
  BY <1>1, <1>4, <1>5, <1>6

\* What a run that awaits an answer knows: whose turn it is, and that it may be read.
LEMMA AtItsTurn ==
  ASSUME AdapterIInv, NEW r \in Run, phase[r] = "awaiting"
  PROVE  /\ Turn(r) \in Source
         /\ Readable(Turn(r), seen[r].registry[Turn(r)], ProviderId, seen[r].switches)
         /\ May(r, Turn(r), "retrieve")
         /\ outcomes[r] \in Seq(Outcome) /\ Len(outcomes[r]) \in Nat
         /\ fetches[r] \in Seq(Fetch) /\ FetchInv(r)
<1>1. Turn(r) \in Source /\ TurnReadable(r)
  BY DEF AdapterIInv, IInv, RunInv, RunShape
<1>2. outcomes[r] \in Seq(Outcome) /\ Len(outcomes[r]) \in Nat
  BY DEF AdapterIInv, IInv, TypeOK
<1> QED
  BY <1>1, <1>2 DEF AdapterIInv, AdapterTypeOK, TurnReadable, EntryOf, Readable, May

\* What the adapter makes of a reply is permitted by what the run read: the pipeline accepts it.
LEMMA ObservedIsAccepted ==
  ASSUME NEW r \in Run, NEW reply
  PROVE  Accepts(r, Observed(r, Turn(r), reply))
<1> DEFINE s == Turn(r)
           obs == Observed(r, s, reply)
<1>1. /\ obs.provider = ProviderId /\ obs.source = s /\ obs.version = EntryOf(r).policy.version
      /\ obs.url_clean /\ ~obs.payload_ref /\ obs.extraction = ExtractionOf(r, s, reply)
      /\ obs.content_hash => EntryOf(r).policy.raw_payload # "denied"
  BY DEF Observed, EntryOf
<1>2. ExtractionOf(r, s, reply) \in Interpreted => May(r, s, "parse")
  BY DEF ExtractionOf, Interpreted
<1>3. May(r, s, "parse") => authorize_processing(s, EntryOf(r), "parse", seen[r].switches)
  BY DEF May, EntryOf
<1> HIDE DEF obs
<1> QED
  BY <1>1, <1>2, <1>3 DEF Accepts, validate_against_policy, obs

\* What an answer does to the run: one outcome more, and a row at most.
LEMMA Delivered ==
  ASSUME AdapterIInv, NEW r \in Run, NEW reply \in Reply, Deliver(r, reply)
  PROVE  /\ phase[r] = "awaiting" /\ phase'[r] = "checking"
         /\ seen' = seen
         /\ Len(outcomes'[r]) = Turn(r)
         /\ \E outcome \in Outcome \ {"rejected"} : outcomes'[r] = Append(outcomes[r], outcome)
         /\ \/ pending'[r] = pending[r]
            \/ /\ reply.ok
               /\ pending'[r] = pending[r] \cup
                    {[run |-> r, observation |-> Observed(r, Turn(r), reply)]}
<1> USE DEF AdapterIInv, IInv, TypeOK
<1>1. CASE ~reply.ok
  <2>1. Fail(r, reply.code) /\ reply.code \in {"unavailable", "unauthorized"}
    BY <1>1 DEF Deliver, Reply
  <2>2. FailureOutcome(reply.code) = "provider_failure"
    BY <2>1 DEF FailureOutcome
  <2>3. outcomes'[r] = Append(outcomes[r], "provider_failure")
    BY <2>1, <2>2 DEF Fail
  <2> QED
    BY <2>1, <2>3 DEF Fail, Turn, Outcome
<1>2. CASE reply.ok
  <2> DEFINE obs == Observed(r, Turn(r), reply)
  <2>1. Answer(r, obs)
    BY <1>2 DEF Deliver
  <2>2. Accepts(r, obs)
    BY ObservedIsAccepted
  <2>3. /\ pending' = [pending EXCEPT ![r] = @ \cup {[run |-> r, observation |-> obs]}]
        /\ outcomes' = [outcomes EXCEPT ![r] = Append(@, "recorded")]
        /\ phase[r] = "awaiting" /\ phase' = [phase EXCEPT ![r] = "checking"]
        /\ seen' = seen
    BY <2>1, <2>2 DEF Answer
  <2> HIDE DEF obs
  <2>4. pending'[r] = pending[r] \cup {[run |-> r, observation |-> obs]}
    BY <2>3
  <2>5. Len(outcomes'[r]) = Turn(r)
    BY <2>3 DEF Turn
  <2>6. outcomes'[r] = Append(outcomes[r], "recorded") /\ "recorded" \in Outcome \ {"rejected"}
    BY <2>3 DEF Outcome
  <2>7. phase'[r] = "checking"
    BY <2>3
  <2> QED
    BY <1>2, <2>3, <2>4, <2>5, <2>6, <2>7 DEF obs
<1> QED
  BY <1>1, <1>2

\* Answers that send nothing: the artifact has no page to look it up on, or is not linked.
LEMMA LookupFails ==
  ASSUME AdapterIInv, NEW r \in Run, ArtifactParentMissing(r) \/ ArtifactNotFound(r)
  PROVE  FetchInv(r)'
<1>1. PICK code : Fail(r, code) /\ UNCHANGED providerVars
  BY DEF ArtifactParentMissing, ArtifactNotFound
<1>2. phase[r] = "awaiting" /\ phase'[r] = "checking" /\ seen' = seen /\ pending' = pending
  BY <1>1 DEF Fail, AdapterIInv, IInv, TypeOK
<1>3. /\ outcomes[r] \in Seq(Outcome) /\ Len(outcomes[r]) \in Nat
      /\ fetches[r] \in Seq(Fetch) /\ FetchInv(r)
  BY <1>2, AtItsTurn
<1>4. outcomes'[r] = Append(outcomes[r], FailureOutcome(code)) /\ FailureOutcome(code) \in Outcome
  BY <1>1 DEF Fail, FailureOutcome, Outcome, AdapterIInv, IInv, TypeOK
<1> QED
  BY <1>1, <1>2, <1>3, <1>4, NothingSent DEF providerVars

\* The page of the artifact's terminal is requested once, and kept.
LEMMA ParentKeeps ==
  ASSUME AdapterIInv, NEW r \in Run, NEW reply \in Reply, FetchParent(r, reply)
  PROVE  FetchInv(r)' /\ AdapterTypeOK'
<1> DEFINE p == Parent(r, Turn(r))
           f == [for |-> Turn(r), page |-> p, reply |-> reply]
<1>1. /\ phase[r] = "awaiting" /\ Kind[Turn(r)] = ArtifactKind
      /\ ParentPages(r, Turn(r)) # {} /\ page_cache[r][p] = NotFetched
      /\ page_cache' = [page_cache EXCEPT ![r][p] = reply]
      /\ fetches' = [fetches EXCEPT ![r] = Append(@, f)]
      /\ UNCHANGED <<phase, seen, outcomes, pending>>
  BY DEF FetchParent, Discovering, Sent, vars
<1>2. /\ Turn(r) \in Source
      /\ Readable(Turn(r), seen[r].registry[Turn(r)], ProviderId, seen[r].switches)
      /\ fetches[r] \in Seq(Fetch) /\ FetchInv(r)
  BY <1>1, AtItsTurn
<1>3. /\ p \in Source /\ Kind[p] = "terminal_page" /\ TerminalOf[p] = TerminalOf[Turn(r)]
      /\ May(r, p, "retrieve")
  BY <1>1, <1>2, ParentIsAPage DEF ParentPages
<1>4. p # Turn(r)
  BY <1>1, <1>3 DEF ArtifactKind
<1> HIDE DEF p
<1>5. f \in Fetch /\ f.for = Turn(r) /\ f.page = p /\ f.reply = reply
  BY <1>2, <1>3 DEF Fetch
<1>6. reply # NotFetched
  <2>1. reply.ok \/ reply.code \in {"unavailable", "unauthorized"}
    BY DEF Reply
  <2>2. ~NotFetched.ok /\ NotFetched.code = "not_fetched"
    BY DEF NotFetched
  <2> QED
    BY <2>1, <2>2
<1> HIDE DEF f
<1>7. /\ AdapterTypeOK'
      /\ fetches'[r] = Append(fetches[r], f)
      /\ page_cache'[r] = [page_cache[r] EXCEPT ![p] = reply]
      /\ page_cache[r] \in [Source -> Reply \cup {NotFetched}]
  BY <1>1, <1>3, <1>5 DEF AdapterIInv, AdapterTypeOK
<1>8. Requests(r)' = Requests(r) \cup {f}
  BY <1>2, <1>5, <1>7, OneMoreRequest
<1>9. Permitted(r)'
  BY <1>1, <1>2, <1>3, <1>5, <1>8 DEF FetchInv, Permitted, May
<1>10. Accounted(r)'
  <2>1. ASSUME NEW g \in Requests(r), g.for # g.page PROVE page_cache'[r][g.page] # NotFetched
    BY <1>6, <1>7, <2>1, <1>2 DEF FetchInv, Accounted
  <2>2. page_cache'[r][f.page] # NotFetched
    BY <1>3, <1>5, <1>6, <1>7
  <2> QED
    BY <1>1, <1>2, <1>4, <1>5, <1>8, <2>1, <2>2 DEF FetchInv, Accounted
<1>11. CacheIsAnswered(r)'
  <2> SUFFICES ASSUME NEW x \in Source, page_cache'[r][x] # NotFetched
               PROVE  \E g \in Requests(r)' :
                        g.page = x /\ g.for # x /\ g.reply = page_cache'[r][x]
    BY DEF CacheIsAnswered
  <2>1. CASE x = p
    BY <1>3, <1>4, <1>5, <1>7, <1>8, <2>1
  <2>2. CASE x # p
    <3>1. page_cache'[r][x] = page_cache[r][x]
      BY <1>7, <2>2
    <3> QED
      BY <1>2, <1>8, <3>1 DEF FetchInv, CacheIsAnswered
  <2> QED
    BY <2>1, <2>2
<1>12. Bounded(r)'
  <2>1. \A g \in Requests(r) : g.page = f.page => ~((g.for = g.page) <=> (f.for = f.page))
    BY <1>1, <1>2, <1>4, <1>5 DEF FetchInv, Accounted
  <2> QED
    BY <1>2, <1>5, <1>7, <2>1, StillBounded DEF FetchInv
<1>13. \A row \in pending'[r] : OwnEvidence(r, row)'
  BY <1>1, <1>2, <1>8 DEF FetchInv, OwnEvidence
<1>14. NotRefused(r)'
  BY <1>1, <1>2, <1>4, <1>5, <1>8 DEF FetchInv, NotRefused
<1> QED
  BY <1>1, <1>7, <1>9, <1>10, <1>11, <1>12, <1>13, <1>14 DEF FetchInv

\* The adapter's reading of a reply says what the reply said, of the source it was asked about.
LEMMA ObservedIsFaithful ==
  ASSUME NEW r \in Run, NEW s \in Source, NEW reply \in Reply, reply.ok
  PROVE  LET obs == Observed(r, s, reply) IN
         /\ obs.source = s
         /\ (obs.state = "fresh") <=> (reply.status = "2xx")
         /\ (obs.state = "source_missing") <=> (reply.status = "404_410")
         /\ obs.extraction = "exact_text" => reply.stamp = "date_time"
<1>1. reply.status \in PageStatus
  BY DEF Reply
<1>2. /\ (StateOf(reply.status) = "fresh") <=> (reply.status = "2xx")
      /\ (StateOf(reply.status) = "source_missing") <=> (reply.status = "404_410")
  BY <1>1 DEF StateOf, PageStatus
<1>3. ExtractionOf(r, s, reply) = "exact_text" => reply.stamp = "date_time"
  BY DEF ExtractionOf
<1> QED
  BY <1>2, <1>3 DEF Observed

\* The source's own document is requested once, and its answer is all its row rests on.
LEMMA DocumentKeeps ==
  ASSUME AdapterIInv, NEW r \in Run, NEW reply \in Reply,
         Deliver(r, reply), Sent(r, Turn(r), reply), UNCHANGED page_cache,
         Kind[Turn(r)] = ArtifactKind => Discovered(r) /\ Linked(r)
  PROVE  FetchInv(r)' /\ AdapterTypeOK'
<1> DEFINE s == Turn(r)
           f == [for |-> s, page |-> s, reply |-> reply]
           row == [run |-> r, observation |-> Observed(r, s, reply)]
<1>1. /\ phase[r] = "awaiting" /\ phase'[r] = "checking" /\ seen' = seen
      /\ Len(outcomes'[r]) = s
      /\ \/ pending'[r] = pending[r]
         \/ /\ reply.ok
            /\ pending'[r] = pending[r] \cup {row}
  <2>1. Len(outcomes'[r]) = s
    BY Delivered
  <2>2. phase[r] = "awaiting" /\ phase'[r] = "checking" /\ seen' = seen
    BY Delivered
  <2>3. \/ pending'[r] = pending[r]
        \/ /\ reply.ok
           /\ pending'[r] = pending[r] \cup {row}
    BY Delivered
  <2> QED
    BY <2>1, <2>2, <2>3
<1>2. /\ s \in Source
      /\ Readable(s, seen[r].registry[s], ProviderId, seen[r].switches)
      /\ May(r, s, "retrieve")
      /\ Len(outcomes[r]) \in Nat /\ s = Len(outcomes[r]) + 1
      /\ fetches[r] \in Seq(Fetch) /\ FetchInv(r)
  BY <1>1, AtItsTurn DEF Turn
<1>3. f \in Fetch /\ f.for = s /\ f.page = s /\ f.reply = reply
  BY <1>2 DEF Fetch
<1>4. /\ fetches' = [fetches EXCEPT ![r] = Append(@, f)] /\ page_cache' = page_cache
      /\ Kind[s] = ArtifactKind => Discovered(r) /\ Linked(r)
  BY DEF Sent
<1>5. reply.ok => /\ row.observation.source = s
                  /\ (row.observation.state = "fresh") <=> (f.reply.status = "2xx")
                  /\ (row.observation.state = "source_missing") <=> (f.reply.status = "404_410")
                  /\ row.observation.extraction = "exact_text" => f.reply.stamp = "date_time"
  BY <1>2, ObservedIsFaithful
<1>6. Kind[s] = ArtifactKind =>
        \E g \in Requests(r) : g.page # g.for /\ g.reply.ok /\ s \in g.reply.links
  <2> SUFFICES ASSUME Kind[s] = ArtifactKind
               PROVE  \E g \in Requests(r) : g.page # g.for /\ g.reply.ok /\ s \in g.reply.links
    OBVIOUS
  <2>1. Parent(r, s) \in Source
    BY <1>2, <1>4, ParentIsAPage DEF Discovered, Discovering, ParentPages
  <2>2. PICK g \in Requests(r) : /\ g.page = Parent(r, s) /\ g.for # g.page
                                 /\ g.reply = ParentReply(r)
    BY <1>2, <1>4, <2>1 DEF FetchInv, CacheIsAnswered, Discovered, ParentReply
  <2> QED
    BY <1>4, <2>2 DEF Linked
<1> HIDE DEF s, f, row
<1>7. AdapterTypeOK' /\ fetches'[r] = Append(fetches[r], f)
  BY <1>3, <1>4 DEF AdapterIInv, AdapterTypeOK
<1>8. Requests(r)' = Requests(r) \cup {f}
  BY <1>2, <1>3, <1>7, OneMoreRequest
<1>9. Permitted(r)'
  BY <1>1, <1>2, <1>3, <1>8 DEF FetchInv, Permitted, May
<1>10. Accounted(r)'
  <2>1. ASSUME NEW g \in Requests(r), g.for = g.page PROVE g.for <= s
    <3>1. g \in Fetch
      BY <1>2, ElementOfSeq DEF Requests
    <3>2. g.for \in Nat
      BY <3>1, SourceCountAssumption DEF Fetch, Source
    <3>3. g.for <= Len(outcomes[r])
      BY <1>2, <2>1 DEF FetchInv, Accounted
    <3> QED
      BY <1>2, <3>2, <3>3
  <2>2. s <= s
    BY <1>2
  <2> QED
    BY <1>1, <1>2, <1>3, <1>4, <1>8, <2>1, <2>2 DEF FetchInv, Accounted
<1>11. CacheIsAnswered(r)'
  BY <1>2, <1>4, <1>8 DEF FetchInv, CacheIsAnswered
<1>12. Bounded(r)'
  <2>1. ASSUME NEW g \in Requests(r), g.page = s, g.for = s PROVE FALSE
    BY <1>2, <2>1 DEF FetchInv, Accounted
  <2> QED
    BY <1>2, <1>3, <1>7, <2>1, StillBounded DEF FetchInv
<1>13. ASSUME NEW x \in pending'[r] PROVE OwnEvidence(r, x)'
  <2>1. CASE x \in pending[r]
    BY <1>2, <1>8, <2>1 DEF FetchInv, OwnEvidence
  <2>2. CASE reply.ok /\ x = row
    BY <1>3, <1>5, <1>6, <1>8, <2>2 DEF OwnEvidence
  <2> QED
    BY <1>1, <2>1, <2>2
<1>14. NotRefused(r)'
  <2>1. PICK outcome \in Outcome \ {"rejected"} : outcomes'[r] = Append(outcomes[r], outcome)
    BY Delivered
  <2>2. outcomes[r] \in Seq(Outcome)
    BY <1>1, AtItsTurn
  <2> SUFFICES ASSUME NEW x \in DOMAIN outcomes'[r], outcomes'[r][x] = "rejected",
                      NEW g \in Requests(r)', g.for = x, g.page = x
               PROVE  FALSE
    BY DEF NotRefused
  <2>3. x \in DOMAIN outcomes[r] /\ outcomes[r][x] = "rejected" /\ x # s
    BY <1>2, <2>1, <2>2, OneMoreOutcome
  <2>4. g \in Requests(r)
    BY <1>3, <1>8, <2>3
  <2> QED
    BY <1>2, <2>3, <2>4 DEF FetchInv, NotRefused
<1> QED
  BY <1>1, <1>7, <1>9, <1>10, <1>11, <1>12, <1>13, <1>14 DEF FetchInv

\* The steps of the loop, and the operator's, send nothing and store nothing in the transaction.
LEMMA LoopSendsNothing ==
  ASSUME AdapterIInv, NEW q \in Run,
         \/ Govern \/ UNCHANGED allVars
         \/ \E r \in Run : Starting(r) \/ Around(r)
  PROVE  FetchInv(q)'
<1>1. /\ outcomes[q] \in Seq(Outcome) /\ fetches[q] \in Seq(Fetch) /\ FetchInv(q)
      /\ "skipped" \in Outcome
  BY DEF AdapterIInv, IInv, TypeOK, AdapterTypeOK, Outcome
<1> USE DEF AdapterIInv, IInv, TypeOK
<1>2. CASE Govern \/ UNCHANGED allVars
  <2>1. UNCHANGED <<phase, seen, outcomes, pending, page_cache, fetches>>
    BY <1>2 DEF Govern, Operator, SetEntry, engage, Release, allVars, vars, providerVars
  <2> QED
    BY <1>1, <2>1, NothingSent
<1>3. ASSUME NEW r \in Run, Starting(r) PROVE FetchInv(q)'
  <2>1. /\ UNCHANGED <<outcomes, pending, page_cache, fetches>>
        /\ seen'[q] = seen[q] \/ phase[q] = "idle"
        /\ phase'[q] = "idle" => phase[q] = "idle"
    BY <1>3 DEF Starting, Begin, NotConfigured, Abort, providerVars
  <2> QED
    BY <1>1, <2>1, NothingSent
<1>4. ASSUME NEW r \in Run, Around(r) PROVE FetchInv(q)'
  <2>1. /\ UNCHANGED <<seen, pending, page_cache, fetches>>
        /\ phase'[q] = "idle" => phase[q] = "idle"
    BY <1>4 DEF Around, Skip, Invoke, Commit, Report, Die, run_checks, providerVars
  <2>2. outcomes'[q] = outcomes[q] \/ outcomes'[q] = Append(outcomes[q], "skipped")
    BY <1>4 DEF Around, Skip, Invoke, Commit, Report, Die, run_checks
  <2> QED
    BY <1>1, <2>1, <2>2, NothingSent
<1> QED
  BY <1>2, <1>3, <1>4

\* What the adapter does for one run leaves the requests of the others alone.
LEMMA OtherRunsRequests ==
  ASSUME AdapterIInv, NEW r \in Run, NEW q \in Run, q # r, Observe(r)
  PROVE  FetchInv(q)'
<1>1. fetches'[q] = fetches[q] /\ page_cache'[q] = page_cache[q]
  BY DEF Observe, ArtifactParentMissing, ArtifactNotFound, FetchPage, FetchParent, FetchDocument,
         Sent, providerVars, AdapterIInv, AdapterTypeOK
<1>2. /\ phase'[q] = phase[q] /\ seen'[q] = seen[q] /\ outcomes'[q] = outcomes[q]
      /\ pending'[q] = pending[q]
  <2>1. Step(r) \/ UNCHANGED vars
    BY ObserveIsAStep DEF AdapterIInv
  <2>2. CASE Step(r)
    BY <2>2, OthersUntouched DEF AdapterIInv
  <2>3. CASE UNCHANGED vars
    BY <2>3 DEF vars
  <2> QED
    BY <2>1, <2>2, <2>3
<1>3. /\ outcomes[q] \in Seq(Outcome) /\ fetches[q] \in Seq(Fetch) /\ FetchInv(q)
      /\ "skipped" \in Outcome
  BY DEF AdapterIInv, IInv, TypeOK, AdapterTypeOK, Outcome
<1> QED
  BY <1>1, <1>2, <1>3, NothingSent

\* One case per thing the adapter can do at a source.
LEMMA ObserveKeeps ==
  ASSUME AdapterIInv, NEW r \in Run, Observe(r)
  PROVE  FetchInv(r)' /\ AdapterTypeOK'
<1>1. CASE ArtifactParentMissing(r) \/ ArtifactNotFound(r)
  <2>1. FetchInv(r)'
    BY <1>1, LookupFails
  <2>2. UNCHANGED <<page_cache, fetches>>
    BY <1>1 DEF ArtifactParentMissing, ArtifactNotFound, providerVars
  <2> QED
    BY <2>1, <2>2 DEF AdapterIInv, AdapterTypeOK
<1>2. ASSUME NEW reply \in Replies, FetchPage(r, reply) \/ FetchDocument(r, reply)
      PROVE  FetchInv(r)' /\ AdapterTypeOK'
  BY <1>2, DocumentKeeps, RepliesAssumption DEF FetchPage, FetchDocument
<1>3. ASSUME NEW reply \in Replies, FetchParent(r, reply) PROVE FetchInv(r)' /\ AdapterTypeOK'
  BY <1>3, ParentKeeps, RepliesAssumption
<1> QED
  BY <1>1, <1>2, <1>3 DEF Observe

LEMMA AdapterInductive ==
  ASSUME AdapterIInv, [FirecrawlNext]_allVars
  PROVE  AdapterIInv' /\ [Next]_vars
<1>1. [Next]_vars /\ IInv'
  BY FirecrawlSteps, InvariantInductive DEF AdapterIInv
<1>2. ASSUME NEW r \in Run, Observe(r) PROVE AdapterTypeOK' /\ \A q \in Run : FetchInv(q)'
  BY <1>2, ObserveKeeps, OtherRunsRequests
<1>3. CASE Govern \/ UNCHANGED allVars \/ \E r \in Run : Starting(r) \/ Around(r)
  <2>1. UNCHANGED <<page_cache, fetches>>
    BY <1>3 DEF Govern, Starting, Around, allVars, providerVars
  <2> QED
    BY <1>1, <1>3, <2>1, LoopSendsNothing DEF AdapterIInv, AdapterTypeOK
<1> QED
  BY <1>1, <1>2, <1>3 DEF FirecrawlNext, AdapterIInv

LEMMA AdapterInvariant == FirecrawlSpec => []AdapterIInv
<1>1. FirecrawlInit => AdapterIInv
  <2> SUFFICES ASSUME FirecrawlInit PROVE AdapterIInv
    OBVIOUS
  <2>1. Init /\ IInv
    BY InitialInvariant DEF FirecrawlInit
  <2>2. AdapterTypeOK
    BY DEF FirecrawlInit, AdapterTypeOK
  <2>3. ASSUME NEW r \in Run PROVE FetchInv(r)
    <3>1. fetches[r] = <<>> /\ pending[r] = {} /\ outcomes[r] = <<>> /\ \A p \in Source : page_cache[r][p] = NotFetched
      BY DEF FirecrawlInit, Init
    <3>2. Requests(r) = {}
      BY <3>1 DEF Requests
    <3> QED
      BY <3>1, <3>2
      DEF FetchInv, Permitted, Accounted, CacheIsAnswered, Bounded, NotRefused
  <2> QED
    BY <2>1, <2>2, <2>3 DEF AdapterIInv
<1> QED
  BY <1>1, AdapterInductive, PTL DEF FirecrawlSpec

-------------------------------------------------------------------------------
(* The theorems *)

\* The runs with Firecrawl take only steps that the runs with any provider may take: its answers,
\* whatever Firecrawl replies, are those of the port (SourceChecks without its fairness).
THEOREM AdapterIsAProvider == FirecrawlSpec => Init /\ [][Next]_vars
<1>1. FirecrawlInit => Init
  BY DEF FirecrawlInit
<1> QED
  BY <1>1, AdapterInductive, AdapterInvariant, PTL DEF FirecrawlSpec

\* The variables of the runs, the cache and the list of requests keep their types.
THEOREM AdapterTypeCorrect == FirecrawlSpec => []FirecrawlTypeOK
<1>1. AdapterIInv => FirecrawlTypeOK
  BY DEF AdapterIInv, IInv, AdapterTypeOK, FirecrawlTypeOK
<1> QED
  BY <1>1, AdapterInvariant, PTL

\* No request is sent for a page whose own row or the switches forbid retrieval, nor for a source
\* the run may not read, nor away from the artifact's terminal.
THEOREM OnlyPermittedRequests == FirecrawlSpec => []OnlyPermittedPagesRequested
<1>1. AdapterIInv => OnlyPermittedPagesRequested
  BY DEF AdapterIInv, FetchInv, Permitted, OnlyPermittedPagesRequested
<1> QED
  BY <1>1, AdapterInvariant, PTL

\* A run requests each document once and each terminal page once more at most, for discovery.
THEOREM RequestBudget == FirecrawlSpec => []RequestsAreBounded
<1>1. AdapterIInv => RequestsAreBounded
  BY DEF AdapterIInv, FetchInv, Bounded, RequestsAreBounded
<1> QED
  BY <1>1, AdapterInvariant, PTL

\* What a row says is what that source's own document answered in that run.
THEOREM EvidenceIsItsOwn == FirecrawlSpec => []EvidenceIsTheSourcesOwn
<1>1. AdapterIInv => EvidenceIsTheSourcesOwn
  BY DEF AdapterIInv, FetchInv, OwnEvidence, EvidenceIsTheSourcesOwn
<1> QED
  BY <1>1, AdapterInvariant, PTL

\* The pipeline never refuses what the adapter made of a source's own document.
THEOREM AdapterIsNeverRefused == FirecrawlSpec => []RetrievedIsNeverRefused
<1>1. AdapterIInv => RetrievedIsNeverRefused
  BY DEF AdapterIInv, FetchInv, NotRefused, RetrievedIsNeverRefused
<1> QED
  BY <1>1, AdapterInvariant, PTL

\* End to end: with Firecrawl, every committed row was licensed by what its run read, is one of
\* all its run recorded, and rests on its own source's document; no heartbeat is false.
THEOREM StoredEvidence ==
  FirecrawlSpec => [](/\ RowsWithinLicence /\ RunsAreAllOrNothing /\ HeartbeatIsHonest
                      /\ \A row \in observations : OwnEvidence(row.run, row))
<1>1. AdapterIInv => \A row \in observations : OwnEvidence(row.run, row)
  BY CommittedRows DEF AdapterIInv, FetchInv
<1>2. AdapterIInv => RowsWithinLicence /\ RunsAreAllOrNothing /\ HeartbeatIsHonest
  BY InvariantLicenses, InvariantIsAtomic, InvariantIsHonest DEF AdapterIInv
<1> QED
  BY <1>1, <1>2, AdapterInvariant, PTL

\* Through both levels: caches, lookups, outages and crashes of the adapter amount to the steps of
\* RunLedger.
THEOREM AdapterRefinesLedger == FirecrawlSpec => ImplementsLedger
<1>1. FirecrawlInit => Init
  BY DEF FirecrawlInit
<1>2. AdapterIInv => IInv
  BY DEF AdapterIInv
<1> QED
  BY <1>1, <1>2, InitRefines, StepRefines, AdapterInductive, AdapterInvariant, PTL
  DEF FirecrawlSpec, ImplementsLedger, Ledger!Spec
===============================================================================
