--------------------------- MODULE FirecrawlChecks ----------------------------
(***************************************************************************)
(* The source-check runs with the one provider there is: the Firecrawl     *)
(* adapter of infrastructure/providers/firecrawl.py.  It fetches a page    *)
(* for itself; a schedule artifact is first looked up on the page of its   *)
(* terminal, which a run fetches at most once for that purpose, and only   *)
(* then fetched.  Every fetch is a call of its own that may fail.          *)
(*                                                                         *)
(* SourceChecks leaves the provider free within its port; here the answer  *)
(* is what the adapter computes, and the module implements SourceChecks.   *)
(***************************************************************************)
EXTENDS SourceChecks

CONSTANTS
  Kind,       \* Source -> its kind
  TerminalOf, \* Source -> the terminal it belongs to
  ZoneKnown,  \* Source -> whether its terminal has a resolvable time zone
  Replies     \* what one scrape request can come back with

PageKind == {"terminal_page", "directory_page", "policy_document"}
ArtifactKind == "schedule_artifact"
PageStatus == {"2xx", "404_410", "401_403", "other"}
Stamp == {"none", "date_only", "date_time"}

\* _fetch: Firecrawl's own failures become a code; otherwise the page's status, whether the
\* document has text, the artifacts it links and its own update stamp.
Reply == [ok : {FALSE}, code : {"unavailable", "unauthorized"}]
  \cup [ok : {TRUE}, status : PageStatus, text : BOOLEAN, links : SUBSET Source, stamp : Stamp]

NotFetched == [ok |-> FALSE, code |-> "not_fetched"]   \* page_url not in self._page_cache

ASSUME KindAssumption == Kind \in [Source -> PageKind \cup {ArtifactKind}]
ASSUME ZoneAssumption == DOMAIN TerminalOf = Source /\ ZoneKnown \in [Source -> BOOLEAN]
ASSUME RepliesAssumption == Replies \subseteq Reply

VARIABLES
  page_cache,  \* Run -> terminal page -> the reply kept for this run's artifacts, or NotFetched
  fetches      \* Run -> every request sent so far (only properties read it)

providerVars == <<page_cache, fetches>>

\* for: the source being observed; page: the source whose page or document is requested.
Fetch == [for : Source, page : Source, reply : Reply]

FirecrawlTypeOK ==
  /\ TypeOK
  /\ page_cache \in [Run -> [Source -> Reply \cup {NotFetched}]]
  /\ fetches \in [Run -> Seq(Fetch)]

FirecrawlInit ==
  /\ Init
  /\ page_cache = [r \in Run |-> [p \in Source |-> NotFetched]]
  /\ fetches = [r \in Run |-> <<>>]

-------------------------------------------------------------------------------
(* What the adapter makes of a reply *)

May(r, s, mode) == authorize_processing(s, seen[r].registry[s], mode, seen[r].switches)

\* Defect: the page is fetched whatever its own row and the switches say.
ParentPages_ungated(r, s) ==
  { p \in Source : Kind[p] = "terminal_page" /\ TerminalOf[p] = TerminalOf[s] }

\* The first registered terminal page of the artifact's terminal that may be retrieved.
ParentPages(r, s) ==
  { p \in Source : /\ Kind[p] = "terminal_page"
                   /\ TerminalOf[p] = TerminalOf[s]
                   /\ May(r, p, "retrieve") }
Parent(r, s) == CHOOSE p \in ParentPages(r, s) : \A q \in ParentPages(r, s) : p <= q

StateOf(status) ==
  CASE status = "2xx"     -> "fresh"
    [] status = "404_410" -> "source_missing"
    [] OTHER              -> "source_unreachable"

\* Defect: the stamp is read whether or not the page may be parsed.
ExtractionOf_ungated(r, s, reply) ==
  IF Kind[s] = "terminal_page" /\ reply.status = "2xx" /\ reply.text
  THEN IF reply.stamp = "date_time" /\ ZoneKnown[s] THEN "exact_text" ELSE "failed"
  ELSE "not_attempted"

\* observe, _with_page_time and _observation: the page's stamp is read on permission only,
\* and interpreted only as a full date and time in a known zone.
ExtractionOf(r, s, reply) ==
  IF /\ Kind[s] = "terminal_page" /\ May(r, s, "parse")
     /\ reply.status = "2xx" /\ reply.text
  THEN IF reply.stamp = "date_time" /\ ZoneKnown[s] THEN "exact_text" ELSE "failed"
  ELSE "not_attempted"

Observed(r, s, reply) ==
  LET policy == seen[r].registry[s].policy IN
  [source |-> s, version |-> policy.version, provider |-> ProviderId,
   state |-> StateOf(reply.status),
   retrieval |-> IF reply.status = "2xx" THEN "succeeded" ELSE "failed",
   extraction |-> ExtractionOf(r, s, reply),
   url_clean |-> TRUE,     \* registered URLs carry no query or fragment (CHECK on sources)
   payload_ref |-> FALSE,
   content_hash |-> policy.raw_payload # "denied" /\ reply.text /\ reply.status = "2xx"]

\* Everything Observed can be; a provider may return it, so the port's Answers include it.
AdapterObservation ==
  { o \in [source : Source, version : Version, provider : {ProviderId},
           state : {"fresh", "source_missing", "source_unreachable"},
           retrieval : {"succeeded", "failed"},
           extraction : {"not_attempted", "failed", "exact_text"},
           url_clean : {TRUE}, payload_ref : {FALSE}, content_hash : BOOLEAN] :
      evidence_consistency(o) }
ASSUME PortAssumption == AdapterObservation \subseteq Answers

\* observe returns: a failed fetch is a Failure, anything else an observation.
Deliver(r, reply) ==
  IF reply.ok THEN Answer(r, Observed(r, Turn(r), reply)) ELSE Fail(r, reply.code)

Sent(r, page, reply) ==
  fetches' = [fetches EXCEPT ![r] = Append(@, [for |-> Turn(r), page |-> page, reply |-> reply])]

-------------------------------------------------------------------------------
(* provider.observe of the source whose turn it is *)

FetchPage(r, reply) ==
  /\ phase[r] = "awaiting" /\ Kind[Turn(r)] # ArtifactKind
  /\ Deliver(r, reply)
  /\ Sent(r, Turn(r), reply)
  /\ UNCHANGED page_cache

\* No page of the artifact's terminal may be retrieved.
ArtifactParentMissing(r) ==
  /\ phase[r] = "awaiting" /\ Kind[Turn(r)] = ArtifactKind
  /\ ParentPages(r, Turn(r)) = {}
  /\ Fail(r, "invalid_input")
  /\ UNCHANGED providerVars

\* An artifact whose terminal has a page that may be retrieved.
Discovering(r) ==
  /\ phase[r] = "awaiting" /\ Kind[Turn(r)] = ArtifactKind
  /\ ParentPages(r, Turn(r)) # {}

\* Defect: every artifact fetches the page of its terminal again.
FetchParent_uncached(r, reply) ==
  /\ Discovering(r)
  /\ LET p == Parent(r, Turn(r)) IN
     /\ page_cache' = [page_cache EXCEPT ![r][p] = reply]
     /\ Sent(r, p, reply)
  /\ UNCHANGED vars

\* Defect: the cache keeps what the page links and not how it answered.
FetchParent_links_only(r, reply) ==
  /\ Discovering(r)
  /\ LET p == Parent(r, Turn(r)) IN
     /\ page_cache[r][p] = NotFetched
     /\ page_cache' = [page_cache EXCEPT ![r][p] =
          IF reply.ok THEN [ok |-> TRUE, links |-> reply.links] ELSE reply]
     /\ Sent(r, p, reply)
  /\ UNCHANGED vars

FetchParent(r, reply) ==
  /\ Discovering(r)
  /\ LET p == Parent(r, Turn(r)) IN
     /\ page_cache[r][p] = NotFetched
     /\ page_cache' = [page_cache EXCEPT ![r][p] = reply]
     /\ Sent(r, p, reply)
  /\ UNCHANGED vars

\* The page is at hand, from this discovery or an earlier one, failures included.
ParentReply(r) == page_cache[r][Parent(r, Turn(r))]
Discovered(r) == Discovering(r) /\ ParentReply(r) # NotFetched
Linked(r) ==
  LET page == ParentReply(r) IN
  page.ok /\ page.status = "2xx" /\ page.text /\ Turn(r) \in page.links

\* Defect: the page's own answer is recorded for the artifact it does not link.
ArtifactNotFound_recorded(r) ==
  /\ Discovered(r)
  /\ ~Linked(r)
  /\ LET page == ParentReply(r) IN
     IF page.ok THEN Answer(r, Observed(r, Turn(r), page)) ELSE Fail(r, page.code)
  /\ UNCHANGED providerVars

\* Defect: the lookup waits for the page to come back.
ArtifactNotFound_waiting(r) ==
  /\ Discovered(r)
  /\ ~Linked(r)
  /\ UNCHANGED <<vars, providerVars>>

\* The page failed, did not answer, or links no such artifact: nothing about the artifact.
ArtifactNotFound(r) ==
  /\ Discovered(r)
  /\ ~Linked(r)
  /\ Fail(r, IF ParentReply(r).ok THEN "unavailable" ELSE ParentReply(r).code)
  /\ UNCHANGED providerVars

FetchDocument(r, reply) ==
  /\ Discovered(r)
  /\ Linked(r)
  /\ Deliver(r, reply)
  /\ Sent(r, Turn(r), reply)
  /\ UNCHANGED page_cache

Observe(r) ==
  \/ ArtifactParentMissing(r) \/ ArtifactNotFound(r)
  \/ \E reply \in Replies : FetchPage(r, reply) \/ FetchParent(r, reply) \/ FetchDocument(r, reply)

\* The loop around the provider is SourceChecks'.  A run reads its snapshot only, so the
\* operator's steps matter here while no run is in flight.
Starting(r) == (Begin(r) \/ NotConfigured(r) \/ Abort(r)) /\ UNCHANGED providerVars

Around(r) ==
  /\ Skip(r) \/ Invoke(r) \/ Commit(r) \/ Report(r) \/ Die(r) \/ run_checks(r)
  /\ UNCHANGED providerVars

Govern ==
  /\ \A r \in Run : phase[r] = "idle"
  /\ Operator
  /\ UNCHANGED providerVars

FirecrawlNext == Govern \/ \E r \in Run : Starting(r) \/ Around(r) \/ Observe(r)

allVars == <<vars, providerVars>>

FirecrawlSpec ==
  /\ FirecrawlInit
  /\ [][FirecrawlNext]_allVars
  /\ \A r \in Run : WF_allVars(Around(r) \/ Observe(r))

-------------------------------------------------------------------------------
(* Properties *)

\* The adapter is a provider as the port allows it, and it always answers: the runs with
\* Firecrawl behave as SourceChecks says, its fairness included.
ImplementsSourceChecks == Spec

Requests(r) == { fetches[r][i] : i \in DOMAIN fetches[r] }

\* A page is requested only if its own registry row and the switches allow retrieval, and only
\* on behalf of a source the run may read; a discovery never leaves the artifact's terminal
\* (firecrawl.py:107-108, TASK-037: "a paused or switched page is never fetched").
OnlyPermittedPagesRequested ==
  \A r \in Run : \A f \in Requests(r) :
    /\ May(r, f.page, "retrieve")
    /\ Readable(f.for, seen[r].registry[f.for], ProviderId, seen[r].switches)
    /\ f.page # f.for => /\ Kind[f.for] = ArtifactKind /\ Kind[f.page] = "terminal_page"
                         /\ TerminalOf[f.page] = TerminalOf[f.for]

\* The credits of a run are bounded: each source's own document is requested at most once, and
\* each terminal page at most once for discovery, however many artifacts hang on it and
\* whether or not the request succeeded (firecrawl.py:112-113).
RequestsAreBounded ==
  \A r \in Run : \A i, j \in DOMAIN fetches[r] :
    /\ fetches[r][i].page = fetches[r][j].page
    /\ (fetches[r][i].for = fetches[r][i].page) <=> (fetches[r][j].for = fetches[r][j].page)
    => i = j

\* What a row says is what that source's own document answered in this run: an outage of
\* Firecrawl, or a terminal page that failed while its artifact was looked up, never becomes
\* evidence about a source, and a link that was not there never becomes a missing document
\* (firecrawl.py:17-19 and the comment at 250).
EvidenceIsTheSourcesOwn ==
  \A r \in Run : \A row \in pending[r] :
    LET obs == row.observation
        s == obs.source
    IN /\ \E f \in Requests(r) :
            /\ f.for = s /\ f.page = s /\ f.reply.ok
            /\ (obs.state = "fresh") <=> (f.reply.status = "2xx")
            /\ (obs.state = "source_missing") <=> (f.reply.status = "404_410")
            /\ obs.extraction = "exact_text" => f.reply.stamp = "date_time"
       /\ Kind[s] = ArtifactKind =>
            \E f \in Requests(r) : f.page # f.for /\ f.reply.ok /\ s \in f.reply.links

\* The adapter and the pipeline decide apart what may be read and hashed of a document, and never
\* disagree: nothing that was retrieved for a healthy source is refused for a permission the adapter
\* overlooked (firecrawl.py:161 and validate_against_policy).
RetrievedIsNeverRefused ==
  \A r \in Run : \A s \in DOMAIN outcomes[r] :
    outcomes[r][s] = "rejected" => \A f \in Requests(r) : f.for = s => f.page # s
===============================================================================
