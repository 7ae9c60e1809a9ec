------------------------------ MODULE SourceGate ------------------------------
(***************************************************************************)
(* The processing gate of PaxPivot: may the system do MODE with a source?  *)
(* Pure functions of a registry entry and of the engaged kill switches,    *)
(* translated from domain/source.py, application/source_gate.py,           *)
(* application/source_checks.py and application/source_pipeline.py.        *)
(*                                                                         *)
(* Names, URLs, reviewers, times and the two policy flags nothing consumes *)
(* are abstracted away; a set of modes stands for the may_* flags.         *)
(***************************************************************************)
EXTENDS Naturals

CONSTANTS
  SourceCount,  \* how many sources are registered
  Adapter,      \* the adapter identities a registry row or a provider may carry
  NoAdapter,    \* adapter_id IS NULL: nothing is wired to the source
  Version       \* policy_version_id values

ASSUME SourceCountAssumption == SourceCount \in Nat \ {0}
ASSUME NoAdapterAssumption == NoAdapter \notin Adapter

\* Sources are numbered in the order list_sources returns them (ORDER BY name).
Source == 1..SourceCount

ProcessingMode == {"retrieve", "parse", "store_raw", "display"}
FlaggedMode == ProcessingMode \ {"store_raw"}   \* the modes with a may_ column

PolicyReviewState == {"approved", "needs_review", "paused", "restricted"}
RawPayloadPolicy == {"denied", "hash_only", "snapshot"}

\* Register rows the domain validator and the CHECK constraints accept.
review_consistency(p) ==
  p.review_state = "restricted" => p.may = {} /\ p.raw_payload = "denied"

SourceProcessingPolicy ==
  { p \in [version : Version, review_state : PolicyReviewState,
           may : SUBSET FlaggedMode, raw_payload : RawPayloadPolicy] :
      review_consistency(p) }

Entry == [enabled : BOOLEAN, adapter : Adapter \cup {NoAdapter},
          policy : SourceProcessingPolicy]

\* Switches whose key has the shape its scope demands; a mistyped one is refused.
KillSwitch == [scope : {"source"}, key : Source]
       \cup [scope : {"adapter"}, key : Adapter]
       \cup [scope : {"mode"}, key : ProcessingMode]

SourceState == {"fresh", "source_stale", "source_unreachable", "source_changed_unparsed",
  "source_missing", "source_conflict", "monitor_delayed", "no_departures_published",
  "no_compatible_opportunity", "restricted_user_open_only", "parser_review_required",
  "superseded", "withdrawn"}
AbsenceClaim == {"no_departures_published", "no_compatible_opportunity"}
POSITIVE_STATES == {"fresh"} \cup AbsenceClaim
RetrievalState == {"succeeded", "failed", "not_attempted"}
ExtractionState == {"not_attempted", "exact_text", "human_reviewed", "failed"}
Interpreted == {"exact_text", "human_reviewed"}

\* SourceObservation's own validator: what an adapter cannot even construct otherwise.
evidence_consistency(o) ==
  /\ o.state \in POSITIVE_STATES => o.retrieval = "succeeded"
  /\ o.state \in AbsenceClaim => o.extraction \in Interpreted
  /\ o.extraction \in Interpreted => o.retrieval = "succeeded"
  /\ o.payload_ref => o.retrieval = "succeeded"

\* What a provider returns. The Booleans say whether a payload reference, a content hash and
\* a query- or fragment-free URL are present.
SourceObservation ==
  { o \in [source : Source, version : Version, provider : Adapter, state : SourceState,
           retrieval : RetrievalState, extraction : ExtractionState,
           url_clean : BOOLEAN, payload_ref : BOOLEAN, content_hash : BOOLEAN] :
      evidence_consistency(o) }

-------------------------------------------------------------------------------
(* The gate *)

allows(policy, mode) ==
  /\ policy.review_state \notin {"paused", "restricted"}
  /\ policy.review_state = "needs_review" => mode = "retrieve"
  /\ IF mode = "store_raw" THEN policy.raw_payload = "snapshot" ELSE mode \in policy.may

\* engaged_switch(...) is not None: some engaged switch covers source s, its adapter or the mode.
engaged_switch(s, entry, mode, engaged) ==
  \E sw \in engaged :
    \/ sw.scope = "source" /\ sw.key = s
    \/ sw.scope = "adapter" /\ entry.adapter # NoAdapter /\ sw.key = entry.adapter
    \/ sw.scope = "mode" /\ sw.key = mode

\* authorize_processing(...).ok; the message key of a refusal is wording.
authorize_processing(s, entry, mode, engaged) ==
  /\ ~engaged_switch(s, entry, mode, engaged)
  /\ entry.enabled
  /\ allows(entry.policy, mode)

\* skip_reason(...) is None: a run with this provider would read the source.
Readable(s, entry, provider, engaged) ==
  /\ authorize_processing(s, entry, "retrieve", engaged)
  /\ entry.adapter # NoAdapter
  /\ provider = entry.adapter

\* Defect: the interpretation of a page is stored without asking the gate about "parse".
validate_without_parse_gate(s, entry, obs, engaged) ==
  /\ obs.source = s
  /\ obs.version = entry.policy.version
  /\ obs.url_clean
  /\ obs.payload_ref => authorize_processing(s, entry, "store_raw", engaged)
  /\ obs.content_hash => entry.policy.raw_payload # "denied"

\* validate_against_policy(...) is None: what came back may be stored.
validate_against_policy(s, entry, obs, engaged) ==
  /\ obs.source = s
  /\ obs.version = entry.policy.version
  /\ obs.url_clean
  /\ obs.payload_ref => authorize_processing(s, entry, "store_raw", engaged)
  /\ obs.extraction \in Interpreted => authorize_processing(s, entry, "parse", engaged)
  /\ obs.content_hash => entry.policy.raw_payload # "denied"
===============================================================================
