---------------------------- MODULE MCSourceChecks ----------------------------
(* Small instances of SourceChecks for TLC. *)
EXTENDS SourceChecks

Pol(version, review, may, raw) ==
  [version |-> version, review_state |-> review, may |-> may, raw_payload |-> raw]
Ent(enabled, policy) == [enabled |-> enabled, adapter |-> "firecrawl", policy |-> policy]

Approved == Ent(TRUE, Pol("v1", "approved", {"retrieve", "parse"}, "hash_only"))
Paused   == Ent(TRUE, Pol("v1", "paused", {"retrieve", "parse"}, "hash_only"))
Review   == Ent(TRUE, Pol("v2", "needs_review", {"retrieve", "parse"}, "denied"))
Archive  == Ent(TRUE, Pol("v1", "approved", {"retrieve"}, "snapshot"))
Disabled == [Approved EXCEPT !.enabled = FALSE]
Unwired  == [Approved EXCEPT !.adapter = "unwired"]

\* The answer a provider gives for source s under version v, bare or with one extra.
Bare(s, v) ==
  [source |-> s, version |-> v, provider |-> "firecrawl", state |-> "fresh",
   retrieval |-> "succeeded", extraction |-> "not_attempted",
   url_clean |-> TRUE, payload_ref |-> FALSE, content_hash |-> FALSE]

\* Two overlapping runs: few contents, so that interleavings are what varies.
OverlapEntries == {Approved}
OverlapSwitches == {[scope |-> "source", key |-> 1], [scope |-> "mode", key |-> "retrieve"]}
OverlapAnswers == {Bare(1, "v1"), Bare(2, "v1")}

\* One run against every kind of registry row and of answer.
PolicyEntries == {Approved, Paused, Review, Archive, Disabled, Unwired}
PolicySwitches == {[scope |-> "source", key |-> 1], [scope |-> "adapter", key |-> "firecrawl"],
                   [scope |-> "mode", key |-> "parse"]}
PolicyAnswers ==
  UNION { {Bare(s, v), [Bare(s, v) EXCEPT !.state = "source_missing", !.retrieval = "failed"],
           [Bare(s, v) EXCEPT !.extraction = "exact_text"],
           [Bare(s, v) EXCEPT !.content_hash = TRUE],
           [Bare(s, v) EXCEPT !.payload_ref = TRUE],
           [Bare(s, v) EXCEPT !.url_clean = FALSE],
           [Bare(s, v) EXCEPT !.provider = "other"]} : s \in {1}, v \in {"v1", "v2"} }

===============================================================================
