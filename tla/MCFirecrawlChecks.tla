-------------------------- MODULE MCFirecrawlChecks ---------------------------
(* One terminal with a page and two artifacts, read by one run. *)
EXTENDS FirecrawlChecks

Policy(review, may, raw) ==
  [version |-> "v1", review_state |-> review, may |-> may, raw_payload |-> raw]
Row1(policy) == [enabled |-> TRUE, adapter |-> "firecrawl", policy |-> policy]

MCEntries == {Row1(Policy("approved", {"retrieve", "parse"}, "hash_only")),
              Row1(Policy("paused", {"retrieve", "parse"}, "hash_only"))}
MCSwitches == {[scope |-> "source", key |-> 1], [scope |-> "mode", key |-> "parse"]}

MCKind == <<"terminal_page", "schedule_artifact", "schedule_artifact">>
MCTerminalOf == <<"terminal", "terminal", "terminal">>
MCZoneKnown == <<TRUE, TRUE, TRUE>>

Page(status, text, links, stamp) ==
  [ok |-> TRUE, status |-> status, text |-> text, links |-> links, stamp |-> stamp]
MCReplies ==
  {[ok |-> FALSE, code |-> "unavailable"],
   Page("2xx", TRUE, {2, 3}, "date_time"), Page("2xx", TRUE, {2}, "date_only"),
   Page("2xx", FALSE, {}, "none"), Page("404_410", TRUE, {3}, "none"),
   Page("other", FALSE, {}, "none")}

MCAnswers == AdapterObservation
===============================================================================
