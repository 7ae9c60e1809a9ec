-------------------------- MODULE MCCurrentEvidence ---------------------------
(* Small instances of CurrentEvidence for TLC. *)
EXTENDS CurrentEvidence

Register(review, may) ==
  [enabled |-> TRUE, adapter |-> "firecrawl",
   policy |-> [version |-> "v1", review_state |-> review, may |-> may, raw_payload |-> "denied"]]

Approved == Register("approved", {"retrieve", "display"})
Restricted == Register("restricted", {})

Earlier(s, state) ==
  [id |-> s, source |-> s, observed_at |-> 0, recorded_at |-> 0, state |-> state, supersedes |-> 0]

RankingHistories == {{}}
RankingEntries == {Approved}
ReadingHistories == {{}, {Earlier(1, "no_departures_published")},
  {Earlier(1, "source_unreachable"), Earlier(2, "no_departures_published")}}
ReadingEntries == {Approved, Restricted}
ReadingSwitches == {[scope |-> "adapter", key |-> "firecrawl"]}
===============================================================================
