SPECIFICATION Spec
CONSTANTS
  Run = {r1, r2}
  SourceCount = 2
  Adapter = {"firecrawl", "other"}
  NoAdapter = "unwired"
  Version = {"v1", "v2"}
  ProviderId = "firecrawl"
  Entries <- OverlapEntries
  Switches <- OverlapSwitches
  Answers <- OverlapAnswers

PROPERTIES SwitchNotBypassedAfterRetrieval
