SPECIFICATION Spec
CONSTANTS
  Run = {r1}
  SourceCount = 1
  Adapter = {"firecrawl", "other"}
  NoAdapter = "unwired"
  Version = {"v1", "v2"}
  ProviderId = "firecrawl"
  Entries <- PolicyEntries
  Switches <- PolicySwitches
  Answers <- PolicyAnswers
INVARIANT RowsWithinLicence
PROPERTIES StoppedSourcesStaySilent
