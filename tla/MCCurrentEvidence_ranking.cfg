SPECIFICATION Spec
CONSTANTS
  SourceCount = 1
  Adapter = {"firecrawl"}
  NoAdapter = "unwired"
  Version = {"v1"}
  Run = {1, 2, 3}
  Request = {}
  States = {"fresh"}
  MaySupersede = TRUE
  TerminalSources = {1}
  FactSources = {}
  Entries <- RankingEntries
  Histories <- RankingHistories
  Switches = {}
  Window = 1
  MaxTime = 2
INVARIANTS TypeOK ObservedSourcesStayVisible
PROPERTIES CurrentNeverRegresses
