SPECIFICATION Spec
CONSTANTS
  SourceCount = 2
  Adapter = {"firecrawl"}
  NoAdapter = "unwired"
  Version = {"v1"}
  Run = {1}
  Request = {q1}
  States = {"no_departures_published", "source_unreachable"}
  MaySupersede = FALSE
  TerminalSources = {1, 2}
  FactSources = {2}
  Entries <- ReadingEntries
  Histories <- ReadingHistories
  Switches <- ReadingSwitches
  Window = 1
  MaxTime = 2
INVARIANTS AnswersAreOneMoment PositiveMeansRecentlyRead HeadlineIsLicensedAndNewest
