SPECIFICATION FirecrawlSpec
CONSTANTS
  Run = {r1}
  SourceCount = 3
  Adapter = {"firecrawl"}
  NoAdapter = "unwired"
  Version = {"v1"}
  ProviderId = "firecrawl"
  Entries <- MCEntries
  Switches <- MCSwitches
  Answers <- MCAnswers
  Kind <- MCKind
  TerminalOf <- MCTerminalOf
  ZoneKnown <- MCZoneKnown
  Replies <- MCReplies
CHECK_DEADLOCK FALSE
INVARIANTS FirecrawlTypeOK OnlyPermittedPagesRequested RequestsAreBounded EvidenceIsTheSourcesOwn
  RetrievedIsNeverRefused
PROPERTIES ImplementsSourceChecks
