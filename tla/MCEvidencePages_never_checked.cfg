SPECIFICATION Spec
CONSTANTS
  MinutesPerTick = 390
  Terminal = {1, 2, 3}
  Source = {1, 2, 3}
  Row <- PagesRow
  Entrances = {1}
  States = {"fresh", "source_unreachable", "source_conflict"}
  Origins = {2}
  Window = 1
  InitialRegisters <- PagesInitialRegisters
  MaxTime = 2
  MaxChanges = 1
INVARIANT NotCheckedMeansNeverChecked
