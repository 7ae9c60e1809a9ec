SPECIFICATION Spec
CONSTANTS
  RowCount = 3
  Version <- MCVersion
  Generation <- MCGeneration
  Release = {"before", "current"}
  REFERENCE <- MCReference
  UPGRADABLE_POLICY_VERSIONS <- MCUpgradable
  Seeder = {s1, s2}
  PersonsRows <- MCPersonsRows
  MaxEdits = 2
INVARIANTS TypeOK PersonsWordStands SeedTakesHold
PROPERTY VersionsNeverGoBack
CHECK_DEADLOCK FALSE
