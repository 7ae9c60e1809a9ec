SPECIFICATION Spec
CONSTANTS
  Browser = {b1}
  Passphrase = {"open sesame"}
  Secret = {"old secret"}
  Missing = "missing"
  TooShort = "too short"
  Environments <- UnrecordedEnvironments
  SESSION_TTL = 1
  ClockMayStepBack = FALSE
  MaxTime = 1
  Terminal = {"Dover"}
  Curated = {"Dover"}
  MaxSubmissions = 1
INVARIANT UnavailableRecordsNothing
