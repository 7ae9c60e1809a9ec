SPECIFICATION Spec
CONSTANTS
  Browser = {b1}
  Passphrase = {"open sesame", "open barley"}
  Secret = {"old secret", "new secret"}
  Missing = "missing"
  TooShort = "too short"
  Environments <- TripsEnvironments
  SESSION_TTL = 1
  ClockMayStepBack = TRUE
  MaxTime = 2
  Terminal = {"Dover"}
  Curated = {"Dover"}
  MaxSubmissions = 1
INVARIANTS TypeOK RefusedRecordsNothing ShelfKeepsWhatWasShown
PROPERTIES PrivateNeedsALiveSession EveryRequestIsAnswered
