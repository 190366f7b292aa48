SPECIFICATION FairSpec
CONSTANTS
  r1 = r1
  r2 = r2
  None = None
  UI = UI
  Requests = {r1, r2}
  MaxClock = 2
  MaxSaves = 1
  LatePin = TRUE
  MayFail = TRUE
INVARIANTS TypeOK NoStalePool SingleFlight OwnGeneration
PROPERTIES EvictsAtOnce RequestsAnswered
