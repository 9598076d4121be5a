SPECIFICATION FairSpec
CONSTANTS
  Clocks = {"virtual"}
  Advancers = {a1, a2}
  Sleepers = {s1}
  Durations = {1, 2}
  MaxTime = 2
  Entries = {}
  Base = 2
  Levels = 1
  MaxDelay = 0
  MaxClears = 0
  MaxResults = 1
INVARIANTS
  TypeOK
  DriftBounded
PROPERTIES
  IdleReturns
