SPECIFICATION FairSpec
CONSTANTS
  Clocks = {"progressive"}
  Advancers = {}
  Sleepers = {}
  Durations = {}
  MaxTime = 0
  Entries = {k1, k2}
  Base = 2
  Levels = 2
  MaxDelay = 3
  MaxClears = 1
  MaxResults = 2
PROPERTIES
  ImplementsContract
  EveryEntryIsRetrieved
