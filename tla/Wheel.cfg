SPECIFICATION TimedSpec
CONSTANTS
  Base = 3
  Levels = 3
  Entries = {e1}
  MaxDelay = 29
INVARIANTS
  TypeOK
  FiringLaw
  ReleasedExactlyOnce
PROPERTIES
  NoEntryLost
