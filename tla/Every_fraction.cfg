SPECIFICATION Spec
CONSTANTS
  CronTexts <- NoTexts
  CronFields <- NoFields
  Nows <- MC_Nows
  Everys <- FractionEverys
  Intervals <- MC_Intervals
  LastYear = 2033
INVARIANT MillisecondsAreWhole
CHECK_DEADLOCK FALSE
