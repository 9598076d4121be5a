SPECIFICATION Spec
CONSTANTS
  CronTexts <- NoTexts
  CronFields <- NoFields
  Nows <- MC_Nows
  Everys <- LongIntervals
  Intervals <- MC_Intervals
  LastYear = 2033
INVARIANT LongIntervalsAreTaken
CHECK_DEADLOCK FALSE
