SPECIFICATION Spec
CONSTANTS
  CronTexts <- StepTexts
  CronFields <- NoFields
  Nows <- MC_Nows
  Everys <- NoEverys
  Intervals <- MC_Intervals
  LastYear = 2033
INVARIANT DocumentedCronFiresNext
CHECK_DEADLOCK FALSE
