SPECIFICATION Spec
CONSTANTS
  CronTexts <- MC_AllTexts
  CronFields <- MC_CronFields
  Nows <- MC_Nows
  Everys <- MC_Everys
  Intervals <- MC_Intervals
  LastYear = 2033
INVARIANTS PlainCronFiresNext MacroMatchesFromStr EveryReadsItsLiterals
PROPERTY SearchEnds
CHECK_DEADLOCK FALSE
