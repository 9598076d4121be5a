SPECIFICATION MCSpec
CONSTANTS
    Procs <- MCProcs
    Scenarios <- TextScenarios
    OverflowChecks = FALSE
INVARIANT
    ThresholdErrorsOut
CHECK_DEADLOCK FALSE
