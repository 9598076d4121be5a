SPECIFICATION MCSpec
CONSTANTS
    Procs <- MCProcs
    Scenarios <- TextScenarios
    OverflowChecks = FALSE
INVARIANT
    DeadlineCoversTheWorkflow
CHECK_DEADLOCK FALSE
