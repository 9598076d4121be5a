SPECIFICATION MCSpec
CONSTANTS
    Procs <- MCProcs
    Scenarios <- TextScenarios
    OverflowChecks = FALSE
INVARIANT
    BackupIsRun
CHECK_DEADLOCK FALSE
