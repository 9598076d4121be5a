SPECIFICATION MCSpec
CONSTANTS
    Procs <- MCProcs
    Scenarios <- TextScenarios
    OverflowChecks = FALSE
INVARIANT
    LiteralKeepsItsUnit
CHECK_DEADLOCK FALSE
