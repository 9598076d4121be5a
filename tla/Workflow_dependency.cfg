SPECIFICATION MCSpec
CONSTANTS
    Procs <- MCProcs
    Scenarios <- TextScenarios
    OverflowChecks = FALSE
INVARIANT
    ExpressionKeepsItsMeaning
CHECK_DEADLOCK FALSE
