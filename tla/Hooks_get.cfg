SPECIFICATION MCSpec
CONSTANTS
    Procs <- MCProcs
    Scenarios <- HookScenarios
    OverflowChecks = FALSE
INVARIANT
    AttachedHookIsFound
CHECK_DEADLOCK FALSE
