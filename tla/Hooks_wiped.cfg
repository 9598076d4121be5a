SPECIFICATION MCSpec
CONSTANTS
    Procs <- MCProcs
    Scenarios <- HookScenarios
    OverflowChecks = FALSE
INVARIANT
    AttachedHookStays
CHECK_DEADLOCK FALSE
