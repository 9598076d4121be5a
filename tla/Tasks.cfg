SPECIFICATION MCSpec
CONSTANTS
    Procs <- MCProcs
    Scenarios <- MCScenarios
    OverflowChecks = FALSE
INVARIANTS
    OrphansAreAborted
    ThresholdHolds
    NewestDependencyCounts
    ResultIsPromised
    WorkflowIsExpandedAsWritten
PROPERTIES
    EmissionReachesTheNewest
    EveryRunEnds
CHECK_DEADLOCK FALSE
