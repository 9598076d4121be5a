SPECIFICATION Spec
CONSTANTS
  Workers = {w1, w2}
  Keys = {k1, k2}
  Clients = {c1}
  Shards = {s1}
  ShardOf <- OneShard
  Failovers = {"Keep", "Terminate", "Deallocate", "ShutdownScheduler"}
  Failures = TRUE
  Panics = FALSE
  Removals = FALSE
  Aborts = FALSE
  Instructions = {}
  MaxInstructions = 0
  None = None
SYMMETRY Symmetry
INVARIANTS
  TypeOK
  NoStrandedWork
  OneTokenPerCycle
  StoredTaskIsAlive
PROPERTIES
  ImplementsLifecycle
CHECK_DEADLOCK FALSE
