SPECIFICATION RunningSpec
CONSTANTS
  Workers = {w1, w2}
  Keys = {k1}
  Clients = {c1}
  Shards = {s1}
  ShardOf <- OneShard
  Failovers = {"Keep"}
  Failures = TRUE
  Panics = FALSE
  Removals = TRUE
  Aborts = FALSE
  Instructions = {}
  MaxInstructions = 0
  None = None
PROPERTIES
  EveryStoredTaskRuns
  RemovedTaskDrains
  ImplementsLifecycle
CHECK_DEADLOCK FALSE
