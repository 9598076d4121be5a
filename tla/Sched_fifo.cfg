SPECIFICATION StoppingSpec
CONSTANTS
  Workers = {w1}
  Keys = {k1, k2}
  Clients = {c1}
  Shards = {s1}
  ShardOf <- OneShard
  Failovers = {"Keep"}
  Failures = FALSE
  Panics = FALSE
  Removals = TRUE
  Aborts = TRUE
  Instructions = {}
  MaxInstructions = 0
  None = None
PROPERTIES
  EveryStoredTaskRuns
  RemovedTaskDrains
CHECK_DEADLOCK FALSE
