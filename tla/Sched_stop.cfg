SPECIFICATION StoppingSpec
CONSTANTS
  Workers = {w1, w2}
  Keys = {k1}
  Clients = {c1}
  Shards = {s1}
  ShardOf <- OneShard
  Failovers = {"ShutdownScheduler"}
  Failures = TRUE
  Panics = FALSE
  Removals = FALSE
  Aborts = TRUE
  Instructions = {}
  MaxInstructions = 0
  None = None
PROPERTIES
  DrainedSchedulerStops
CHECK_DEADLOCK FALSE
