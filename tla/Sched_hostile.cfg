SPECIFICATION Spec
CONSTANTS
  Workers = {w1, w2}
  Keys = {k1}
  Clients = {c1}
  Shards = {s1}
  ShardOf <- OneShard
  Failovers = {"Keep"}
  Failures = FALSE
  Panics = TRUE
  Removals = FALSE
  Aborts = TRUE
  Instructions = {"Execute", "Halt", "Block", "Reschedule"}
  MaxInstructions = 1
  None = None
SYMMETRY Symmetry
INVARIANTS
  NoStrandedWork
  WakeProtocol
  OneTokenPerCycle
CHECK_DEADLOCK FALSE
