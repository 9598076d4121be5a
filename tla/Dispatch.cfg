SPECIFICATION FairSpec
CONSTANTS
  k1 = k1
  k2 = k2
  k3 = k3
  s1 = s1
  s2 = s2
  Callers = {c1, c2, c3, c4}
  Keys = {k1, k2, k3}
  Shards = {s1, s2}
  ShardOf <- TwoShards
  Threads = 3
  None = None
INVARIANTS
  TypeOK
  LockedWhileRunning
PROPERTIES
  CallsEnd
CHECK_DEADLOCK FALSE
