SPECIFICATION SleepySpec
CONSTANTS
  k1 = k1
  k2 = k2
  k3 = k3
  s1 = s1
  s2 = s2
  Callers = {c1, c2}
  Keys = {k1, k2, k3}
  Shards = {s1, s2}
  ShardOf <- TwoShards
  Threads = 2
  None = None
PROPERTIES
  HaltEndsTheRun
