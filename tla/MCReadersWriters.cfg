SPECIFICATION RWSpec
CONSTANTS
  lock = lock
  can_read = can_read
  can_write = can_write
  g_nw = 2
  g_iters = 1
  NThreads = 3
  MaxTid = 4
  Mutexes = {lock}
  Conds = {can_read, can_write}
  Objs = {lock, can_read, can_write}
  Joins <- NoJoins
  Preemptive = TRUE
CHECK_DEADLOCK FALSE
CONSTRAINT ContextIsThreads
INVARIANTS
  NeverAllAsleep
  WritersExclude
  NoWriteLost
PROPERTIES
  WritersPreferred
