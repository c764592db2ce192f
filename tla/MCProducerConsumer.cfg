SPECIFICATION PCSpec
CONSTANTS
  empty = empty
  full = full
  buf_lock = buf_lock
  g_np = 1
  g_ni = 3
  BUFFER_SIZE = 2
  NThreads = 3
  MaxTid = 4
  Mutexes = {buf_lock}
  Sems = {empty, full}
  Objs = {buf_lock, empty, full}
  InitValue <- SemInits
  MaxValue = 4
  Joins <- NoJoins
  Preemptive = TRUE
CHECK_DEADLOCK FALSE
CONSTRAINT ContextIsThreads
INVARIANTS
  NobodyStarved
  AllConsumed
PROPERTIES
  ImplementsBuffer
