SPECIFICATION ThreadSpec
CONSTANTS
  MaxTid = 3
  Objs = {}
  Preemptive = TRUE
  Joins <- AllJoins
INVARIANT
  ContextIsThreads
