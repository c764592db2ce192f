SPECIFICATION ThreadFairSpec
CONSTANTS
  MaxTid = 3
  Objs = {}
  Preemptive = TRUE
  Joins <- AllJoins
INVARIANTS
  ThreadIndInv
  QueueDiscipline
  MaskDiscipline
  JoinerIsRegistered
  FreesOnlyDeadThreads
PROPERTIES
  Lifecycle
  RoundRobin
  JoinReturns
