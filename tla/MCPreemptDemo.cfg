SPECIFICATION DemoFairSpec
CONSTANTS
  WORK_ITERS = 2
  NThreads = 2
  MaxTid = 3
  Intervals = {2, 8}
  UsecPerMs = 4
  UsecPerSec = 32
  UIntMod = 64
  Objs = {}
  Joins <- NoJoins
  Preemptive = FALSE
CHECK_DEADLOCK FALSE
INVARIANTS
  AlarmIsHandled
PROPERTIES
  NobodyHogs
  DemoFinishes
