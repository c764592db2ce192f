SPECIFICATION PreemptionSpec
CONSTANTS
  MaxTid = 2
  Intervals = {2}
  UsecPerMs = 4
  UsecPerSec = 32
  UIntMod = 64
  Objs = {}
  Preemptive = FALSE
CHECK_DEADLOCK FALSE
INVARIANTS
  StartedOrStopped
