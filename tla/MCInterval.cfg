SPECIFICATION PreemptionSpec
CONSTANTS
  MaxTid = 1
  Intervals = {7, 8, 17}
  UsecPerMs = 4
  UsecPerSec = 32
  UIntMod = 64
  Objs = {}
  Preemptive = FALSE
CHECK_DEADLOCK FALSE
PROPERTIES
  PeriodIsInterval
