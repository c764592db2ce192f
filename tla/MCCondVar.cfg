SPECIFICATION CondFairSpec
CONSTANTS
  MaxTid = 3
  Mutexes = {m1}
  Conds = {c1}
  Objs = {m1, c1}
  Preemptive = TRUE
INVARIANTS
  MutualExclusion
  NoLostWakeup
  WaitIsAtomic
  CondIndInv
PROPERTIES
  ImplementsLock
  SleeperWoken
