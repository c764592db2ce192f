SPECIFICATION SpinSemFairSpec
CONSTANTS
  MaxTid = 3
  Spins = {l1}
  Sems = {s1}
  Objs = {l1, s1}
  InitValue <- Empty
  MaxValue = 2
  Preemptive = TRUE
INVARIANTS
  SpinExclusion
  SemIndInv
  NeverNegative
  NoStrandedPermit
PROPERTIES
  ImplementsLock
  SpinningLetsHolderRun
  PermitTaken
