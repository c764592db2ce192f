SPECIFICATION FairSpec
CONSTANTS
  MaxTid = 3
  TicketLocks = {k1}
  Objs = {k1}
  TicketMod = 4
  Preemptive = TRUE
INVARIANTS
  TicketIndInv
  TicketExclusion
  TurnIsAwake
PROPERTIES
  ImplementsFairLock
  EveryoneServed
