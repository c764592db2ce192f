SPECIFICATION PhilFairSpec
CONSTANTS
  f0 = f0
  f1 = f1
  N = 2
  NThreads = 2
  total_meals = 2
  forks <- TwoForks
  MaxTid = 3
  Mutexes = {f0, f1}
  Objs = {f0, f1}
  Joins <- NoJoins
  Preemptive = TRUE
CHECK_DEADLOCK FALSE
INVARIANTS
  NeighboursDontEat
  NoCircularWait
PROPERTIES
  AllMealsEaten
