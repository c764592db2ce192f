---------------------------- MODULE Philosophers ----------------------------
(***************************************************************************)
(* The dining philosophers of examples/philosophers.c: N threads that eat  *)
(* with two mutexes each.                                                  *)
(***************************************************************************)
EXTENDS Program, Mutex

CONSTANTS
  N,            \* number of philosophers
  total_meals,  \* meals each
  forks         \* forks[i]: the mutex between philosophers i and i + 1

ASSUME PhilosophersAssumption ==
  /\ N = NThreads /\ N >= 2
  /\ total_meals \in Nat
  /\ forks \in [Indices -> Mutexes]
  /\ \A i, j \in Indices : forks[i] = forks[j] => i = j

VARIABLE meals   \* meals[i]

philSysVars == <<schedVars, threadVars, programVars, mutexVars, meals>>

\* The id in the argument of thread t.
id(t) == arg[t]

left(i) == i
right(i) == (i + 1) % N

\* <<first, second>>: the last philosopher takes the right fork first.
\* (Mutant: everybody takes the left one first.)
fork_order_left(i) == <<left(i), right(i)>>
fork_order(i) == IF i = N - 1 THEN <<right(i), left(i)>> ELSE <<left(i), right(i)>>

-----------------------------------------------------------------------------
(* philosopher().                                                          *)

\* The condition of the while loop.
meals_left ==
  /\ Local("start", IF meals[id(Me)] < total_meals THEN "think" ELSE "return")
  /\ count' = [count EXCEPT ![Me] = 3]
  /\ UNCHANGED <<mutexVars, meals>>

\* The yields of think(), eat(), and the one between the two forks.
yield_in(l, next) ==
  /\ Line(l, IF count[Me] = 1 THEN next ELSE l)
  /\ uth_yield("user", "user")
  /\ count' = [count EXCEPT ![Me] = @ - 1]
  /\ UNCHANGED <<threadVars, arg, tids, mutexVars, meals>>

pick_up(l, i, next, n) ==
  /\ Line(l, next)
  /\ uth_mutex_lock(forks[i], "user", "user")
  /\ count' = [count EXCEPT ![Me] = n]
  /\ UNCHANGED <<threadVars, arg, tids, meals>>

count_meal ==
  /\ Local("meal", "put_second")
  /\ meals' = [meals EXCEPT ![id(Me)] = @ + 1]
  /\ UNCHANGED <<count, mutexVars>>

put_down(l, i, next) ==
  /\ Line(l, next)
  /\ uth_mutex_unlock(forks[i], "user", "user")
  /\ UNCHANGED <<threadVars, count, arg, tids, meals>>

philosopher ==
  \/ meals_left
  \/ yield_in("think", "first")
  \/ pick_up("first", fork_order(id(Me))[1], "window", 1)
  \/ yield_in("window", "second")
  \/ pick_up("second", fork_order(id(Me))[2], "eat", 2)
  \/ yield_in("eat", "meal")
  \/ count_meal
  \/ put_down("put_second", fork_order(id(Me))[2], "put_first")
  \/ put_down("put_first", fork_order(id(Me))[1], "start")

-----------------------------------------------------------------------------
PhilInit ==
  /\ ProgramInit
  /\ uth_mutex_init
  /\ held = [t \in Tids |-> {}]
  /\ meals = [i \in Indices |-> 0]

PhilCpuStep ==
  \/ ProgramStep /\ UNCHANGED <<mutexVars, meals>>
  \/ MutexStep /\ UNCHANGED <<threadVars, programVars, meals>>
  \/ philosopher

PhilNext ==
  \/ PhilCpuStep
  \/ Preempt /\ UNCHANGED <<threadVars, programVars, mutexVars, meals>>

PhilSpec == PhilInit /\ [][PhilNext]_philSysVars

\* The processor keeps executing, and the timer is slow enough for a thread
\* that gets to run again and again to execute its next step.
PhilFairSpec ==
  /\ PhilSpec
  /\ WF_philSysVars(PhilCpuStep)
  /\ \A t \in Tids : SF_philSysVars(uth_current = t /\ pc \in Unmasked /\ PhilCpuStep)

-----------------------------------------------------------------------------
(* Properties.                                                             *)

\* Thread t has both forks and has not begun to put them down.
Eating(t) ==
  line[t] \in {"eat", "meal", "put_second"} /\ Place(t) \notin MutexLabels

\* Philosophers who share a fork do not eat at the same time.
NeighboursDontEat ==
  \A t, u \in Tids \ {Driver} : t # u /\ Eating(t) /\ Eating(u) =>
    {left(id(t)), right(id(t))} \cap {left(id(u)), right(id(u))} = {}

\* "This breaks the circular wait condition": scheduler_loop never finds all
\* threads blocked.
NoCircularWait == NeverAllAsleep

\* The program ends with uth_run back in main, and every philosopher that
\* could be created has eaten all the meals ("Total meals eaten"), unless a
\* context was lost.
AllMealsEaten ==
  <>(\/ ~ContextIsThreads
     \/ Ended /\ \A i \in Indices : tids[i] # NULL => meals[i] = total_meals)

-----------------------------------------------------------------------------
(* The facts that make NeighboursDontEat and NoCircularWait inductive.     *)

first(t) == forks[fork_order(id(t))[1]]
second(t) == forks[fork_order(id(t))[2]]

\* The forks that t has, by its line, when the call it is in has returned.
Kept(t) ==
  {f \in {first(t)} : line[t] \in {"window", "second", "eat", "meal", "put_second", "put_first"}}
    \cup {f \in {second(t)} : line[t] \in {"eat", "meal", "put_second"}}

\* Thread t is in uth_mutex_lock and does not have the fork yet, or is in
\* uth_mutex_unlock.
PickingUp(t) == Place(t) \in {"lock_xchg", "lock_block", "lock_swap", "lock_own"}
PuttingDown(t) == Place(t) \in {"unlock_free", "unlock_wake"}

\* What t has, and what it asks for or gives back, agree with its line.
ForksOf(t) ==
  /\ t # Driver => line[t] \in {"start", "think", "first", "window", "second", "eat", "meal",
                                "put_second", "put_first", "return"}
  /\ obj[t] \in Mutexes \cup {"none"}
  /\ PickingUp(t) => \/ line[t] = "window" /\ obj[t] = first(t)
                     \/ line[t] = "eat" /\ obj[t] = second(t)
  /\ PuttingDown(t) => \/ line[t] = "put_first" /\ obj[t] = second(t)
                       \/ line[t] = "start" /\ obj[t] = first(t)
  /\ held[t] = IF PickingUp(t) THEN Kept(t) \ {obj[t]}
               ELSE IF Place(t) = "unlock_free" THEN Kept(t) \cup {obj[t]}
               ELSE Kept(t)

ForkInv == \A t \in Tids : ForksOf(t)

PhilIndInv == ThreadIndInv /\ MutexIndInv /\ ProgramTypeOK /\ ProgramInv /\ ForkInv
=============================================================================
