--------------------------- MODULE ExamplesProofs ---------------------------
(***************************************************************************)
(* Two of the programs in examples/, which have nothing in common but what *)
(* module Program says of both.                                            *)
(*                                                                         *)
(* The dining philosophers for any number of philosophers and meals, with  *)
(* and without preemption: neighbours do not eat at the same time, and the *)
(* threads are never all asleep.  PhilIndInv of module Philosophers is     *)
(* inductive.                                                              *)
(*                                                                         *)
(* preempt_demo for any number of threads and iterations and any interval: *)
(* SIGALRM never finds its handler missing, and its period is the interval *)
(* main asked for.  DemoIndInv of module PreemptDemo is inductive.         *)
(***************************************************************************)
EXTENDS Philosophers, PreemptDemo, MutexCondProofs, WellFoundedInduction

-----------------------------------------------------------------------------
(* The forks.                                                              *)

\* A philosopher takes the fork with the smaller index first.
LEMMA ForkOrder ==
  ASSUME NEW i \in Indices
  PROVE  /\ fork_order(i)[1] \in Indices /\ fork_order(i)[2] \in Indices
         /\ fork_order(i)[1] < fork_order(i)[2]
         /\ {fork_order(i)[1], fork_order(i)[2]} = {left(i), right(i)}
<1>1. N \in Nat /\ N >= 2 /\ N = NThreads /\ i \in 0 .. N - 1
  BY PhilosophersAssumption, ProgramAssumption, ZenonT(30) DEF Indices
<1>2. right(i) = IF i = N - 1 THEN 0 ELSE i + 1
  BY <1>1, Z3 DEF right
<1> QED
  BY <1>1, <1>2 DEF fork_order, left, Indices

\* The two forks of a philosopher are different mutexes.
LEMMA TwoForksEach ==
  ASSUME ProgramTypeOK, NEW t \in Tids
  PROVE  first(t) \in Mutexes /\ second(t) \in Mutexes /\ first(t) # second(t)
<1>1. arg[t] \in Indices
  BY ZenonT(30) DEF ProgramTypeOK
<1>2. /\ fork_order(arg[t])[1] \in Indices /\ fork_order(arg[t])[2] \in Indices
      /\ fork_order(arg[t])[1] # fork_order(arg[t])[2]
  BY <1>1, ForkOrder DEF Indices
<1> QED
  BY <1>2, PhilosophersAssumption, ZenonT(30) DEF first, second, id

\* Thread t, its line, its argument and its forks are left alone.
LEMMA SameForks ==
  ASSUME NEW t \in Tids, ForksOf(t), Place(t)' = Place(t), obj'[t] = obj[t],
         line'[t] = line[t], arg'[t] = arg[t], held'[t] = held[t]
  PROVE  ForksOf(t)'
BY ZenonT(30) DEF ForksOf, PickingUp, PuttingDown, Kept, first, second, id

-----------------------------------------------------------------------------
(* The steps that the programs share.                                      *)

\* They leave the forks alone.
LEMMA ProgramForks ==
  ASSUME PhilIndInv, ProgramInv', ProgramFrame, UNCHANGED mutexVars
  PROVE  ForkInv'
<1> SUFFICES ASSUME NEW t \in Tids PROVE ForksOf(t)'
  BY ZenonT(30) DEF ForkInv
<1> USE DEF PhilIndInv
<1>1. /\ PickingUp(t)' <=> PickingUp(t)
      /\ PuttingDown(t)' <=> PuttingDown(t)
      /\ Place(t)' = "unlock_free" <=> Place(t) = "unlock_free"
      /\ PickingUp(t) \/ PuttingDown(t) => obj'[t] = obj[t]
      /\ obj'[t] = obj[t] \/ obj'[t] = "none"
  <2>1. CASE Quiet(t)
    BY <2>1, SwapLemma, ZenonT(30) DEF Quiet, PickingUp, PuttingDown, Preemptible, Unmasked,
       ReturnLabels
  <2>2. CASE Apart(t)
    BY <2>2, ZenonT(30) DEF Apart, PickingUp, PuttingDown, ThreadLabels, CallLabels, JoinLabels,
       ExitLabels, Preemptible, Unmasked
  <2> QED
    BY <2>1, <2>2, ZenonT(30) DEF ProgramFrame
<1>2. held'[t] = held[t] /\ ForksOf(t)
  BY ZenonT(30) DEF mutexVars, ForkInv
<1>3. CASE t = Driver
  <2>1. /\ line[t] \in {"create", "store", "join", "return"}
        /\ line'[t] \in {"create", "store", "join", "return"}
    BY <1>3, ZenonT(30) DEF ProgramInv
  <2>2. ~PickingUp(t) /\ ~PuttingDown(t) /\ Kept(t) = {} /\ Kept(t)' = {}
    BY <1>2, <2>1, ZenonT(30) DEF ForksOf, Kept
  <2>3. Place(t) # "unlock_free"
    BY <2>2, ZenonT(30) DEF PuttingDown
  <2> QED
    BY <1>1, <1>2, <1>3, <2>2, <2>3, ZenonT(30) DEF ForksOf
<1>4. CASE t # Driver /\ state[t] = "NONE"
  <2>1. line[t] = "start" /\ line'[t] = "start"
    BY <1>4, ZenonT(30) DEF ProgramInv, ProgramFrame
  <2>2. Place(t) \in Preemptible
    BY <1>4, ZenonT(30) DEF ThreadIndInv, ThreadInv, SchedInv, FrameInv
  <2>3. ~PickingUp(t) /\ ~PuttingDown(t) /\ Kept(t) = {} /\ Kept(t)' = {} /\ Place(t) # "unlock_free"
    BY <2>1, <2>2, ZenonT(30) DEF PickingUp, PuttingDown, Kept, Preemptible, Unmasked
  <2> QED
    BY <1>1, <1>2, <2>1, <2>3, ZenonT(30) DEF ForksOf
<1>5. CASE t # Driver /\ state[t] # "NONE"
  <2>1. line'[t] = line[t] /\ arg'[t] = arg[t]
    BY <1>5, ZenonT(30) DEF ProgramFrame
  <2>2. Kept(t)' = Kept(t) /\ first(t)' = first(t) /\ second(t)' = second(t)
    BY <2>1, ZenonT(30) DEF Kept, first, second, id
  <2>3. Place(t) = "unlock_free" => PuttingDown(t)
    BY ZenonT(30) DEF PuttingDown
  <2> QED
    BY <1>1, <1>2, <2>1, <2>2, <2>3, ZenonT(30) DEF ForksOf
<1> QED
  BY <1>3, <1>4, <1>5, ZenonT(30)

\* driver(), main(), the functions of thread.c and the scheduler.
LEMMA SharedStep ==
  ASSUME PhilIndInv, UNCHANGED mutexVars,
         ProgramStep \/ (Preempt /\ UNCHANGED <<threadVars, programVars>>)
  PROVE  PhilIndInv'
<1>1. ThreadIndInv' /\ ProgramTypeOK' /\ ProgramInv' /\ ProgramFrame
  BY ProgramStepInv, ZenonT(30) DEF PhilIndInv
<1>2. MutexIndInv'
  BY <1>1, ProgramMutex, ZenonT(30) DEF PhilIndInv, ThreadIndInv
<1>3. ForkInv'
  BY <1>1, ProgramForks, ZenonT(30)
<1> QED
  BY <1>1, <1>2, <1>3, ZenonT(30) DEF PhilIndInv

-----------------------------------------------------------------------------
(* The steps of uth_mutex_lock and uth_mutex_unlock.                       *)

\* A thread gets the fork it asks for, and gives back the fork it names.
LEMMA MutexForks ==
  ASSUME PhilIndInv, MutexStep, UNCHANGED <<threadVars, programVars>>
  PROVE  PhilIndInv'
<1> USE DEF PhilIndInv
<1>0. PICK c \in Tids : c = uth_current
  BY MutexMoves, ZenonT(30) DEF MovesTo
<1> DEFINE m == obj[c]
<1>1. UNCHANGED <<line, arg>> /\ uth_current' = c /\ held \in [Tids -> SUBSET Mutexes]
  <2>1. UNCHANGED <<line, arg>>
    BY ZenonT(30) DEF programVars
  <2>2. uth_current' = c
    BY <1>0, ZenonT(30) DEF MutexStep, lock_xchg, lock_block, lock_own, unlock_free, unlock_wake,
       uth_block, uth_wake_one, Goto
  <2> QED
    BY <2>1, <2>2, ZenonT(30) DEF MutexIndInv, MutexTypeOK
<1>2. /\ ThreadIndInv' /\ MutexIndInv' /\ ProgramTypeOK' /\ ProgramInv'
      /\ c \in Tids /\ Place(c) = pc /\ Place(c)' = pc'
      /\ obj'[c] = m /\ m \in Mutexes
      /\ \A t \in Tids \ {c} : Place(t)' = Place(t) /\ obj'[t] = obj[t]
  BY <1>0, <1>1, MutexMoves, ZenonT(30) DEF MovesTo
<1>3. \/ pc = "lock_xchg" /\ pc' \in {"lock_block", "lock_own"} /\ held' = held
      \/ pc = "lock_block" /\ pc' = "lock_swap" /\ held' = held
      \/ pc = "lock_own" /\ pc' = "leave" /\ held' = [held EXCEPT ![c] = @ \cup {m}]
      \/ pc = "unlock_free" /\ pc' = "unlock_wake" /\ held' = [held EXCEPT ![c] = @ \ {m}]
      \/ pc = "unlock_wake" /\ pc' = "leave" /\ held' = held
  BY <1>0, ZenonT(30) DEF MutexStep, lock_xchg, lock_block, lock_own, unlock_free, unlock_wake,
     uth_block, uth_wake_one, Goto, Obj, mutexVars
<1>4. \A t \in Tids \ {c} : ForksOf(t)'
  <2> SUFFICES ASSUME NEW t \in Tids \ {c} PROVE ForksOf(t)'
    OBVIOUS
  <2>1. held'[t] = held[t]
    BY <1>1, <1>3, ZenonT(30)
  <2> QED
    BY <1>2, <1>1, <2>1, SameForks, ZenonT(30) DEF ForkInv
<1>5. ForksOf(c) /\ first(c) # second(c)
  BY <1>2, TwoForksEach, ZenonT(30) DEF ForkInv
<1>6. /\ Kept(c)' = Kept(c) /\ first(c)' = first(c) /\ second(c)' = second(c)
      /\ line'[c] = line[c] /\ obj'[c] = m
  BY <1>2, <1>1, ZenonT(30) DEF Kept, first, second, id
<1>7. held'[c] = IF pc = "lock_own" THEN held[c] \cup {m}
                 ELSE IF pc = "unlock_free" THEN held[c] \ {m} ELSE held[c]
  BY <1>2, <1>1, <1>3, ZenonT(30)
<1>8. ForksOf(c)'
  <2>1. CASE pc \in {"lock_xchg", "lock_block"}
    <3>1. PickingUp(c) /\ PickingUp(c)' /\ ~PuttingDown(c)'
      BY <1>2, <1>3, <2>1, ZenonT(30) DEF PickingUp, PuttingDown
    <3> QED
      BY <1>5, <1>6, <1>7, <2>1, <3>1, ZenonT(30) DEF ForksOf
  <2>2. CASE pc = "lock_own"
    <3>1. PickingUp(c) /\ ~PickingUp(c)' /\ ~PuttingDown(c)' /\ Place(c)' = "leave"
      BY <1>2, <1>3, <2>2, ZenonT(30) DEF PickingUp, PuttingDown
    <3>2. m \in Kept(c) /\ held[c] = Kept(c) \ {m}
      BY <1>5, <3>1, ZenonT(30) DEF ForksOf, Kept
    <3>3. held'[c] = Kept(c)
      BY <1>7, <2>2, <3>2, ZenonT(30)
    <3> QED
      BY <1>5, <1>6, <3>1, <3>3, ZenonT(30) DEF ForksOf
  <2>3. CASE pc = "unlock_free"
    <3>1. PuttingDown(c) /\ ~PickingUp(c) /\ ~PickingUp(c)' /\ PuttingDown(c)' /\ Place(c)' = "unlock_wake"
      BY <1>2, <1>3, <2>3, ZenonT(30) DEF PickingUp, PuttingDown
    <3>2. m \notin Kept(c) /\ held[c] = Kept(c) \cup {m}
      BY <1>2, <1>5, <2>3, <3>1, ZenonT(30) DEF ForksOf, Kept
    <3>3. held'[c] = Kept(c)
      BY <1>7, <2>3, <3>2, ZenonT(30)
    <3> QED
      BY <1>5, <1>6, <3>1, <3>3, ZenonT(30) DEF ForksOf
  <2>4. CASE pc = "unlock_wake"
    <3>1. /\ PuttingDown(c) /\ ~PickingUp(c) /\ ~PickingUp(c)' /\ ~PuttingDown(c)'
          /\ Place(c) = "unlock_wake" /\ Place(c)' = "leave"
      BY <1>2, <1>3, <2>4, ZenonT(30) DEF PickingUp, PuttingDown
    <3> QED
      BY <1>5, <1>6, <1>7, <2>4, <3>1, ZenonT(30) DEF ForksOf
  <2> QED
    BY <1>3, <2>1, <2>2, <2>3, <2>4, ZenonT(30)
<1> QED
  BY <1>2, <1>4, <1>8, ZenonT(30) DEF ForkInv

-----------------------------------------------------------------------------
(* The lines of philosopher().                                             *)

\* A philosopher between its calls has the forks of its line.
LEMMA PhilosopherHas ==
  ASSUME PhilIndInv, NEW l, NEW next, Line(l, next),
         l \in {"start", "think", "first", "window", "second", "eat", "meal", "put_second", "put_first"}
  PROVE  /\ uth_current \in Tids \ {Driver} /\ Place(uth_current) = "user" /\ pc = "user"
         /\ line[uth_current] = l /\ line'[uth_current] = next
         /\ held[uth_current] = Kept(uth_current)
<1> DEFINE c == uth_current
<1>1. SchedInv /\ pc = "user" /\ line[c] = l /\ line' = [line EXCEPT ![c] = next]
  BY ZenonT(30) DEF PhilIndInv, ThreadIndInv, Line, Me
<1>2. pc \notin SchedLabels /\ pc \in Unmasked
  BY <1>1, ZenonT(30) DEF SchedLabels, Unmasked
<1>3. c \in Tids /\ Place(c) = "user"
  BY <1>1, <1>2, ThreadCode, ZenonT(30)
<1>4. c # Driver
  BY <1>1, ZenonT(30) DEF PhilIndInv, ProgramInv
<1>5. held[c] = Kept(c)
  BY <1>3, ZenonT(30) DEF PhilIndInv, ForkInv, ForksOf, PickingUp, PuttingDown
<1> QED
  BY <1>1, <1>3, <1>4, <1>5, ZenonT(30) DEF PhilIndInv, ProgramTypeOK

\* A philosopher calls the library, and its next line agrees with the call.
LEMMA CallForks ==
  ASSUME PhilIndInv, NEW l, NEW next, Line(l, next), NEW c \in Tids \ {Driver}, c = uth_current,
         next \in {"start", "think", "first", "window", "second", "eat", "meal", "put_first"},
         NEW o \in Mutexes \cup {"none"}, NEW e \in {"yield_push", "lock_xchg", "unlock_free"},
         Enter("user", o, "user", e), UNCHANGED <<threadVars, arg, tids, mutexVars>>,
         NEW k \in Int, count' = [count EXCEPT ![c] = k],
         e = "yield_push" => o = "none" /\ held[c] = Kept(c)',
         e = "lock_xchg" => /\ \/ next = "window" /\ o = first(c)
                               \/ next = "eat" /\ o = second(c)
                            /\ held[c] = Kept(c)' \ {o},
         e = "unlock_free" => /\ \/ next = "put_first" /\ o = second(c)
                                 \/ next = "start" /\ o = first(c)
                              /\ held[c] = Kept(c)' \cup {o}
  PROVE  PhilIndInv'
<1> USE DEF PhilIndInv
<1>1. /\ e \in Sections \ (CallLabels \cup ExitLabels)
      /\ e \in Sections \ {"lock_block", "lock_own", "unlock_wake"}
      /\ o \in Objs \cup {"none"} /\ "user" \in Unmasked /\ "user" \in ReturnLabels
      /\ next \notin {"create", "store", "join"}
  BY MutexAssumption, ZenonT(30) DEF Sections, CallLabels, JoinLabels, ExitLabels, Unmasked,
     ReturnLabels
<1>2. /\ ThreadIndInv' /\ ProgramTypeOK' /\ ProgramInv' /\ uth_current' = c
      /\ Place(c)' = e /\ obj'[c] = o /\ line'[c] = next
      /\ \A t \in Tids \ {c} : Place(t)' = Place(t) /\ obj'[t] = obj[t] /\ line'[t] = line[t]
  BY <1>1, UserCall, ZenonT(30)
<1>3. MutexIndInv'
  <2>1. e \in {"lock_xchg", "unlock_free"} => o \in Mutexes
    BY TwoForksEach, ZenonT(30)
  <2> QED
    BY <1>1, <2>1, MutexEntry, ZenonT(30)
<1>4. \A t \in Tids \ {c} : ForksOf(t)'
  BY <1>2, SameForks, ZenonT(30) DEF ForkInv, mutexVars
<1>5. first(c)' = first(c) /\ second(c)' = second(c) /\ held' = held
  BY ZenonT(30) DEF first, second, id, mutexVars
<1>6. ForksOf(c)'
  <2>1. PickingUp(c)' <=> e = "lock_xchg"
    BY <1>2, ZenonT(30) DEF PickingUp
  <2>2. PuttingDown(c)' <=> e = "unlock_free"
    BY <1>2, ZenonT(30) DEF PuttingDown
  <2> QED
    BY <1>2, <1>5, <2>1, <2>2, ZenonT(30) DEF ForksOf
<1> QED
  BY <1>2, <1>3, <1>4, <1>6, ZenonT(30) DEF ForkInv

\* The while loop, and a philosopher's count of its meals.
LEMMA LocalForks ==
  ASSUME PhilIndInv, NEW l, NEW next, Local(l, next), NEW c \in Tids \ {Driver}, c = uth_current,
         next \in {"think", "put_second", "return"},
         NEW k \in Int, count' = [count EXCEPT ![c] = k], UNCHANGED mutexVars,
         Place(c) = "user", held[c] = Kept(c)'
  PROVE  PhilIndInv'
<1> USE DEF PhilIndInv
<1>1. /\ ThreadIndInv' /\ ProgramTypeOK' /\ ProgramInv'
      /\ UNCHANGED <<schedVars, threadVars, arg>> /\ pc = "user" /\ line'[c] = next
      /\ \A t \in Tids : Place(t)' = Place(t)
      /\ \A t \in Tids \ {c} : line'[t] = line[t]
  BY UserLine, ZenonT(30)
<1>2. UNCHANGED <<uth_current, rq, state, obj, waiters, pc, held>>
  BY <1>1, ZenonT(30) DEF schedVars, mutexVars
<1>3. SchedInv' /\ \A t \in Tids : \A m \in Mutexes : Trying(t, m) => Trying(t, m)'
  BY <1>1, <1>2, ZenonT(30) DEF ThreadIndInv, Trying
<1>4. MutexIndInv'
  BY <1>1, <1>2, <1>3, OtherStep, ZenonT(30) DEF MutexIndInv, MutexInv
<1>5. \A t \in Tids \ {c} : ForksOf(t)'
  BY <1>1, <1>2, SameForks, ZenonT(30) DEF ForkInv
<1>6. ForksOf(c)'
  BY <1>1, <1>2, ZenonT(30) DEF ForkInv, ForksOf, PickingUp, PuttingDown
<1> QED
  BY <1>1, <1>4, <1>5, <1>6, ZenonT(30) DEF ForkInv

\* Every line of philosopher() preserves the inductive invariant.
LEMMA PhilosopherInv ==
  ASSUME PhilIndInv, philosopher
  PROVE  PhilIndInv'
<1>0. PICK c : c = uth_current
  OBVIOUS
<1> USE <1>0 DEF Me
<1>1. ASSUME NEW t \in Tids, UNCHANGED arg
      PROVE  first(t)' = first(t) /\ second(t)' = second(t)
  BY <1>1, ZenonT(30) DEF first, second, id
<1>2. count \in [Tids -> Int]
  BY ZenonT(30) DEF PhilIndInv, ProgramTypeOK
<1>3. CASE meals_left
  <2> DEFINE next == IF meals[id(Me)] < total_meals THEN "think" ELSE "return"
  <2>1. /\ Local("start", next) /\ Line("start", next) /\ next \in {"think", "return"}
        /\ count' = [count EXCEPT ![c] = 3] /\ UNCHANGED <<mutexVars, arg>>
    BY <1>3, ZenonT(30) DEF meals_left, Local
  <2> HIDE DEF next
  <2>2. /\ c \in Tids \ {Driver} /\ Place(c) = "user" /\ line[c] = "start" /\ line'[c] = next
        /\ held[c] = Kept(c)
    BY <2>1, PhilosopherHas, ZenonT(30)
  <2>3. held[c] = Kept(c)' /\ 3 \in Int
    BY <1>1, <2>1, <2>2 DEF Kept
  <2> QED
    BY <2>1, <2>2, <2>3, LocalForks, ZenonT(30)
<1>4. CASE count_meal
  <2>1. /\ Local("meal", "put_second") /\ Line("meal", "put_second") /\ UNCHANGED <<mutexVars, arg, count>>
    BY <1>4, ZenonT(30) DEF count_meal, Local
  <2>2. /\ c \in Tids \ {Driver} /\ Place(c) = "user" /\ line[c] = "meal" /\ line'[c] = "put_second"
        /\ held[c] = Kept(c)
    BY <2>1, PhilosopherHas, ZenonT(30)
  <2>3. held[c] = Kept(c)' /\ count' = [count EXCEPT ![c] = count[c]] /\ count[c] \in Int
    BY <1>1, <1>2, <2>1, <2>2, ZenonT(30) DEF Kept
  <2> QED
    BY <2>1, <2>2, <2>3, LocalForks, ZenonT(30)
<1>5. ASSUME NEW l, NEW next, yield_in(l, next),
             <<l, next>> \in {<<"think", "first">>, <<"window", "second">>, <<"eat", "meal">>}
      PROVE  PhilIndInv'
  <2> DEFINE n == IF count[Me] = 1 THEN next ELSE l
  <2>1. /\ Line(l, n) /\ n \in {l, next} /\ Enter("user", "none", "user", "yield_push")
        /\ count' = [count EXCEPT ![c] = count[c] - 1]
        /\ UNCHANGED <<threadVars, arg, tids, mutexVars>>
    BY <1>5, ZenonT(30) DEF yield_in, uth_yield
  <2> HIDE DEF n
  <2>2. /\ c \in Tids \ {Driver} /\ line[c] = l /\ line'[c] = n /\ held[c] = Kept(c)
    BY <1>5, <2>1, PhilosopherHas, ZenonT(30)
  <2>3. held[c] = Kept(c)'
    BY <1>1, <1>5, <2>1, <2>2, ZenonT(30) DEF Kept
  <2>4. n \in {"think", "first", "window", "second", "eat", "meal"} /\ count[c] - 1 \in Int
    BY <1>2, <1>5, <2>1, <2>2, SMTT(30)
  <2> QED
    BY <2>1, <2>2, <2>3, <2>4, CallForks, ZenonT(60)
<1>6. ASSUME NEW l, NEW next, NEW i \in Indices, NEW n \in Int, pick_up(l, i, next, n), c \in Tids =>
             \/ l = "first" /\ next = "window" /\ forks[i] = first(c)
             \/ l = "second" /\ next = "eat" /\ forks[i] = second(c)
      PROVE  PhilIndInv'
  <2>1. /\ Line(l, next) /\ Enter("user", forks[i], "user", "lock_xchg")
        /\ count' = [count EXCEPT ![c] = n] /\ forks[i] \in Mutexes
        /\ UNCHANGED <<threadVars, arg, tids, mutexVars>>
    BY <1>6, PhilosophersAssumption, ZenonT(30) DEF pick_up, uth_mutex_lock
  <2>2. c \in Tids
    BY <2>1, ThreadCode, ZenonT(30) DEF Line, PhilIndInv, ThreadIndInv, SchedLabels, Unmasked
  <2>3. /\ c \in Tids \ {Driver} /\ line[c] = l /\ line'[c] = next /\ held[c] = Kept(c)
    BY <1>6, <2>1, <2>2, PhilosopherHas, ZenonT(30)
  <2>4. first(c) # second(c)
    BY <2>3, TwoForksEach, ZenonT(30) DEF PhilIndInv
  <2>5. held[c] = Kept(c)' \ {forks[i]}
    BY <1>1, <1>6, <2>1, <2>3, <2>4, ZenonT(30) DEF Kept
  <2>6. \/ next = "window" /\ forks[i] = first(c)
        \/ next = "eat" /\ forks[i] = second(c)
    BY <1>6, <2>2, ZenonT(30)
  <2> QED
    BY <2>1, <2>3, <2>5, <2>6, CallForks, ZenonT(60)
<1>7. ASSUME NEW l, NEW next, NEW i \in Indices, put_down(l, i, next), c \in Tids =>
             \/ l = "put_second" /\ next = "put_first" /\ forks[i] = second(c)
             \/ l = "put_first" /\ next = "start" /\ forks[i] = first(c)
      PROVE  PhilIndInv'
  <2>1. /\ Line(l, next) /\ Enter("user", forks[i], "user", "unlock_free") /\ forks[i] \in Mutexes
        /\ UNCHANGED <<threadVars, arg, tids, mutexVars>>
    BY <1>7, PhilosophersAssumption, ZenonT(30) DEF put_down, uth_mutex_unlock
  <2>2. c \in Tids
    BY <2>1, ThreadCode, ZenonT(30) DEF Line, PhilIndInv, ThreadIndInv, SchedLabels, Unmasked
  <2>3. /\ c \in Tids \ {Driver} /\ line[c] = l /\ line'[c] = next /\ held[c] = Kept(c)
    BY <1>7, <2>1, <2>2, PhilosopherHas, ZenonT(30)
  <2>4. held[c] = Kept(c)' \cup {forks[i]}
    BY <1>1, <1>7, <2>1, <2>3, ZenonT(30) DEF Kept
  <2>5. PICK k \in Int : count' = [count EXCEPT ![c] = k]
    <3>1. count' = [count EXCEPT ![c] = count[c]] /\ count[c] \in Int
      BY <1>2, <1>7, <2>3, ZenonT(30) DEF put_down
    <3> QED
      BY <3>1, ZenonT(30)
  <2>6. \/ next = "put_first" /\ forks[i] = second(c)
        \/ next = "start" /\ forks[i] = first(c)
    BY <1>7, <2>2, ZenonT(30)
  <2> QED
    BY <2>1, <2>3, <2>4, <2>5, <2>6, CallForks, ZenonT(60)
<1>8. c \in Tids => /\ fork_order(id(c))[1] \in Indices /\ fork_order(id(c))[2] \in Indices
                    /\ forks[fork_order(id(c))[1]] = first(c) /\ forks[fork_order(id(c))[2]] = second(c)
  BY ForkOrder, ZenonT(30) DEF PhilIndInv, ProgramTypeOK, id, first, second
<1>9. philosopher => c \in Tids
  BY ThreadCode, ZenonT(30) DEF Line, Local, PhilIndInv, ThreadIndInv, SchedLabels, Unmasked,
     philosopher, meals_left, yield_in, pick_up, count_meal, put_down
<1> QED
  BY <1>3, <1>4, <1>5, <1>6, <1>7, <1>8, <1>9, SMTT(30) DEF philosopher

-----------------------------------------------------------------------------
(* PhilIndInv is inductive.                                                *)

\* The inductive invariant holds when main() starts.
LEMMA PhilInitInv == PhilInit => PhilIndInv
<1> SUFFICES ASSUME PhilInit PROVE PhilIndInv
  OBVIOUS
<1>1. ThreadIndInv /\ ProgramTypeOK /\ ProgramInv
  BY ProgramInitInv, ZenonT(30) DEF PhilInit
<1>2. /\ locked = [m \in Mutexes |-> FALSE] /\ owner = [m \in Mutexes |-> NULL]
      /\ held = [t \in Tids |-> {}] /\ pc = "main" /\ waiters = [o \in Objs |-> <<>>]
      /\ line = [t \in Tids |-> IF t = Driver THEN "create" ELSE "start"]
      /\ \A t \in Tids : state[t] = "NONE" /\ ctx[t] = NewContext /\ obj[t] = "none"
  BY ZenonT(30) DEF PhilInit, ProgramInit, ThreadInit, uth_mutex_init
<1>3. \A t \in Tids : Place(t) = "user"
  BY <1>2 DEF Place, OnCpu, SchedLabels, NewContext
<1>4. MutexIndInv
  <2>1. MutexTypeOK
    BY <1>1, <1>2, ZenonT(30) DEF MutexTypeOK, ThreadIndInv, SchedInv
  <2>2. MutualExclusion /\ NoLostWakeup
    BY <1>2, MutexAssumption, ZenonT(30) DEF MutualExclusion, NoLostWakeup
  <2>3. MutexInv
    BY <1>2, <1>3, ZenonT(30) DEF MutexInv, MutexLabels, CallInv
  <2> QED
    BY <1>1, <2>1, <2>2, <2>3, ZenonT(30) DEF MutexIndInv, ThreadIndInv
<1>5. ForkInv
  BY <1>2, <1>3, ZenonT(30) DEF ForkInv, ForksOf, PickingUp, PuttingDown, Kept
<1> QED
  BY <1>1, <1>4, <1>5, ZenonT(30) DEF PhilIndInv

\* Nothing happens.
LEMMA PhilStutter ==
  ASSUME PhilIndInv, UNCHANGED philSysVars
  PROVE  PhilIndInv'
<1> USE DEF PhilIndInv, philSysVars
<1>1. UNCHANGED <<schedVars, threadVars, programVars, mutexVars>>
  OBVIOUS
<1>2. \A t \in Tids : Place(t)' = Place(t)
  BY <1>1, ZenonT(30) DEF schedVars, Place, OnCpu
<1>3. ThreadIndInv'
  BY <1>1, ThreadNextInv, ZenonT(30) DEF threadSysVars
<1>4. MutexIndInv'
  BY <1>1, MutexNextInv, ZenonT(30) DEF mutexSysVars
<1>5. ProgramTypeOK' /\ ProgramInv'
  BY <1>1, <1>2, ZenonT(30) DEF schedVars, threadVars, programVars, ProgramTypeOK, ProgramInv
<1>6. ForkInv'
  BY <1>1, <1>2, SameForks, ZenonT(30) DEF schedVars, programVars, mutexVars, ForkInv
<1> QED
  BY <1>3, <1>4, <1>5, <1>6, ZenonT(30)

\* Every step of the program preserves the inductive invariant.
LEMMA PhilNextInv == PhilIndInv /\ [PhilNext]_philSysVars => PhilIndInv'
<1> SUFFICES ASSUME PhilIndInv, [PhilNext]_philSysVars PROVE PhilIndInv'
  OBVIOUS
<1>1. CASE ProgramStep /\ UNCHANGED <<mutexVars, meals>>
  BY <1>1, SharedStep, ZenonT(30)
<1>2. CASE MutexStep /\ UNCHANGED <<threadVars, programVars, meals>>
  BY <1>2, MutexForks, ZenonT(30)
<1>3. CASE philosopher
  BY <1>3, PhilosopherInv, ZenonT(30)
<1>4. CASE Preempt /\ UNCHANGED <<threadVars, programVars, mutexVars, meals>>
  BY <1>4, SharedStep, ZenonT(30)
<1>5. CASE UNCHANGED philSysVars
  BY <1>5, PhilStutter, ZenonT(30)
<1> QED
  BY <1>1, <1>2, <1>3, <1>4, <1>5, ZenonT(30) DEF PhilNext, PhilCpuStep

\* The library and the program stay correct together: the scheduler, the
\* threads and the mutexes keep their invariants when philosopher() uses
\* them, and every philosopher holds exactly the forks its line says.
THEOREM PhilCorrect == PhilSpec => []PhilIndInv
BY PhilInitInv, PhilNextInv, PTL DEF PhilSpec

-----------------------------------------------------------------------------
(* What follows from it.                                                   *)

\* A set of indices in which each has a greater one is empty.
LEMMA Ascending ==
  ASSUME NEW S \in SUBSET Indices, \A i \in S : \E j \in S : i < j
  PROVE  S = {}
<1> SUFFICES ASSUME S # {} PROVE FALSE
  OBVIOUS
<1> DEFINE T == {NThreads - i : i \in S}
<1>1. NThreads \in Nat /\ S \subseteq 0 .. NThreads - 1
  BY ProgramAssumption, ZenonT(30) DEF Indices
<1>2. T \subseteq Nat /\ T # {}
  <2>1. ASSUME NEW i \in S PROVE NThreads - i \in Nat
    BY <1>1
  <2>2. PICK i \in S : TRUE
    OBVIOUS
  <2> QED
    BY <2>1, <2>2, ZenonT(30)
<1>3. PICK x \in T : \A y \in T : ~(<<y, x>> \in OpToRel(<, Nat))
  BY <1>2, WFMin, NatLessThanWellFounded, ZenonT(30)
<1>4. PICK i \in S : x = NThreads - i
  BY <1>3, ZenonT(30)
<1>5. PICK j \in S : i < j
  BY <1>4, ZenonT(30)
<1>6. NThreads - j \in T /\ NThreads - j < x
  BY <1>1, <1>4, <1>5
<1> QED
  BY <1>2, <1>3, <1>6, ZenonT(30) DEF OpToRel

\* Two philosophers who both hold their forks share none, since a mutex has
\* one owner.
LEMMA EatersApart == PhilIndInv => NeighboursDontEat
<1> SUFFICES ASSUME PhilIndInv, NEW t \in Tids \ {Driver}, NEW u \in Tids \ {Driver},
                    t # u, Eating(t), Eating(u)
             PROVE  {left(id(t)), right(id(t))} \cap {left(id(u)), right(id(u))} = {}
  BY ZenonT(30) DEF NeighboursDontEat
<1> USE DEF PhilIndInv
<1> DEFINE F(x) == {fork_order(id(x))[1], fork_order(id(x))[2]}
<1>1. ASSUME NEW x \in Tids, Eating(x)
      PROVE  \A i \in F(x) : forks[i] \in held[x] /\ owner[forks[i]] = x
  <2>1. held[x] = Kept(x)
    BY <1>1, ZenonT(30) DEF ForkInv, ForksOf, Eating, PickingUp, PuttingDown, MutexLabels
  <2>2. \A i \in F(x) : forks[i] \in held[x]
    BY <1>1, <2>1, ZenonT(30) DEF Eating, Kept, first, second
  <2> QED
    BY <2>2, ZenonT(30) DEF MutexIndInv, MutualExclusion
<1>2. F(t) \cap F(u) = {}
  BY <1>1
<1>3. ASSUME NEW x \in Tids
      PROVE  F(x) = {left(id(x)), right(id(x))}
  BY ForkOrder, ZenonT(30) DEF ProgramTypeOK, id
<1> QED
  BY <1>2, <1>3, ZenonT(30)

\* Philosophers who share a fork do not eat at the same time.
THEOREM PhilNeighbours == PhilSpec => []NeighboursDontEat
BY EatersApart, PhilCorrect, PTL

\* A thread that holds a fork is alive and is a philosopher.
LEMMA HolderIsAlive ==
  ASSUME PhilIndInv, NEW u \in Tids, held[u] # {}
  PROVE  u \in Live \ {Driver}
<1> USE DEF PhilIndInv
<1>1. ForksOf(u)
  BY ZenonT(30) DEF ForkInv
<1>2. Kept(u) # {} \/ PuttingDown(u)
  BY <1>1, ZenonT(30) DEF ForksOf, PuttingDown
<1>3. u # Driver
  BY <1>1, <1>2, ZenonT(30) DEF ForksOf, Kept, ProgramInv
<1>4. state[u] # "NONE"
  <2> SUFFICES ASSUME state[u] = "NONE" PROVE FALSE
    BY ZenonT(30)
  <2>1. line[u] = "start" /\ Place(u) \in Preemptible
    BY <1>3, ZenonT(30) DEF ProgramInv, ThreadIndInv, ThreadInv, SchedInv, FrameInv
  <2> QED
    BY <1>2, <2>1, ZenonT(30) DEF Kept, PuttingDown, Preemptible, Unmasked
<1>5. state[u] \notin {"ZOMBIE", "FREED"}
  <2> SUFFICES ASSUME state[u] \in {"ZOMBIE", "FREED"} PROVE FALSE
    BY ZenonT(30)
  <2>1. line[u] = "return" /\ Place(u) \in {"exit_swap", "dead"}
    BY ZenonT(30) DEF ProgramInv, ThreadIndInv, ThreadInv
  <2> QED
    BY <1>2, <2>1, ZenonT(30) DEF Kept, PuttingDown
<1> QED
  BY <1>3, <1>4, <1>5, ZenonT(30) DEF Live

\* If all threads were asleep, a philosopher would be asleep, on a fork that a
\* sleeping philosopher holds who waits for a fork of greater index, and so
\* on for ever: but there are only N forks.
LEMMA SomebodyIsAwake == PhilIndInv => NoCircularWait
<1> SUFFICES ASSUME PhilIndInv, pc = "loop", Live # {}, rq = <<>> PROVE FALSE
  BY ZenonT(30) DEF NoCircularWait, NeverAllAsleep
<1> USE DEF PhilIndInv
<1>1. \A t \in Tids : state[t] \notin {"READY", "RUNNING"}
  <2>1. Range(rq) = {}
    BY DEF Range
  <2> QED
    BY <2>1, ZenonT(30) DEF ThreadIndInv, SchedInv, QueueDiscipline, CpuInv
<1>2. \A t \in Live : t \in Tids /\ state[t] = "BLOCKED"
  BY <1>1, ZenonT(30) DEF Live, ThreadIndInv, SchedInv, SchedTypeOK, TCBStates
<1>3. ASSUME NEW t \in Live, t # Driver
      PROVE  obj[t] \in Mutexes /\ PickingUp(t)
  <2>1. obj[t] # "none"
    <3>1. AsleepInJoin(t) => Place(t) \in {"join_swap", "join_refind"}
      BY <1>2, ZenonT(30) DEF ThreadIndInv, ThreadInv
    <3>2. Place(t) \notin JoinLabels
      BY <1>2, <1>3, ZenonT(30) DEF ProgramInv
    <3> QED
      BY <1>2, <3>1, <3>2, ZenonT(30) DEF AsleepInJoin, JoinLabels
  <2>2. obj[t] \in Mutexes
    BY <1>2, <2>1, ZenonT(30) DEF ForkInv, ForksOf
  <2> QED
    BY <1>2, <2>2, ZenonT(30) DEF MutexIndInv, MutexInv, PickingUp
<1>4. \E t \in Live : t # Driver
  <2> SUFFICES ASSUME Live = {Driver} PROVE FALSE
    BY ZenonT(30)
  <2>1. Driver \in Tids /\ state[Driver] = "BLOCKED"
    BY <1>2, ZenonT(30)
  <2>2. obj[Driver] = "none"
    <3> SUFFICES ASSUME obj[Driver] # "none" PROVE FALSE
      BY ZenonT(30)
    <3>1. ForksOf(Driver) /\ obj[Driver] \in Mutexes
      BY <2>1, ZenonT(30) DEF ForkInv, ForksOf
    <3>2. PickingUp(Driver)
      BY <2>1, <3>1, ZenonT(30) DEF MutexIndInv, MutexInv, PickingUp
    <3> QED
      BY <3>1, <3>2, ZenonT(30) DEF ForksOf, ProgramInv
  <2>3. AsleepInJoin(Driver) /\ target[Driver] \in Tids \ {Driver}
    BY <2>1, <2>2, ZenonT(30) DEF AsleepInJoin, ThreadIndInv, ThreadInv, ProgramInv, FoundLabels,
       JoinLabels
  <2>4. target[Driver] \in Live
    BY <2>1, <2>3, ZenonT(30) DEF ThreadIndInv, JoinerIsRegistered, Live
  <2> QED
    BY <2>3, <2>4, ZenonT(30)
<1>5. ASSUME NEW t \in Live, t # Driver
      PROVE  \E u \in Live : u # Driver /\ obj[t] = first(u) /\ obj[u] = second(u)
  <2> DEFINE m == obj[t]
  <2>1. t \in Tids /\ m \in Mutexes /\ m \in Objs /\ state[t] = "BLOCKED"
    BY <1>2, <1>3, <1>5, MutexAssumption, ZenonT(30)
  <2>2. waiters[m] # <<>>
    <3>1. t \in Range(waiters[m])
      BY <2>1, ZenonT(30) DEF ThreadIndInv, SchedInv, QueueDiscipline
    <3> QED
      BY <3>1 DEF Range
  <2>3. PICK u \in Tids : m \in held[u]
    BY <1>1, <2>1, <2>2, ZenonT(30) DEF MutexIndInv, NoLostWakeup, Trying
  <2>4. u \in Live /\ u # Driver
    BY <2>3, HolderIsAlive, ZenonT(30)
  <2>5. ForksOf(u) /\ PickingUp(u)
    BY <1>3, <2>4, ZenonT(30) DEF ForkInv
  <2>6. m = first(u) /\ obj[u] = second(u)
    BY <2>3, <2>5, ZenonT(30) DEF ForksOf, Kept
  <2> QED
    BY <2>4, <2>6, ZenonT(30)
<1> DEFINE S == {i \in Indices : \E t \in Live : t # Driver /\ obj[t] = forks[i]}
<1>6. ASSUME NEW i \in S PROVE \E j \in S : i < j
  <2>1. PICK t \in Live : t # Driver /\ obj[t] = forks[i]
    OBVIOUS
  <2>2. PICK u \in Live : u # Driver /\ obj[t] = first(u) /\ obj[u] = second(u)
    BY <1>5, <2>1, ZenonT(30)
  <2> DEFINE a == fork_order(id(u))[1]
             b == fork_order(id(u))[2]
  <2>3. a \in Indices /\ b \in Indices /\ a < b
    BY <1>2, <2>2, ForkOrder, ZenonT(30) DEF ProgramTypeOK, id
  <2>4. forks[i] = forks[a] /\ obj[u] = forks[b]
    BY <2>1, <2>2, ZenonT(30) DEF first, second
  <2>5. i = a
    BY <2>3, <2>4, PhilosophersAssumption, ZenonT(30)
  <2>6. b \in S
    BY <2>2, <2>3, <2>4, ZenonT(30)
  <2> QED
    BY <2>3, <2>5, <2>6, ZenonT(30)
<1>7. S # {}
  <2>1. PICK t \in Live : t # Driver
    BY <1>4, ZenonT(30)
  <2>2. PICK u \in Live : u # Driver /\ obj[t] = first(u)
    BY <1>5, <2>1, ZenonT(30)
  <2>3. fork_order(id(u))[1] \in Indices
    BY <1>2, <2>2, ForkOrder, ZenonT(30) DEF ProgramTypeOK, id
  <2>4. fork_order(id(u))[1] \in S
    BY <2>1, <2>2, <2>3, ZenonT(30) DEF first
  <2> QED
    BY <2>4, ZenonT(30)
<1> QED
  BY <1>6, <1>7, Ascending, ZenonT(30)

\* "This breaks the circular wait condition": scheduler_loop never finds all
\* threads asleep.
THEOREM PhilNoDeadlock == PhilSpec => []NoCircularWait
BY SomebodyIsAwake, PhilCorrect, PTL

-----------------------------------------------------------------------------
(* preempt_demo.                                                           *)

\* A step inside uth_preempt_enable or uth_preempt_disable is one of main.
LEMMA MainCalls ==
  ASSUME DemoIndInv, NEW l, NEW next, CallStep(l, next), l # "none" \/ pc = "main"
  PROVE  /\ uth_current = NULL /\ call[NULL] = l /\ call' = [call EXCEPT ![NULL] = next]
         /\ call'[NULL] = next /\ DOMAIN call' = Callers /\ \A t \in Tids : call'[t] = "none"
         /\ NULL \in Callers /\ NULL \notin Tids
<1>1. NULL \in Callers /\ NULL \notin Tids
  BY DEF Callers, NULL, Tids
<1>2. uth_current \in Tids \cup {NULL} /\ (pc = "main" => uth_current = NULL)
  BY ZenonT(30) DEF DemoIndInv, ThreadIndInv, SchedInv, SchedTypeOK, CpuInv
<1>3. uth_current = NULL
  BY <1>2, ZenonT(30) DEF CallStep, DemoIndInv, TimerInv
<1> QED
  BY <1>1, <1>3, ZenonT(30) DEF CallStep, DemoIndInv, TimerInv, Callers

\* The steps of uth_preempt_enable and uth_preempt_disable.
LEMMA SignalsInv ==
  ASSUME DemoIndInv, PreemptionStep, UNCHANGED main_line
  PROVE  TimerInv' /\ AlarmIsHandled' /\ UNCHANGED schedVars
<1> USE DEF signalVars
<1>0. TimerInv /\ AlarmIsHandled
  BY ZenonT(30) DEF DemoIndInv
<1>1. CASE sigaltstack
  <2>1. CallStep("sigaltstack", "sigaction")
    BY <1>1, ZenonT(30) DEF sigaltstack
  <2> QED
    BY <1>0, <1>1, <2>1, MainCalls, ZenonT(30) DEF sigaltstack, CallStep, TimerInv, AlarmIsHandled
<1>2. CASE sigaction
  <2>1. CallStep("sigaction", "setitimer")
    BY <1>2, ZenonT(30) DEF sigaction
  <2> QED
    BY <1>0, <1>2, <2>1, MainCalls, ZenonT(30) DEF sigaction, CallStep, TimerInv, AlarmIsHandled
<1>3. CASE setitimer
  <2>1. CallStep("setitimer", "set_flag")
    BY <1>3, ZenonT(30) DEF setitimer
  <2> QED
    BY <1>0, <1>3, <2>1, MainCalls, ZenonT(30) DEF setitimer, CallStep, TimerInv, AlarmIsHandled
<1>4. CASE set_flag
  <2>1. CallStep("set_flag", "none")
    BY <1>4, ZenonT(30) DEF set_flag
  <2> QED
    BY <1>0, <1>4, <2>1, MainCalls, ZenonT(30) DEF set_flag, CallStep, TimerInv, AlarmIsHandled
<1>5. CASE enable_fails
  <2>1. PICK l \in {"malloc", "sigaltstack", "sigaction", "setitimer"} : CallStep(l, "none")
    BY <1>5, ZenonT(30) DEF enable_fails
  <2> QED
    BY <1>0, <1>5, <2>1, MainCalls, ZenonT(30) DEF enable_fails, CallStep, TimerInv, AlarmIsHandled
<1>6. CASE stop_timer
  <2>1. CallStep("stop_timer", "default")
    BY <1>6, ZenonT(30) DEF stop_timer
  <2> QED
    BY <1>0, <1>6, <2>1, MainCalls, ZenonT(30) DEF stop_timer, CallStep, TimerInv, AlarmIsHandled
<1>7. CASE signal_default
  <2>1. CallStep("default", "clear_flag")
    BY <1>7, ZenonT(30) DEF signal_default
  <2> QED
    BY <1>0, <1>7, <2>1, MainCalls, ZenonT(30) DEF signal_default, CallStep, TimerInv, AlarmIsHandled
<1>8. CASE clear_flag
  <2>1. CallStep("clear_flag", "none")
    BY <1>8, ZenonT(30) DEF clear_flag
  <2> QED
    BY <1>0, <1>8, <2>1, MainCalls, ZenonT(30) DEF clear_flag, CallStep, TimerInv, AlarmIsHandled
<1>9. CASE malloc
  <2>1. CallStep("malloc", "sigaltstack")
    BY <1>9, ZenonT(30) DEF malloc
  <2> QED
    BY <1>0, <1>9, <2>1, MainCalls, ZenonT(30) DEF malloc, CallStep, TimerInv, AlarmIsHandled
<1> QED
  BY <1>1, <1>2, <1>3, <1>4, <1>5, <1>6, <1>7, <1>8, <1>9, ZenonT(30) DEF PreemptionStep

\* The thread library and the driver take no step.
LEMMA DemoStutter ==
  ASSUME DemoIndInv, UNCHANGED <<schedVars, threadVars, programVars>>
  PROVE  ThreadIndInv' /\ ProgramTypeOK' /\ ProgramInv'
<1>1. ThreadIndInv'
  BY ThreadNextInv, ZenonT(30) DEF DemoIndInv, threadSysVars
<1>2. \A t \in Tids : Place(t)' = Place(t)
  BY ZenonT(30) DEF schedVars, Place, OnCpu
<1>3. ProgramTypeOK' /\ ProgramInv'
  BY <1>2, ZenonT(30) DEF DemoIndInv, ProgramTypeOK, ProgramInv, schedVars, threadVars, programVars
<1> QED
  BY <1>1, <1>3, ZenonT(30)

\* preempt.c takes no step.
LEMMA SignalsStutter ==
  ASSUME DemoIndInv, UNCHANGED preemptVars
  PROVE  TimerInv' /\ AlarmIsHandled'
BY ZenonT(30) DEF DemoIndInv, TimerInv, AlarmIsHandled, preemptVars, signalVars

\* The calls of main.
LEMMA DemoMainInv ==
  ASSUME DemoIndInv, demo_main
  PROVE  DemoIndInv'
<1> USE DEF signalVars
<1>0. TimerInv /\ AlarmIsHandled
  BY ZenonT(30) DEF DemoIndInv
<1>1. CASE /\ MainLine("enable", "create") /\ \E ms \in Intervals : uth_preempt_enable(ms)
           /\ UNCHANGED <<threadVars, programVars, progress>>
  <2>1. PICK ms \in Intervals : uth_preempt_enable(ms)
    BY <1>1, ZenonT(30)
  <2> DEFINE next == IF preempt_enabled THEN "none" ELSE "malloc"
  <2>2. CallStep("none", next) /\ pc = "main"
    BY <1>1, <2>1, ZenonT(30) DEF uth_preempt_enable, MainLine
  <2>3. next \in {"none", "malloc"}
    OBVIOUS
  <2> HIDE DEF next
  <2>4. /\ uth_current = NULL /\ NULL \in Callers /\ DOMAIN call' = Callers /\ call'[NULL] = next
        /\ \A t \in Tids : call'[t] = "none"
    BY <2>2, MainCalls, ZenonT(30)
  <2>5. UNCHANGED <<signalVars, schedVars>>
    BY <2>1, <2>2, ZenonT(30) DEF uth_preempt_enable, CallStep
  <2>6. TimerInv' /\ AlarmIsHandled'
    BY <1>0, <2>3, <2>4, <2>5, ZenonT(30) DEF TimerInv, AlarmIsHandled
  <2> QED
    BY <1>1, <2>5, <2>6, DemoStutter, ZenonT(30) DEF DemoIndInv
<1>2. CASE /\ (MainLine("create", "run") /\ main_create) \/ (MainLine("run", "disable") /\ uth_run)
           /\ UNCHANGED <<programVars, preemptVars, progress>>
  <2>1. TimerInv' /\ AlarmIsHandled'
    BY <1>2, SignalsStutter, ZenonT(30)
  <2>2. ThreadIndInv' /\ ProgramTypeOK' /\ ProgramInv'
    BY <1>2, MainInv, ZenonT(30) DEF DemoIndInv
  <2> QED
    BY <2>1, <2>2, ZenonT(30) DEF DemoIndInv
<1>3. CASE MainLine("disable", "end") /\ uth_preempt_disable /\ UNCHANGED <<threadVars, programVars, progress>>
  <2> DEFINE next == IF preempt_enabled THEN "stop_timer" ELSE "none"
  <2>1. CallStep("none", next) /\ pc = "main" /\ UNCHANGED signalVars
    BY <1>3, ZenonT(30) DEF uth_preempt_disable, MainLine
  <2>2. next \in {"none", "stop_timer"}
    OBVIOUS
  <2> HIDE DEF next
  <2>3. DOMAIN call' = Callers /\ call'[NULL] = next /\ \A t \in Tids : call'[t] = "none"
    BY <2>1, MainCalls, ZenonT(30)
  <2>4. TimerInv' /\ AlarmIsHandled'
    BY <1>0, <2>1, <2>2, <2>3, ZenonT(30) DEF TimerInv, AlarmIsHandled
  <2> QED
    BY <1>3, <2>1, <2>4, DemoStutter, ZenonT(30) DEF CallStep, DemoIndInv
<1> QED
  BY <1>1, <1>2, <1>3, ZenonT(30) DEF demo_main

\* The lines of the threads.
LEMMA DemoWorkInv ==
  ASSUME DemoIndInv, work \/ cpu_burn
  PROVE  DemoIndInv'
<1>1. PICK l, next : /\ Local(l, next) /\ l \notin {"create", "store", "join", "return"}
                     /\ next \notin {"create", "store", "join"}
                     /\ count' = count \/ count' = [count EXCEPT ![Me] = @ + 1]
  <2>1. ASSUME NEW n, for("start", n, "burn")
        PROVE  \E next : /\ Local("start", next) /\ next \in {"burn", "return"}
                         /\ count' = [count EXCEPT ![Me] = @ + 1]
    BY <2>1, ZenonT(30) DEF for
  <2> QED
    BY <2>1, ZenonT(30) DEF work, cpu_burn
<1>2. UNCHANGED <<preemptVars, main_line>>
  BY ZenonT(30) DEF work, cpu_burn, demoVars
<1>3. TimerInv' /\ AlarmIsHandled'
  BY <1>2, SignalsStutter, ZenonT(30)
<1>4. /\ uth_current # Driver /\ uth_current \in Tids /\ count \in [Tids -> Int]
  BY <1>1, ThreadCode, ZenonT(30) DEF Local, Line, Me, Unmasked, DemoIndInv, ThreadIndInv, ProgramInv, ProgramTypeOK
<1>5. \E k \in Int : count' = [count EXCEPT ![uth_current] = k]
  <2>1. CASE count' = count
    <3>1. count[uth_current] \in Int /\ count' = [count EXCEPT ![uth_current] = count[uth_current]]
      BY <1>4, <2>1
    <3> QED
      BY <3>1, ZenonT(30)
  <2>2. CASE count' = [count EXCEPT ![Me] = @ + 1]
    <3>1. count[uth_current] + 1 \in Int /\ count' = [count EXCEPT ![uth_current] = count[uth_current] + 1]
      BY <1>4, <2>2 DEF Me
    <3> QED
      BY <3>1, ZenonT(30)
  <2> QED
    BY <1>1, <2>1, <2>2, ZenonT(30)
<1>6. ThreadIndInv' /\ ProgramTypeOK' /\ ProgramInv'
  BY <1>1, <1>4, <1>5, UserLine, ZenonT(30) DEF DemoIndInv
<1> QED
  BY <1>3, <1>6, ZenonT(30) DEF DemoIndInv

\* The inductive invariant holds when main() starts.
LEMMA DemoInitInv == DemoInit => DemoIndInv
<1> SUFFICES ASSUME DemoInit PROVE DemoIndInv
  OBVIOUS
<1>1. ThreadIndInv /\ ProgramTypeOK /\ ProgramInv
  BY ProgramInitInv, ZenonT(30) DEF DemoInit
<1>2. NULL \in Callers /\ Tids \subseteq Callers
  BY ZenonT(30) DEF Callers
<1>3. TimerInv /\ AlarmIsHandled
  BY <1>2, ZenonT(30) DEF DemoInit, PreemptInit, Idle, TimerInv, AlarmIsHandled
<1> QED
  BY <1>1, <1>3, ZenonT(30) DEF DemoIndInv

\* Every step of the program, SIGALRM included, preserves the inductive invariant.
LEMMA DemoNextInv == DemoIndInv /\ [DemoNext]_demoSysVars => DemoIndInv'
<1> SUFFICES ASSUME DemoIndInv, [DemoNext]_demoSysVars PROVE DemoIndInv'
  OBVIOUS
<1>1. CASE /\ LibraryStep \/ driver \/ return \/ (uth_run_returns /\ UNCHANGED programVars)
           /\ UNCHANGED <<preemptVars, demoVars>>
  <2>1. ThreadIndInv' /\ ProgramTypeOK' /\ ProgramInv'
    BY <1>1, LibraryInv, DriverInv, MainInv, ZenonT(30) DEF DemoIndInv
  <2> QED
    BY <1>1, <2>1, SignalsStutter, ZenonT(30) DEF DemoIndInv, demoVars
<1>2. CASE PreemptionStep /\ UNCHANGED <<threadVars, programVars, demoVars>>
  BY <1>2, SignalsInv, DemoStutter, ZenonT(30) DEF DemoIndInv, demoVars
<1>3. CASE work \/ cpu_burn
  BY <1>3, DemoWorkInv, ZenonT(30)
<1>4. CASE demo_main
  BY <1>4, DemoMainInv, ZenonT(30)
<1>5. CASE Alarm /\ UNCHANGED <<threadVars, programVars, demoVars>>
  <2>1. uth_preempt_handler /\ UNCHANGED preemptVars
    BY <1>5, ZenonT(30) DEF Alarm, DemoIndInv, AlarmIsHandled
  <2>2. ThreadIndInv' /\ ProgramTypeOK' /\ ProgramInv'
    BY <1>5, <2>1, LibraryInv, ZenonT(30) DEF DemoIndInv
  <2> QED
    BY <1>5, <2>1, <2>2, SignalsStutter, ZenonT(30) DEF DemoIndInv, demoVars
<1>6. CASE UNCHANGED demoSysVars
  BY <1>6, DemoStutter, SignalsStutter, ZenonT(30) DEF DemoIndInv, demoSysVars, demoVars
<1> QED
  BY <1>1, <1>2, <1>3, <1>4, <1>5, <1>6, ZenonT(30) DEF DemoNext, DemoCpuStep

\* The library and the demo stay correct together.
THEOREM DemoCorrect == DemoSpec => []DemoIndInv
BY DemoInitInv, DemoNextInv, PTL DEF DemoSpec

\* SIGALRM arrives only where its handler and the stack it runs on are in
\* place, so it never ends the process.
THEOREM DemoAlarmIsHandled == DemoSpec => []AlarmIsHandled
<1>1. DemoIndInv => AlarmIsHandled
  BY DEF DemoIndInv
<1> QED
  BY <1>1, DemoCorrect, PTL
=============================================================================
