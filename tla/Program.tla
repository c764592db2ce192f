------------------------------- MODULE Program -------------------------------
(***************************************************************************)
(* What the programs in examples/ share.  main() creates a driver thread   *)
(* and calls uth_run; driver() creates NThreads threads, one after the     *)
(* other, then joins them in the same order, and returns.                  *)
(*                                                                         *)
(* line[t] is where thread t is in its function.  It is advanced by the    *)
(* step that makes the call of that line, so that while t is inside the    *)
(* library line[t] is where the call returns to.  Steps of a function are  *)
(* steps at label "user": SIGALRM may arrive between any two of them.      *)
(***************************************************************************)
EXTENDS Threads

CONSTANT NThreads   \* the number of threads driver() creates

ASSUME ProgramAssumption == NThreads \in Nat \ {0} /\ MaxTid = NThreads + 1

VARIABLES
  line,    \* line[t]: where thread t is in its function
  count,   \* count[t]: its loop counter
  arg,     \* arg[t]: which of the threads of driver() t is, from 0
  tids     \* tids[i], of driver()

programVars == <<line, count, arg, tids>>

\* The driver is the first thread main creates.
Driver == 1

Indices == 0 .. NThreads - 1

\* The thread in its own code.
Me == uth_current

\* Thread Me goes from line l of its function to line `next'.
Line(l, next) ==
  /\ pc = "user"
  /\ line[Me] = l
  /\ line' = [line EXCEPT ![Me] = next]

\* A line that makes no call and changes only variables of the program.
Local(l, next) == Line(l, next) /\ UNCHANGED <<schedVars, threadVars, arg, tids>>

\* The for loop at line l: `next' if the body is executed once more.
for(l, n, next) ==
  /\ Local(l, IF count[Me] < n THEN next ELSE "return")
  /\ count' = [count EXCEPT ![Me] = @ + 1]

\* A call of uth_yield.
yield(l, next) == Line(l, next) /\ uth_yield("user", "user") /\ UNCHANGED <<threadVars, count, arg, tids>>

\* The function returns, and thread_trampoline calls uth_exit.
return == Line("return", "return") /\ uth_exit /\ UNCHANGED <<count, arg, tids>>

-----------------------------------------------------------------------------
(* driver() and main().                                                    *)

driver_create ==
  /\ Me = Driver
  /\ Line("create", "store")
  /\ uth_create
  /\ UNCHANGED <<count, arg, tids>>

\* tids[i] = uth_create(...), and the next i.
driver_store ==
  /\ Line("store", IF count[Me] + 1 = NThreads THEN "join" ELSE "create")
  /\ tids' = [tids EXCEPT ![count[Me]] = target[Me]]
  /\ count' = [count EXCEPT ![Me] = (@ + 1) % NThreads]
  /\ UNCHANGED <<schedVars, threadVars, arg>>

driver_join ==
  /\ Line("join", IF count[Me] + 1 = NThreads THEN "return" ELSE "join")
  /\ uth_join(tids[count[Me]])
  /\ count' = [count EXCEPT ![Me] = (@ + 1) % NThreads]
  /\ UNCHANGED <<arg, tids>>

driver == driver_create \/ driver_store \/ driver_join

\* The new thread gets its argument.
start_thread ==
  /\ create_alloc
  /\ arg' = [arg EXCEPT ![next_tid] = count[Me]]
  /\ UNCHANGED <<line, count, tids>>

\* main() creates the driver and calls uth_run once.
main ==
  /\ \/ main_create /\ next_tid = Driver
     \/ uth_run /\ state[Driver] = "READY"
     \/ uth_run_returns
  /\ UNCHANGED programVars

-----------------------------------------------------------------------------
ProgramInit ==
  /\ ThreadInit
  /\ line = [t \in Tids |-> IF t = Driver THEN "create" ELSE "start"]
  /\ count = [t \in Tids |-> 0]
  /\ arg = [t \in Tids |-> 0]
  /\ tids = [i \in Indices |-> NULL]

\* Steps inside the scheduler and the thread functions of the library.
LibraryStep ==
  \/ SchedNext /\ UNCHANGED <<threadVars, programVars>>
  \/ start_thread
  \/ /\ create_fail \/ create_ret \/ exit_zombie \/ join_find \/ join_refind \/ join_collect
     /\ UNCHANGED programVars

\* Steps that are the same in every program.
ProgramStep == LibraryStep \/ driver \/ return \/ main

-----------------------------------------------------------------------------
(* Properties.                                                             *)

\* uth_create never failed.
AllCreated == \A i \in Indices : tids[i] # NULL

\* scheduler_loop never finds threads that are alive and all asleep.
NeverAllAsleep == pc = "loop" /\ Live # {} => rq # <<>>

\* uth_run has returned to main.
Ended == pc = "main" /\ state[Driver] = "ZOMBIE"

-----------------------------------------------------------------------------
(* What holds of the driver and of its threads in every program.           *)

ProgramTypeOK ==
  /\ DOMAIN line = Tids
  /\ count \in [Tids -> Int]
  /\ arg \in [Tids -> Indices]
  /\ tids \in [Indices -> Tids \cup {NULL}]

\* Only the driver creates and joins threads, and not itself; a thread exits
\* when its function has returned, and a thread that does not exist yet has
\* not started.
ProgramInv ==
  /\ line[Driver] \in {"create", "store", "join", "return"}
  /\ \A t \in Tids \ {Driver} : line[t] \notin {"create", "store", "join"}
  /\ count[Driver] \in Indices
  /\ target[Driver] # Driver /\ \A i \in Indices : tids[i] # Driver
  /\ \A t \in Tids : Place(t) \in JoinLabels \cup {"create_alloc"} => t = Driver
  /\ \A t \in Tids : Place(t) \in {"exit_zombie", "exit_swap", "dead"} => line[t] = "return"
  /\ \A t \in Tids \ {Driver} : state[t] = "NONE" => line[t] = "start"
=============================================================================
