----------------------------- MODULE PreemptDemo -----------------------------
(***************************************************************************)
(* examples/preempt_demo.c: main enables preemption, runs two threads that *)
(* compute and never yield, and disables it again.                         *)
(***************************************************************************)
EXTENDS Program, Preemption

CONSTANT WORK_ITERS   \* iterations of each thread

ASSUME PreemptDemoAssumption == WORK_ITERS \in Nat

VARIABLES
  main_line,   \* where main is
  progress     \* progress[0] is progress_a, progress[1] is progress_b

demoVars == <<main_line, progress>>
demoSysVars == <<schedVars, threadVars, programVars, preemptVars, demoVars>>

-----------------------------------------------------------------------------
(* The threads.                                                            *)

\* The end of cpu_burn, a loop that takes many slices.
cpu_burn == Local("burn", "progress") /\ UNCHANGED <<count, preemptVars, demoVars>>

work ==
  \/ /\ for("start", WORK_ITERS, "burn")
     /\ UNCHANGED <<preemptVars, demoVars>>
  \/ /\ Local("progress", "start")
     /\ progress' = [progress EXCEPT ![arg[Me]] = @ + 1]
     /\ UNCHANGED <<count, preemptVars, main_line>>

-----------------------------------------------------------------------------
(* main().                                                                 *)

\* main has returned from the call before and goes from line l to `next'.
MainLine(l, next) ==
  /\ pc = "main"
  /\ call[NULL] = "none"
  /\ main_line = l
  /\ main_line' = next

\* The interval is 10 ms in the program, and any of Intervals here.
demo_main ==
  \/ /\ MainLine("enable", "create")
     /\ \E ms \in Intervals : uth_preempt_enable(ms)
     /\ UNCHANGED <<threadVars, programVars, progress>>
  \/ /\ \/ MainLine("create", "run") /\ main_create
        \/ MainLine("run", "disable") /\ uth_run
     /\ UNCHANGED <<programVars, preemptVars, progress>>
  \/ /\ MainLine("disable", "end")
     /\ uth_preempt_disable
     /\ UNCHANGED <<threadVars, programVars, progress>>

-----------------------------------------------------------------------------
DemoInit ==
  /\ ProgramInit
  /\ PreemptInit
  /\ main_line = "enable"
  /\ progress = [i \in Indices |-> 0]

\* Every step of the processor except the end of cpu_burn.
DemoCpuStep ==
  /\ exited = "no"
  /\ \/ LibraryStep /\ UNCHANGED <<preemptVars, demoVars>>
     \/ (driver \/ return) /\ UNCHANGED <<preemptVars, demoVars>>
     \/ uth_run_returns /\ UNCHANGED <<programVars, preemptVars, demoVars>>
     \/ PreemptionStep /\ UNCHANGED <<threadVars, programVars, demoVars>>
     \/ work
     \/ demo_main

DemoNext ==
  \/ DemoCpuStep
  \/ exited = "no" /\ cpu_burn
  \/ Alarm /\ UNCHANGED <<threadVars, programVars, demoVars>>

DemoSpec == DemoInit /\ [][DemoNext]_demoSysVars

\* The processor keeps executing, the timer is periodic, and it is slow enough
\* for a thread that gets to run again and again to execute its next step.
\* Nothing is assumed of how long cpu_burn takes.
DemoFairSpec ==
  /\ DemoSpec
  /\ WF_demoSysVars(DemoCpuStep)
  /\ SF_demoSysVars(Alarm /\ UNCHANGED <<threadVars, programVars, demoVars>>)
  /\ \A t \in Tids : SF_demoSysVars(uth_current = t /\ pc \in Unmasked /\ DemoCpuStep)

-----------------------------------------------------------------------------
(* Properties.                                                             *)

\* "NEITHER thread calls uth_yield() ... both threads make progress": a thread
\* that is READY gets the processor even if the other one never ends its
\* cpu_burn.
NobodyHogs == RoundRobin

\* If cpu_burn ends for a thread that gets slices again and again, the program
\* ends with preemption disabled and the progress main expects of the threads
\* that could be created, unless the process gave up in uth_preempt_enable or a
\* context was lost.
DemoFinishes ==
  (\A t \in Tids : SF_demoSysVars(uth_current = t /\ exited = "no" /\ cpu_burn))
    => <>(\/ exited = "exit" \/ ~ContextIsThreads
          \/ /\ main_line = "end" /\ call[NULL] = "none"
             /\ ~preempt_enabled /\ timer = 0
             /\ \A i \in Indices : tids[i] # NULL => progress[i] = WORK_ITERS)

-----------------------------------------------------------------------------
(* The facts that make AlarmIsHandled inductive.                           *)

\* Only main is ever in uth_preempt_enable or uth_preempt_disable.  The handler
\* and its stack are in place before the timer is started and until it is
\* stopped.
TimerInv ==
  /\ DOMAIN call = Callers
  /\ \A t \in Tids : call[t] = "none"
  /\ call[NULL] \in {"sigaction", "setitimer"} => alt_stack
  /\ call[NULL] = "setitimer" => handler = "uth"
  /\ call[NULL] = "default" => timer = 0

DemoIndInv == ThreadIndInv /\ ProgramTypeOK /\ ProgramInv /\ TimerInv /\ AlarmIsHandled
=============================================================================
