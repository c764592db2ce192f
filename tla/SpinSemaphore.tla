---------------------------- MODULE SpinSemaphore ----------------------------
(***************************************************************************)
(* Threads that use both spinlocks and semaphores.  A thread can be        *)
(* preempted with a spinlock in its hands and post a semaphore, so the     *)
(* threads that spin, sleep and are woken share the run queue.             *)
(*                                                                         *)
(* A thread does not call uth_sem_wait while it holds a spinlock: it would *)
(* go to sleep with it.                                                    *)
(***************************************************************************)
EXTENDS SpinLock, Semaphore

spinSemVars == <<schedVars, spinVars, value>>

\* What a thread does between its calls.
SpinSemClient ==
  \/ Client /\ UNCHANGED value
  \/ /\ pc = "user"
     /\ \/ \E s \in Sems : held[uth_current] = {} /\ uth_sem_wait(s)
        \/ \E s \in Sems : uth_sem_post(s)
     /\ UNCHANGED spinVars

SpinSemInit == Init /\ uth_sem_init

SpinSemCpuStep ==
  \/ SchedNext /\ UNCHANGED <<spinVars, value>>
  \/ (spin_tas \/ spin_yield) /\ UNCHANGED value
  \/ SemStep /\ UNCHANGED spinVars
  \/ SpinSemClient

SpinSemNext ==
  \/ SpinSemCpuStep
  \/ Preempt /\ UNCHANGED <<spinVars, value>>

SpinSemSpec == SpinSemInit /\ [][SpinSemNext]_spinSemVars

\* The processor keeps executing.  A thread that runs on and on between its
\* calls yields at some time, and one that holds a spinlock and gets to run
\* again and again unlocks it: with these clients nothing depends on the timer.
SpinSemFairSpec ==
  /\ SpinSemSpec
  /\ WF_spinSemVars(SpinSemCpuStep)
  /\ SF_spinSemVars(uth_yield("user", "user") /\ UNCHANGED <<spinVars, value>>)
  /\ \A s \in Spins :
       SF_spinSemVars(pc = "user" /\ s \in held[uth_current] /\ uth_spin_unlock(s) /\ UNCHANGED value)
=============================================================================
