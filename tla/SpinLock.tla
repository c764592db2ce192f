------------------------------ MODULE SpinLock ------------------------------
(***************************************************************************)
(* The spinlock of mutex.c on top of the scheduler: uth_spin_init,         *)
(* uth_spin_lock, uth_spin_unlock.  Its code runs unmasked: a thread can   *)
(* be preempted anywhere in it, also while it holds the lock.  Clients     *)
(* unlock only what they hold and do not lock again what they hold.        *)
(***************************************************************************)
EXTENDS Scheduler

CONSTANT Spins

ASSUME SpinAssumption == Spins \subseteq Objs

VARIABLES
  flag,      \* flag[s]: the atomic_flag
  spinning,  \* spinning[t]: the argument of the uth_spin_lock t is in
  held       \* held[t]: the spinlocks t has locked (client)

spinVars == <<flag, spinning, held>>
vars == <<schedVars, spinVars>>

uth_spin_init == flag = [s \in Spins |-> FALSE]

-----------------------------------------------------------------------------
uth_spin_lock(s) ==
  /\ pc = "user"
  /\ Goto("spin_tas")
  /\ spinning' = [spinning EXCEPT ![uth_current] = s]
  /\ UNCHANGED <<flag, held>>

\* The lock was free: the call returns with it.
Got(s) ==
  /\ ~flag[s]
  /\ Goto("user")
  /\ held' = [held EXCEPT ![uth_current] = @ \cup {s}]
  /\ spinning' = [spinning EXCEPT ![uth_current] = "none"]

\* The lock was taken: the processor goes on at label l.
Missed(s, l) == flag[s] /\ Goto(l) /\ UNCHANGED <<spinning, held>>

\* atomic_flag_test_and_set.  (Mutants: a failed attempt does not yield; the
\* flag is only tested.)
Attempt(s, failed) == pc = "spin_tas" /\ (Got(s) \/ Missed(s, failed))
TestAndSet(s, failed) == Attempt(s, failed) /\ flag' = [flag EXCEPT ![s] = TRUE]
spin_tas_busy == TestAndSet(spinning[uth_current], "spin_tas")
spin_tas_test == Attempt(spinning[uth_current], "spin_yield") /\ UNCHANGED flag
spin_tas == TestAndSet(spinning[uth_current], "spin_yield")

spin_yield == uth_yield("spin_yield", "spin_tas") /\ UNCHANGED spinVars

uth_spin_unlock(s) ==
  /\ pc = "user"
  /\ flag' = [flag EXCEPT ![s] = FALSE]
  /\ held' = [held EXCEPT ![uth_current] = @ \ {s}]
  /\ UNCHANGED <<schedVars, spinning>>

-----------------------------------------------------------------------------
\* What a thread does between its calls.
Client ==
  /\ pc = "user"
  /\ \/ \E s \in Spins \ held[uth_current] : uth_spin_lock(s)
     \/ \E s \in held[uth_current] : uth_spin_unlock(s)
     \/ uth_yield("user", "user") /\ UNCHANGED spinVars

Init ==
  /\ SchedInit
  /\ uth_spin_init
  /\ spinning = [t \in Tids |-> "none"]
  /\ held = [t \in Tids |-> {}]

CpuStep ==
  \/ SchedNext /\ UNCHANGED spinVars
  \/ spin_tas
  \/ spin_yield
  \/ Client

Next ==
  \/ CpuStep
  \/ Preempt /\ UNCHANGED spinVars

Spec == Init /\ [][Next]_vars

-----------------------------------------------------------------------------
(* Properties.                                                             *)

\* A spinlock has one holder at a time, wherever threads are preempted, and
\* its flag is set exactly while it is held: an unlock never frees the lock
\* of another thread.
SpinExclusion ==
  \A s \in Spins :
    /\ flag[s] <=> \E t \in Tids : s \in held[t]
    /\ \A t, u \in Tids : s \in held[t] /\ s \in held[u] => t = u

\* The thread that holds s.
Holder(s) == IF \E t \in Tids : s \in held[t] THEN CHOOSE t \in Tids : s \in held[t] ELSE NULL

\* The spinlock is a lock (module Lock): only a free lock is acquired, and only
\* its holder releases it.
SpinIsLock == INSTANCE Lock WITH Locks <- Spins, holder <- [s \in Spins |-> Holder(s)]
ImplementsLock == SpinIsLock!Spec

\* A thread that spins does not keep the holder from the processor: "pure
\* spinning would livelock in a cooperative system".
SpinningLetsHolderRun ==
  \A s \in Spins :
    (flag[s] /\ \E t \in Tids : spinning[t] = s)
      ~> (~flag[s] \/ ~ContextIsThreads)

-----------------------------------------------------------------------------
(* The facts that make SpinExclusion inductive.                            *)

SpinTypeOK ==
  /\ flag \in [Spins -> BOOLEAN]
  /\ spinning \in [Tids -> Spins \cup {"none"}]
  /\ held \in [Tids -> SUBSET Spins]

\* A thread in uth_spin_lock, or in the uth_yield it calls, has its argument.
SpinInv ==
  \A t \in Tids :
    /\ Place(t) \in {"spin_tas", "spin_yield"} => spinning[t] \in Spins
    /\ \A i \in 1 .. Len(frames[t]) :
         frames[t][i].ret \in {"spin_tas", "spin_yield"} => spinning[t] \in Spins

SpinIndInv == SchedInv /\ SpinTypeOK /\ SpinExclusion /\ SpinInv
=============================================================================
