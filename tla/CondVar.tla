------------------------------ MODULE CondVar ------------------------------
(***************************************************************************)
(* The condition variable of sync.c on top of the mutex: uth_cond_init,    *)
(* uth_cond_wait, uth_cond_signal, uth_cond_broadcast.                     *)
(*                                                                         *)
(* uth_cond_wait calls uth_mutex_unlock and uth_mutex_lock inside its own  *)
(* uth_preempt_off ... restore, so the frames of these calls nest.         *)
(***************************************************************************)
EXTENDS Mutex

CONSTANT Conds

ASSUME CondAssumption == Conds \subseteq Objs \ Mutexes

VARIABLE
  cond_args   \* cond_args[t]: the arguments of the uth_cond_wait t is in

condSysVars == <<schedVars, mutexVars, cond_args>>

NoArgs == [cond |-> "none", mutex |-> "none"]

-----------------------------------------------------------------------------
(* uth_cond_wait.                                                          *)

uth_cond_wait(c, m) ==
  /\ Enter("user", "none", "user", "cond_unlock")
  /\ cond_args' = [cond_args EXCEPT ![uth_current] = [cond |-> c, mutex |-> m]]
  /\ UNCHANGED mutexVars

Args == cond_args[uth_current]

cond_unlock == uth_mutex_unlock(Args.mutex, "cond_unlock", "cond_block") /\ UNCHANGED cond_args

cond_block ==
  /\ pc = "cond_block"
  /\ uth_block(Args.cond, "cond_swap")
  /\ UNCHANGED <<mutexVars, cond_args>>

\* The mutex is locked again; nothing reads the arguments after this call.
cond_relock ==
  /\ uth_mutex_lock(Args.mutex, "cond_relock", "leave")
  /\ cond_args' = [cond_args EXCEPT ![uth_current] = NoArgs]

-----------------------------------------------------------------------------
(* uth_cond_signal and uth_cond_broadcast.                                 *)

uth_cond_signal(c) ==
  Enter("user", c, "user", "signal_wake") /\ UNCHANGED <<mutexVars, cond_args>>

signal_wake ==
  /\ pc = "signal_wake"
  /\ uth_wake_one(Obj, "leave")
  /\ UNCHANGED <<mutexVars, cond_args>>

uth_cond_broadcast(c) ==
  Enter("user", c, "user", "broadcast_wake") /\ UNCHANGED <<mutexVars, cond_args>>

\* One round of the loop of uth_wake_all, or its end.
uth_wake_all ==
  /\ pc = "broadcast_wake"
  /\ uth_wake_one(Obj, IF waiters[Obj] = <<>> THEN "leave" ELSE "broadcast_wake")
  /\ UNCHANGED <<mutexVars, cond_args>>

-----------------------------------------------------------------------------
CondStep ==
  \/ cond_unlock
  \/ cond_block
  \/ cond_relock
  \/ signal_wake
  \/ uth_wake_all

\* What a thread does between its calls: it waits with a mutex it holds, and
\* signals and broadcasts at any time.
CondClient ==
  \/ MutexClient /\ UNCHANGED cond_args
  \/ pc = "user" /\ \E c \in Conds : \E m \in held[uth_current] : uth_cond_wait(c, m)
  \/ \E c \in Conds : uth_cond_signal(c)
  \/ \E c \in Conds : uth_cond_broadcast(c)

CondInit ==
  /\ MutexInit
  /\ cond_args = [t \in Tids |-> NoArgs]

CondCpuStep ==
  \/ SchedNext /\ UNCHANGED <<mutexVars, cond_args>>
  \/ MutexStep /\ UNCHANGED cond_args
  \/ CondStep
  \/ CondClient

CondNext ==
  \/ CondCpuStep
  \/ Preempt /\ UNCHANGED <<mutexVars, cond_args>>

CondSpec == CondInit /\ [][CondNext]_condSysVars

\* The processor keeps executing, the timer is periodic (a thread that only
\* signals never gives the processor away), and a thread that holds a mutex
\* and gets to run again and again unlocks it at some time.
CondFairSpec ==
  /\ CondSpec
  /\ WF_condSysVars(CondCpuStep)
  /\ SF_condSysVars(Preempt /\ UNCHANGED <<mutexVars, cond_args>>)
  /\ \A t \in Tids : \A m \in Mutexes :
       SF_condSysVars(/\ uth_current = t /\ m \in held[t]
                      /\ uth_mutex_unlock(m, "user", "user") /\ UNCHANGED cond_args)

-----------------------------------------------------------------------------
(* Properties.                                                             *)

CondTypeOK ==
  /\ MutexTypeOK
  /\ cond_args \in [Tids -> [cond : Conds \cup {"none"}, mutex : Mutexes \cup {"none"}]]

\* Thread t has released the mutex in uth_cond_wait and is not yet on the
\* wait queue of the condition variable.
Exposed(t) ==
  /\ cond_args[t] # NoArgs
  /\ Place(t) \in {"unlock_wake", "leave", "cond_block"}

\* uth_cond_wait releases the mutex and goes to sleep atomically: no other
\* thread runs in between, so a thread that locks the mutex afterwards and
\* signals finds the waiter on the queue.
WaitIsAtomic ==
  \A t \in Tids : Exposed(t) => uth_current = t /\ OnCpu

-----------------------------------------------------------------------------
(* The facts that make WaitIsAtomic inductive.                             *)

CondLabels == {"cond_unlock", "cond_block", "cond_swap", "cond_relock"}

\* The labels of the uth_mutex_unlock that uth_cond_wait calls.
InnerUnlock == {"unlock_free", "unlock_wake", "leave"}

\* A thread has arguments of uth_cond_wait exactly while it is in that call
\* and has not begun to lock the mutex again.  In the inner unlock it has the
\* processor and the frame of that unlock, which returns to cond_block; no
\* other frame does.
WaiterInv(t) ==
  /\ Place(t) \in CondLabels => cond_args[t] # NoArgs
  /\ cond_args[t] # NoArgs =>
       /\ cond_args[t] \in [cond : Conds, mutex : Mutexes]
       /\ Place(t) \in CondLabels \cup InnerUnlock
       /\ Place(t) \in InnerUnlock =>
            t = uth_current /\ OnCpu /\ frames[t][1].ret = "cond_block"
  /\ \A i \in 1 .. Len(frames[t]) : frames[t][i].ret = "cond_block" =>
       i = 1 /\ cond_args[t] # NoArgs /\ Place(t) \in InnerUnlock

CondInv ==
  /\ \A t \in Tids : WaiterInv(t)
  /\ pc = "cond_unlock" => Args.mutex \in held[uth_current]
  /\ pc \in {"signal_wake", "broadcast_wake"} => Obj \in Conds

CondIndInv == MutexIndInv /\ CondTypeOK /\ CondInv
=============================================================================
