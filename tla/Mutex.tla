-------------------------------- MODULE Mutex --------------------------------
(***************************************************************************)
(* The sleeping mutex of mutex.c on top of the scheduler: uth_mutex_init,  *)
(* uth_mutex_lock, uth_mutex_unlock, used by threads that lock, unlock and *)
(* yield in any order, with or without preemption.                         *)
(*                                                                         *)
(* The threads are clients that keep to the mutex contract: they unlock    *)
(* only what they hold (the assert of uth_mutex_unlock) and do not lock    *)
(* again what they hold (the mutex is not recursive).                      *)
(***************************************************************************)
EXTENDS Scheduler

CONSTANT Mutexes

ASSUME MutexAssumption == Mutexes \subseteq Objs

VARIABLES
  locked,   \* locked[m]: the atomic flag
  owner,    \* owner[m]: TID of the holder, or NULL
  held      \* held[t]: what t locked and has not begun to unlock (client)

mutexVars == <<locked, owner, held>>
mutexSysVars == <<schedVars, mutexVars>>

uth_mutex_init ==
  /\ locked = [m \in Mutexes |-> FALSE]
  /\ owner = [m \in Mutexes |-> NULL]

-----------------------------------------------------------------------------
(* uth_mutex_lock.                                                         *)

\* The call, from label `from'; it returns to label `ret'.
uth_mutex_lock(m, from, ret) == Enter(from, m, ret, "lock_xchg") /\ UNCHANGED mutexVars

\* The atomic exchange: it sets the flag whatever it returns.  (Mutant: the
\* flag is only read.)
lock_xchg_load ==
  /\ pc = "lock_xchg"
  /\ Goto(IF locked[Obj] THEN "lock_block" ELSE "lock_own")
  /\ UNCHANGED mutexVars
lock_xchg ==
  /\ pc = "lock_xchg"
  /\ Goto(IF locked[Obj] THEN "lock_block" ELSE "lock_own")
  /\ locked' = [locked EXCEPT ![Obj] = TRUE]
  /\ UNCHANGED <<owner, held>>

lock_block == pc = "lock_block" /\ uth_block(Obj, "lock_swap") /\ UNCHANGED mutexVars

lock_own ==
  /\ pc = "lock_own"
  /\ Goto("leave")
  /\ owner' = [owner EXCEPT ![Obj] = uth_current]
  /\ held' = [held EXCEPT ![uth_current] = @ \cup {Obj}]
  /\ UNCHANGED locked

-----------------------------------------------------------------------------
(* uth_mutex_unlock.                                                       *)

uth_mutex_unlock(m, from, ret) == Enter(from, m, ret, "unlock_free") /\ UNCHANGED mutexVars

unlock_free ==
  /\ pc = "unlock_free"
  /\ Goto("unlock_wake")
  /\ owner' = [owner EXCEPT ![Obj] = NULL]
  /\ locked' = [locked EXCEPT ![Obj] = FALSE]
  /\ held' = [held EXCEPT ![uth_current] = @ \ {Obj}]

unlock_wake == pc = "unlock_wake" /\ uth_wake_one(Obj, "leave") /\ UNCHANGED mutexVars

-----------------------------------------------------------------------------
MutexStep ==
  \/ lock_xchg
  \/ lock_block
  \/ lock_own
  \/ unlock_free
  \/ unlock_wake

\* What a thread does between its calls.
MutexClient ==
  /\ pc = "user"
  /\ \/ \E m \in Mutexes \ held[uth_current] : uth_mutex_lock(m, "user", "user")
     \/ \E m \in held[uth_current] : uth_mutex_unlock(m, "user", "user")
     \/ uth_yield("user", "user") /\ UNCHANGED mutexVars

MutexInit ==
  /\ SchedInit
  /\ uth_mutex_init
  /\ held = [t \in Tids |-> {}]

MutexCpuStep ==
  \/ SchedNext /\ UNCHANGED mutexVars
  \/ MutexStep
  \/ MutexClient

MutexNext ==
  \/ MutexCpuStep
  \/ Preempt /\ UNCHANGED mutexVars

MutexSpec == MutexInit /\ [][MutexNext]_mutexSysVars

\* The processor keeps executing, and a thread that holds a mutex and gets to
\* run again and again unlocks it at some time.
MutexFairSpec ==
  /\ MutexSpec
  /\ WF_mutexSysVars(MutexCpuStep)
  /\ \A t \in Tids : \A m \in Mutexes :
       SF_mutexSysVars(uth_current = t /\ m \in held[t] /\ uth_mutex_unlock(m, "user", "user"))

-----------------------------------------------------------------------------
(* Properties.                                                             *)

MutexTypeOK ==
  /\ SchedTypeOK
  /\ locked \in [Mutexes -> BOOLEAN]
  /\ owner \in [Mutexes -> Tids \cup {NULL}]
  /\ held \in [Tids -> SUBSET Mutexes]

\* Thread t is in uth_mutex_lock(m), is not asleep, and is about to try the
\* exchange.
Trying(t, m) ==
  /\ state[t] \in {"READY", "RUNNING"}
  /\ Place(t) = "lock_xchg"
  /\ obj[t] = m

\* Mutual exclusion: a mutex a thread has locked is locked and owned by that
\* thread and no other, so the assert of uth_mutex_unlock never fires.
MutualExclusion ==
  \A t \in Tids : \A m \in held[t] : locked[m] /\ owner[m] = t

\* The mutex is a lock (module Lock) whose holder is its owner field: the field
\* changes only from NULL to the thread that gets the mutex, and back when
\* that thread unlocks.
MutexLock == INSTANCE Lock WITH Locks <- Mutexes, holder <- owner
ImplementsLock == MutexLock!Spec

\* No wakeup is lost: whenever a thread sleeps on a mutex, somebody holds the
\* mutex (and wakes a sleeper when unlocking), is about to wake a sleeper, or
\* is awake in uth_mutex_lock and about to try the exchange.
NoLostWakeup ==
  \A m \in Mutexes : waiters[m] # <<>> =>
    \/ \E t \in Tids : m \in held[t]
    \/ pc \in {"lock_own", "unlock_wake"} /\ obj[uth_current] = m
    \/ \E t \in Tids : Trying(t, m)

\* Every thread that sleeps on a mutex is woken: "simple FIFO for fairness"
\* (uth_block).  It need not get the mutex: a thread that locks it before the
\* woken one runs sends that one to the tail of the queue.
SleeperWoken ==
  \A t \in Tids : \A m \in Mutexes :
    t \in Range(waiters[m]) ~> (t \notin Range(waiters[m]) \/ ~ContextIsThreads)

-----------------------------------------------------------------------------
(* The facts about the calls in progress that make MutualExclusion and     *)
(* NoLostWakeup inductive.                                                 *)

\* Labels inside uth_mutex_lock and uth_mutex_unlock.
MutexLabels == {"lock_xchg", "lock_block", "lock_swap", "lock_own", "unlock_free", "unlock_wake"}

\* The call in progress on the processor: a flag seen set has a holder, a flag
\* just taken has none, and what is being unlocked is held.
CallInv ==
  /\ pc \in {"lock_block", "lock_swap"} => locked[obj[uth_current]]
  /\ pc = "lock_own" =>
       locked[obj[uth_current]] /\ \A t \in Tids : obj[uth_current] \notin held[t]
  /\ pc = "unlock_free" => obj[uth_current] \in held[uth_current]

MutexInv ==
  /\ \A t \in Tids : Place(t) \in MutexLabels => obj[t] \in Mutexes
  /\ \A t \in Tids : state[t] = "BLOCKED" /\ obj[t] \in Mutexes =>
       Place(t) \in {"lock_swap", "lock_xchg"}
  /\ \A m \in Mutexes : locked[m] =>
       \/ \E t \in Tids : m \in held[t]
       \/ pc = "lock_own" /\ obj[uth_current] = m
  /\ \A m \in Mutexes : owner[m] # NULL => m \in held[owner[m]]
  /\ CallInv

MutexIndInv == SchedInv /\ MutexTypeOK /\ MutualExclusion /\ NoLostWakeup /\ MutexInv
=============================================================================
