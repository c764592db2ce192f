------------------------------ MODULE Semaphore ------------------------------
(***************************************************************************)
(* The counting semaphore of sync.c on top of the scheduler: uth_sem_init, *)
(* uth_sem_wait, uth_sem_post, used by threads that wait, post and yield   *)
(* in any order, with or without preemption.                               *)
(***************************************************************************)
EXTENDS Scheduler, FiniteSets

CONSTANTS
  Sems,
  InitValue,   \* InitValue[s]: the value given to uth_sem_init
  MaxValue     \* bound on the value: clients do not post beyond it

ASSUME SemAssumption ==
  /\ Sems \subseteq Objs
  /\ MaxValue \in Nat
  /\ InitValue \in [Sems -> 0 .. MaxValue]

VARIABLE value   \* value[s]

semSysVars == <<schedVars, value>>

uth_sem_init == value = InitValue

-----------------------------------------------------------------------------
(* uth_sem_wait.                                                           *)

uth_sem_wait(s) == Enter("user", s, "user", "sem_check") /\ UNCHANGED value

\* The condition of the while loop.
sem_check ==
  /\ pc = "sem_check"
  /\ Goto(IF value[Obj] <= 0 THEN "sem_block" ELSE "sem_take")
  /\ UNCHANGED value

sem_block == pc = "sem_block" /\ uth_block(Obj, "sem_swap") /\ UNCHANGED value

sem_take ==
  /\ pc = "sem_take"
  /\ Goto("leave")
  /\ value' = [value EXCEPT ![Obj] = @ - 1]

-----------------------------------------------------------------------------
(* uth_sem_post.                                                           *)

uth_sem_post(s) ==
  /\ value[s] < MaxValue
  /\ Enter("user", s, "user", "post_inc")
  /\ UNCHANGED value

post_inc ==
  /\ pc = "post_inc"
  /\ Goto("post_wake")
  /\ value' = [value EXCEPT ![Obj] = @ + 1]

\* (Mutant: a thread is woken only when the value rises from 0.)
post_wake_if_zero ==
  /\ pc = "post_wake"
  /\ IF value[Obj] = 1 THEN uth_wake_one(Obj, "leave") ELSE Goto("leave")
  /\ UNCHANGED value
post_wake == pc = "post_wake" /\ uth_wake_one(Obj, "leave") /\ UNCHANGED value

-----------------------------------------------------------------------------
SemStep ==
  \/ sem_check
  \/ sem_block
  \/ sem_take
  \/ post_inc
  \/ post_wake

\* What a thread does between its calls.
SemClient ==
  \/ \E s \in Sems : uth_sem_wait(s)
  \/ \E s \in Sems : uth_sem_post(s)
  \/ uth_yield("user", "user") /\ UNCHANGED value

SemInit ==
  /\ SchedInit
  /\ uth_sem_init

SemCpuStep ==
  \/ SchedNext /\ UNCHANGED value
  \/ SemStep
  \/ SemClient

SemNext ==
  \/ SemCpuStep
  \/ Preempt /\ UNCHANGED value

SemSpec == SemInit /\ [][SemNext]_semSysVars

-----------------------------------------------------------------------------
(* Properties.                                                             *)

SemTypeOK ==
  /\ SchedTypeOK
  /\ value \in [Sems -> Int]

\* The threads that are awake in uth_sem_wait(s) and have not taken a permit.
Takers(s) ==
  {t \in Tids : /\ state[t] \in {"READY", "RUNNING"}
                /\ Place(t) \in {"sem_check", "sem_take"}
                /\ obj[t] = s}

\* A permit is never taken twice: the value of a semaphore is never negative,
\* although uth_sem_wait tests it before it may sleep and several threads are
\* woken one by one for several permits.
NeverNegative == \A s \in Sems : value[s] >= 0

\* No permit is stranded while a thread sleeps: there are as many threads on
\* their way to a permit, or about to be woken for one, as there are permits.
NoStrandedPermit ==
  \A s \in Sems : waiters[s] # <<>> =>
    value[s] <= Cardinality(Takers(s))
                  + (IF pc = "post_wake" /\ obj[uth_current] = s THEN 1 ELSE 0)

\* When permits are there and threads sleep, the permits get taken or the
\* sleepers get woken.
PermitTaken ==
  \A s \in Sems :
    (value[s] > 0 /\ waiters[s] # <<>>)
      ~> (value[s] = 0 \/ waiters[s] = <<>> \/ ~ContextIsThreads)

-----------------------------------------------------------------------------
(* The facts that make NeverNegative and NoStrandedPermit inductive.       *)

\* Labels inside uth_sem_wait and uth_sem_post.
SemLabels == {"sem_check", "sem_block", "sem_swap", "sem_take", "post_inc", "post_wake"}

\* A call in progress is on a semaphore, and what it found at sem_check is
\* still so: nobody takes or adds a permit in between.
SemInv ==
  /\ \A t \in Tids : Place(t) \in SemLabels => obj[t] \in Sems
  /\ \A t \in Tids : state[t] = "BLOCKED" /\ obj[t] \in Sems =>
       Place(t) \in {"sem_swap", "sem_check"}
  /\ pc = "sem_take" => value[Obj] > 0
  /\ pc = "sem_block" => value[Obj] <= 0

SemIndInv == SchedInv /\ SemTypeOK /\ NeverNegative /\ NoStrandedPermit /\ SemInv
=============================================================================
