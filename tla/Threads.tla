------------------------------- MODULE Threads -------------------------------
(***************************************************************************)
(* Thread lifecycle (thread.c): uth_create, uth_exit, uth_join, uth_run    *)
(* and the TCB table, on top of the scheduler.                             *)
(*                                                                         *)
(* main() creates threads, calls uth_run, and may do so again after        *)
(* uth_run has returned; main() is not a thread.  Threads create, join,    *)
(* yield and exit in any order.  A slot of tcb_table is never used again,  *)
(* so a TCB is its TID, and NONE / FREED say that the slot has not been    *)
(* filled yet / was cleared by tcb_free.  Return values are not modelled.  *)
(***************************************************************************)
EXTENDS Scheduler

CONSTANT Joins   \* the pairs <<t, u>> such that t may call uth_join(u)

ASSUME ThreadsAssumption == Joins \subseteq Tids \X Tids

VARIABLES
  next_tid,   \* the TID counter
  joiner,     \* joiner[t]: the thread that waits for t, or NULL
  target      \* target[t]: the local TCB pointer of uth_join and uth_create

threadVars == <<next_tid, joiner, target>>
threadSysVars == <<schedVars, threadVars>>

tcb_find(t) == t # NULL /\ state[t] \notin {"NONE", "FREED"}

-----------------------------------------------------------------------------
(* uth_create.                                                             *)

\* tcb_alloc, the initial context, and the push onto the run queue.  (Where
\* realloc or calloc fails the process exits, and the behaviour ends.)
tcb_alloc ==
  /\ next_tid \in Tids
  /\ next_tid' = next_tid + 1
  /\ ctx' = [ctx EXCEPT ![next_tid] = NewContext]
  /\ joiner' = [joiner EXCEPT ![next_tid] = NULL]
  /\ uth_enqueue(next_tid)

uth_create == Enter("user", "none", "create_ret", "create_alloc") /\ UNCHANGED threadVars

create_alloc ==
  /\ pc = "create_alloc"
  /\ tcb_alloc
  /\ target' = [target EXCEPT ![uth_current] = next_tid]
  /\ pc' = "leave"
  /\ UNCHANGED <<uth_current, waiters, obj, frames, masked>>

\* mmap failed; the call returns UTH_TID_INVALID.
create_fail ==
  /\ pc = "create_alloc"
  /\ Goto("leave")
  /\ target' = [target EXCEPT ![uth_current] = NULL]
  /\ UNCHANGED <<next_tid, joiner>>

\* `return t->tid', after uth_preempt_restore.
create_ret == pc = "create_ret" /\ Goto("user") /\ UNCHANGED threadVars

-----------------------------------------------------------------------------
(* uth_exit.                                                               *)

uth_exit == Enter("user", "none", "user", "exit_zombie") /\ UNCHANGED threadVars

\* The thread becomes a zombie and wakes its joiner.  (Mutant: it does not
\* wake it.)
Zombie(j) ==
  /\ pc = "exit_zombie"
  /\ \/ /\ j = NULL
        /\ state' = [state EXCEPT ![uth_current] = "ZOMBIE"]
        /\ UNCHANGED rq
     \/ /\ j # NULL
        /\ state' = [state EXCEPT ![uth_current] = "ZOMBIE", ![j] = "READY"]
        /\ rq' = queue_push(rq, j)
  /\ joiner' = [joiner EXCEPT ![uth_current] = NULL]
  /\ pc' = "exit_swap"
  /\ UNCHANGED <<uth_current, ctx, waiters, obj, frames, masked>>
  /\ UNCHANGED <<next_tid, target>>
exit_zombie_wakes_none == Zombie(NULL)
exit_zombie == Zombie(joiner[uth_current])

-----------------------------------------------------------------------------
(* uth_join.                                                               *)

uth_join(u) ==
  /\ Enter("user", "none", "user", "join_find")
  /\ target' = [target EXCEPT ![uth_current] = u]
  /\ UNCHANGED <<next_tid, joiner>>

\* The thread that uth_join waits for.
Target == target[uth_current]

\* The target is gone, or a zombie to be collected.
join_found ==
  /\ \/ ~tcb_find(Target) /\ Goto("leave")
     \/ tcb_find(Target) /\ state[Target] = "ZOMBIE" /\ Goto("join_collect")
  /\ UNCHANGED threadVars

\* The target is alive: the caller becomes its joiner ...
join_register ==
  /\ tcb_find(Target) /\ state[Target] # "ZOMBIE"
  /\ joiner' = [joiner EXCEPT ![Target] = uth_current]
  /\ pc' = "join_swap"
  /\ UNCHANGED <<uth_current, ctx, waiters, obj, frames, masked>>
  /\ UNCHANGED <<next_tid, target>>

\* ... and sleeps on no queue.  (Mutant: it yields.)
uth_block_noqueue_yields == uth_enqueue(uth_current)
uth_block_noqueue ==
  /\ state' = [state EXCEPT ![uth_current] = "BLOCKED"]
  /\ UNCHANGED rq

join_find ==
  /\ pc = "join_find"
  /\ \/ join_found
     \/ join_register /\ uth_block_noqueue

\* After the wakeup: somebody else may have collected the thread.  (Mutant:
\* the pointer found before the sleep is used.)
join_refind_stale == pc = "join_refind" /\ Goto("join_collect") /\ UNCHANGED threadVars
join_refind ==
  /\ pc = "join_refind"
  /\ Goto(IF tcb_find(Target) THEN "join_collect" ELSE "leave")
  /\ UNCHANGED threadVars

\* The return value is read, and tcb_free unmaps the stack.
join_collect ==
  /\ pc = "join_collect"
  /\ state' = [state EXCEPT ![Target] = "FREED"]
  /\ pc' = "leave"
  /\ UNCHANGED <<uth_current, rq, ctx, waiters, obj, frames, masked>>
  /\ UNCHANGED threadVars

-----------------------------------------------------------------------------
(* main(): SIGALRM finds no current thread and changes nothing.            *)

main_create ==
  /\ pc = "main"
  /\ tcb_alloc
  /\ UNCHANGED <<uth_current, waiters, obj, frames, pc, masked>>
  /\ UNCHANGED target

\* uth_join of a zombie after uth_run has returned.  (main has no TCB to sleep
\* with, so it joins no other thread.)
main_join(u) ==
  /\ pc = "main"
  /\ state[u] = "ZOMBIE"
  /\ state' = [state EXCEPT ![u] = "FREED"]
  /\ UNCHANGED <<uth_current, rq, ctx, waiters, obj, frames, pc, masked>>
  /\ UNCHANGED threadVars

uth_run ==
  /\ pc = "main"
  /\ pc' = "loop"
  /\ masked' = SchedMask
  /\ UNCHANGED <<uth_current, rq, state, ctx, waiters, obj, frames>>
  /\ UNCHANGED threadVars

\* scheduler_loop found no live thread; uc_link resumes main in uth_run with
\* the mask main had.
uth_run_returns ==
  /\ pc = "loop"
  /\ Live = {}
  /\ uth_current' = NULL
  /\ pc' = "main"
  /\ masked' = FALSE
  /\ UNCHANGED <<rq, state, ctx, waiters, obj, frames>>
  /\ UNCHANGED threadVars

-----------------------------------------------------------------------------
ThreadStep ==
  \/ create_alloc
  \/ create_fail
  \/ create_ret
  \/ exit_zombie
  \/ join_find
  \/ join_refind
  \/ join_collect

Main ==
  \/ main_create
  \/ \E u \in Tids : main_join(u)
  \/ uth_run
  \/ uth_run_returns

\* What a thread does between its calls.  At most one joiner is supported:
\* clients do not join a thread that has a registered joiner.
ThreadClient ==
  \/ uth_create
  \/ uth_exit
  \/ \E u \in Tids :
       /\ <<uth_current, u>> \in Joins
       /\ joiner[u] = NULL
       /\ uth_join(u)
  \/ uth_yield("user", "user") /\ UNCHANGED threadVars

ThreadInit ==
  /\ uth_current = NULL
  /\ rq = <<>>
  /\ state = [t \in Tids |-> "NONE"]
  /\ ctx = [t \in Tids |-> NewContext]
  /\ waiters = [o \in Objs |-> <<>>]
  /\ obj = [t \in Tids |-> "none"]
  /\ frames = [t \in Tids |-> <<>>]
  /\ pc = "main"
  /\ masked = FALSE
  /\ next_tid = 1
  /\ joiner = [t \in Tids |-> NULL]
  /\ target = [t \in Tids |-> NULL]

ThreadCpuStep ==
  \/ SchedNext /\ UNCHANGED threadVars
  \/ ThreadStep
  \/ Main
  \/ ThreadClient

ThreadNext ==
  \/ ThreadCpuStep
  \/ Preempt /\ UNCHANGED threadVars

ThreadSpec == ThreadInit /\ [][ThreadNext]_threadSysVars

\* The processor keeps executing.  The timer is periodic and a SIGALRM that
\* finds the signal masked stays pending until it is unmasked, so a program
\* that is preemptible again and again is preempted again and again.
ThreadFairSpec == ThreadSpec /\ WF_threadSysVars(ThreadCpuStep) /\ SF_threadSysVars(Preempt /\ UNCHANGED threadVars)

-----------------------------------------------------------------------------
(* Properties.                                                             *)

ThreadTypeOK ==
  /\ SchedTypeOK
  /\ next_tid \in 1 .. MaxTid + 1
  /\ joiner \in [Tids -> Tids \cup {NULL}]
  /\ target \in [Tids -> Tids \cup {NULL}]

\* Thread t sleeps on no wait queue.
AsleepInJoin(t) == state[t] = "BLOCKED" /\ obj[t] = "none"

\* A thread that sleeps on no wait queue sleeps in uth_join: it is the
\* registered joiner of its target, and the target is alive, so that its
\* uth_exit will wake the sleeper.
JoinerIsRegistered ==
  \A t \in Tids : AsleepInJoin(t) =>
    /\ state[target[t]] \in {"READY", "RUNNING", "BLOCKED"}
    /\ joiner[target[t]] = t

\* tcb_free is applied only to a zombie that has left its stack for good: a
\* stack is never unmapped under its thread, and no TCB is freed twice.
FreesOnlyDeadThreads ==
  pc = "join_collect" =>
    LET u == target[uth_current] IN state[u] = "ZOMBIE" /\ ctx[u].pc = "dead"

\* The state machine of uthreads_internal.h, with the RUNNING -> READY of
\* uth_yield and of preemption.  In particular a zombie is never scheduled
\* again and a TCB is never revived.
LifecycleStep ==
  \A t \in Tids : state'[t] # state[t] =>
    <<state[t], state'[t]>> \in
      {<<"NONE", "READY">>, <<"READY", "RUNNING">>, <<"RUNNING", "READY">>,
       <<"RUNNING", "BLOCKED">>, <<"BLOCKED", "READY">>,
       <<"RUNNING", "ZOMBIE">>, <<"ZOMBIE", "FREED">>}
Lifecycle == [][LifecycleStep]_threadSysVars

\* uth_create reads t->tid while the TCB of the new thread still exists.
CreateReadsLiveTcb ==
  pc = "create_ret" /\ target[uth_current] # NULL => tcb_find(target[uth_current])

\* Round robin: every READY thread gets the processor.
RoundRobin ==
  \A t \in Tids : state[t] = "READY" ~> uth_current = t

\* A thread that waits in uth_join for a thread that has exited returns.
JoinReturns ==
  \A t \in Tids :
    (/\ Place(t) = "join_refind"
     /\ target[t] \in Tids
     /\ state[target[t]] \in {"ZOMBIE", "FREED"}) ~> Place(t) = "user"

-----------------------------------------------------------------------------
(* The facts that make the invariants inductive.                           *)

\* Labels of uth_join, and those at which it has found a thread.
JoinLabels == {"join_find", "join_swap", "join_refind", "join_collect"}
FoundLabels == JoinLabels \ {"join_find"}

ThreadInv ==
  \* A slot that is not filled yet.
  /\ \A t \in Tids : state[t] = "NONE" <=> t >= next_tid
  /\ \A t \in Tids : state[t] = "NONE" => frames[t] = <<>>
  \* Threads that sleep on no queue are in uth_join, and zombies in uth_exit.
  /\ \A t \in Tids : AsleepInJoin(t) => Place(t) \in {"join_swap", "join_refind"}
  /\ \A t \in Tids : state[t] \in {"ZOMBIE", "FREED"} => Place(t) \in {"exit_swap", "dead"}
  \* A registered joiner sleeps, and only the exit of its target wakes it.
  /\ \A u \in Tids : joiner[u] # NULL => AsleepInJoin(joiner[u]) /\ target[joiner[u]] = u
  /\ \A t \in Tids : Place(t) \in JoinLabels => obj[t] = "none"
  /\ \A t \in Tids : Place(t) \in FoundLabels => target[t] \in Tids
  /\ \A t \in Tids : /\ Place(t) \in {"join_swap", "join_refind"}
                     /\ state[t] \in {"READY", "RUNNING"}
                     => state[target[t]] \in {"ZOMBIE", "FREED"}
  /\ pc = "join_find" /\ Target # NULL => joiner[Target] = NULL

ThreadIndInv ==
  SchedInv /\ ThreadTypeOK /\ JoinerIsRegistered /\ FreesOnlyDeadThreads /\ ThreadInv
=============================================================================
