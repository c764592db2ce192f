------------------------------ MODULE Scheduler ------------------------------
(***************************************************************************)
(* The machine every uthreads program runs on: ONE processor, one process  *)
(* signal mask, the run queue and scheduler_loop() of thread.c, the wait   *)
(* queues behind uth_block()/uth_wake_one(), uth_yield(), and the SIGALRM  *)
(* handler of preempt.c.                                                   *)
(*                                                                         *)
(* `pc' is the program counter of the processor.  It is either in          *)
(* main()/uth_run ("main"), in scheduler_loop ("loop"), inside the         *)
(* swapcontext() call of scheduler_loop ("swapcontext"), or in code of the *)
(* thread uth_current (every other label).  The other threads are saved    *)
(* contexts: ctx[t] holds the label at which t resumes and the signal mask *)
(* it resumes with.  The context of the thread that is on the processor is *)
(* stale, exactly as in the program.                                       *)
(*                                                                         *)
(* The modules that extend this one (Threads, Mutex, ...) add the steps of *)
(* one part of the API.  A step is what runs between two points at which a *)
(* SIGALRM would be noticed, so that "this section runs with preemption    *)
(* off" is something to check and not something the model assumes.         *)
(***************************************************************************)
EXTENDS Integers, Sequences, Functions

CONSTANTS
  MaxTid,      \* bound on the calls of uth_create: TIDs are 1 .. MaxTid
  Objs,        \* the synchronisation objects; each owns a wait queue
  Preemptive   \* TRUE iff the timer of uth_preempt_enable is running

ASSUME SchedulerAssumption ==
  /\ MaxTid \in Nat \ {0}
  /\ Preemptive \in BOOLEAN
  /\ "none" \notin Objs

Tids == 1 .. MaxTid

\* The null TCB pointer, and UTH_TID_INVALID.
NULL == 0

VARIABLES
  uth_current,  \* the thread on the processor, or NULL
  rq,           \* run queue, rq_head first
  state,        \* state[t]: the uth_state_t of TCB t, or NONE / FREED
  ctx,          \* ctx[t]: the saved ucontext of t (label and signal mask)
  waiters,      \* waiters[o]: the wait queue of object o
  obj,          \* obj[t]: the object of the API call t is in, or "none"
  frames,       \* frames[t]: stack of API calls t is in (`old', return label)
  pc,           \* where the processor is
  masked        \* TRUE iff SIGALRM is in the process signal mask

schedVars == <<uth_current, rq, state, ctx, waiters, obj, frames, pc, masked>>

TCBStates == {"NONE", "READY", "RUNNING", "BLOCKED", "ZOMBIE", "FREED"}

\* Labels of the code that is not code of a thread.
SchedLabels == {"main", "loop", "swapcontext"}

\* Labels of thread code that runs outside uth_preempt_off ... restore.
Unmasked == {"user", "create_ret", "spin_tas", "spin_yield"}

\* Labels at which SIGALRM can find a current thread.
Preemptible == Unmasked \cup {"swapcontext"}

\* Labels an API call returns to; the last two are in uth_cond_wait.
ReturnLabels == Unmasked \cup {"cond_block", "leave"}

\* The swapcontext(&t->ctx, &uth_sched_ctx) calls of the library, each with
\* the label at which the thread goes on when it is resumed.  (Mutant: the
\* while loops around uth_block are ifs.)
SwapTo_if == [yield_swap  |-> "leave",
              lock_swap   |-> "lock_own",
              sem_swap    |-> "sem_take",
              ticket_swap |-> "leave",
              cond_swap   |-> "cond_relock",
              join_swap   |-> "join_refind",
              exit_swap   |-> "dead"]
SwapTo == [yield_swap  |-> "leave",         \* uth_yield
           lock_swap   |-> "lock_xchg",     \* uth_block in uth_mutex_lock
           sem_swap    |-> "sem_check",     \* uth_block in uth_sem_wait
           ticket_swap |-> "ticket_check",  \* uth_block in uth_ticket_lock
           cond_swap   |-> "cond_relock",   \* uth_block in uth_cond_wait
           join_swap   |-> "join_refind",   \* uth_block_noqueue in uth_join
           exit_swap   |-> "dead"]          \* uth_exit: never resumed

\* The labels a context can be saved with.
Resumable == Preemptible \cup {SwapTo[l] : l \in DOMAIN SwapTo}

\* Labels of the sections that run between uth_preempt_off and restore.
Sections ==
  {"leave", "yield_push",
   "create_alloc", "exit_zombie", "dead", "join_find", "join_refind", "join_collect",
   "lock_xchg", "lock_block", "lock_own", "unlock_free", "unlock_wake",
   "ticket_take", "ticket_check", "ticket_block", "serve", "serve_wake",
   "sem_check", "sem_block", "sem_take", "post_inc", "post_wake",
   "cond_unlock", "cond_block", "cond_relock", "signal_wake", "broadcast_wake"}

Labels == SchedLabels \cup Unmasked \cup DOMAIN SwapTo \cup Sections

\* A context built by uth_create: it starts in the thread function, with
\* SIGALRM deleted from the saved mask.  (Mutant: sigdelset is missing.)
NewContext_masked == [pc |-> "user", mask |-> TRUE]
NewContext == [pc |-> "user", mask |-> FALSE]

\* The mask saved in uth_sched_ctx: scheduler_loop blocks SIGALRM first.
\* (Mutant: it does not.)
SchedMask_unblocked == FALSE
SchedMask == TRUE

-----------------------------------------------------------------------------
(* Queues.                                                                 *)

\* (Mutant: the thread is pushed at the head.)
queue_push_front(q, t) == <<t>> \o q
queue_push(q, t) == Append(q, t)

uth_enqueue(t) ==
  /\ state' = [state EXCEPT ![t] = "READY"]
  /\ rq' = queue_push(rq, t)

\* uth_block up to its swapcontext; l is the label of that swapcontext.
\* The model notes the object whose queue the thread is on.  (Mutant: the
\* wait queue is LIFO.)
uth_block_lifo(o, l) ==
  /\ state' = [state EXCEPT ![uth_current] = "BLOCKED"]
  /\ waiters' = [waiters EXCEPT ![o] = <<uth_current>> \o @]
  /\ obj' = [obj EXCEPT ![uth_current] = o]
  /\ pc' = l
  /\ UNCHANGED <<uth_current, rq, ctx, frames, masked>>
uth_block(o, l) ==
  /\ state' = [state EXCEPT ![uth_current] = "BLOCKED"]
  /\ waiters' = [waiters EXCEPT ![o] = Append(@, uth_current)]
  /\ obj' = [obj EXCEPT ![uth_current] = o]
  /\ pc' = l
  /\ UNCHANGED <<uth_current, rq, ctx, frames, masked>>

\* The object of the call in progress.
Obj == obj[uth_current]

\* The processor goes on at label l; nothing else of the machine changes.
Goto(l) ==
  /\ pc' = l
  /\ UNCHANGED <<uth_current, rq, state, ctx, waiters, obj, frames, masked>>

\* Wake the first waiter of o, if there is one, and go on at label l.
\* (Mutant: nobody is woken.)
uth_wake_one_none(o, l) == Goto(l)
uth_wake_one(o, l) ==
  \/ waiters[o] = <<>> /\ Goto(l)
  \/ /\ waiters[o] # <<>>
     /\ waiters' = [waiters EXCEPT ![o] = Tail(@)]
     /\ uth_enqueue(Head(waiters[o]))
     /\ pc' = l
     /\ UNCHANGED <<uth_current, ctx, obj, frames, masked>>

-----------------------------------------------------------------------------
(* Signal mask.  A call of the API pushes a frame with the mask it saved   *)
(* and the label it returns to; calls nest (uth_cond_wait calls            *)
(* uth_mutex_unlock), and so do their frames.                              *)

\* (Mutant: SIGALRM is not blocked.)
uth_preempt_off_nop(ret, l) ==
  /\ frames' = [frames EXCEPT ![uth_current] =
                  <<[old |-> masked, ret |-> ret]>> \o @]
  /\ pc' = l
  /\ UNCHANGED masked
uth_preempt_off(ret, l) ==
  /\ frames' = [frames EXCEPT ![uth_current] =
                  <<[old |-> masked, ret |-> ret]>> \o @]
  /\ masked' = TRUE
  /\ pc' = l

\* The processor calls the API at label `from': the call is about object o,
\* starts with uth_preempt_off, goes on at l and returns to ret.
Enter(from, o, ret, l) ==
  /\ pc = from
  /\ uth_preempt_off(ret, l)
  /\ obj' = [obj EXCEPT ![uth_current] = o]
  /\ UNCHANGED <<uth_current, rq, state, ctx, waiters>>

\* The end of the call that is about no object any more.
Return ==
  /\ pc = "leave"
  /\ pc' = Head(frames[uth_current]).ret
  /\ frames' = [frames EXCEPT ![uth_current] = Tail(@)]
  /\ obj' = [obj EXCEPT ![uth_current] = "none"]
  /\ UNCHANGED <<uth_current, rq, state, ctx, waiters>>

\* (Mutants: the mask is not restored; SIGALRM is unblocked even if it was
\* blocked at the call.)
uth_preempt_restore_keeps == Return /\ UNCHANGED masked
uth_preempt_restore_unblocks == Return /\ masked' = FALSE
uth_preempt_restore == Return /\ masked' = Head(frames[uth_current]).old

-----------------------------------------------------------------------------
(* The scheduler.                                                          *)

\* TCBs in the table that are not zombies: what scheduler_loop and
\* uth_active_count count.  (Mutant: zombies are counted.)
Live_zombies == {t \in Tids : state[t] \notin {"NONE", "FREED"}}
Live == {t \in Tids : state[t] \notin {"NONE", "ZOMBIE", "FREED"}}

\* Pop the next READY thread and enter swapcontext(&uth_sched_ctx,
\* &next->ctx), which installs the thread's signal mask first.
Dispatch ==
  /\ pc = "loop"
  /\ Live # {}
  /\ rq # <<>>
  /\ rq' = Tail(rq)
  /\ uth_current' = Head(rq)
  /\ state' = [state EXCEPT ![Head(rq)] = "RUNNING"]
  /\ masked' = ctx[Head(rq)].mask
  /\ pc' = "swapcontext"
  /\ UNCHANGED <<ctx, waiters, obj, frames>>

\* ... and then loads the thread's registers from its context.  A context
\* that was itself captured inside this call leads back to this label.
LoadRegisters == pc = "swapcontext" /\ Goto(ctx[uth_current].pc)

\* No READY thread although some are alive: the loop spins.
Spin ==
  /\ pc = "loop"
  /\ Live # {}
  /\ rq = <<>>
  /\ uth_current' = NULL
  /\ UNCHANGED <<rq, state, ctx, waiters, obj, frames, pc, masked>>

\* A thread gives up the processor: swapcontext(&t->ctx, &uth_sched_ctx).
SwapOut ==
  /\ pc \in DOMAIN SwapTo
  /\ ctx' = [ctx EXCEPT ![uth_current] = [pc |-> SwapTo[pc], mask |-> masked]]
  /\ masked' = SchedMask
  /\ pc' = "loop"
  /\ UNCHANGED <<uth_current, rq, state, waiters, obj, frames>>

\* SIGALRM is delivered.  The handler does nothing without a current thread;
\* otherwise it saves the interrupted context and enters the scheduler.
uth_preempt_handler ==
  /\ ~masked
  /\ uth_current # NULL
  /\ ctx' = [ctx EXCEPT ![uth_current] = [pc |-> pc, mask |-> masked]]
  /\ uth_enqueue(uth_current)
  /\ uth_current' = NULL
  /\ masked' = SchedMask
  /\ pc' = "loop"
  /\ UNCHANGED <<waiters, obj, frames>>

Preempt == Preemptive /\ uth_preempt_handler

-----------------------------------------------------------------------------
(* uth_yield.                                                              *)

\* Called from label `from', returns to label `ret'.
uth_yield(from, ret) == Enter(from, "none", ret, "yield_push")

uth_yield_push ==
  /\ pc = "yield_push"
  /\ uth_enqueue(uth_current)
  /\ pc' = "yield_swap"
  /\ UNCHANGED <<uth_current, ctx, waiters, obj, frames, masked>>

-----------------------------------------------------------------------------
\* What the processor does by itself, whatever part of the API is in use.
SchedNext ==
  \/ Dispatch
  \/ LoadRegisters
  \/ Spin
  \/ SwapOut
  \/ uth_yield_push
  \/ uth_preempt_restore

\* main() created threads 1 .. MaxTid and called uth_run; scheduler_loop has
\* blocked SIGALRM.
SchedInit ==
  /\ uth_current = NULL
  /\ rq = [i \in Tids |-> i]
  /\ state = [t \in Tids |-> "READY"]
  /\ ctx = [t \in Tids |-> NewContext]
  /\ waiters = [o \in Objs |-> <<>>]
  /\ obj = [t \in Tids |-> "none"]
  /\ frames = [t \in Tids |-> <<>>]
  /\ pc = "loop"
  /\ masked = TRUE

SchedTypeOK ==
  /\ uth_current \in Tids \cup {NULL}
  /\ rq \in Seq(Tids)
  /\ state \in [Tids -> TCBStates]
  /\ ctx \in [Tids -> [pc : Resumable, mask : BOOLEAN]]
  /\ waiters \in [Objs -> Seq(Tids)]
  /\ obj \in [Tids -> Objs \cup {"none"}]
  /\ frames \in [Tids -> Seq([old : BOOLEAN, ret : ReturnLabels])]
  /\ pc \in Labels
  /\ masked \in BOOLEAN

-----------------------------------------------------------------------------
(* Properties of the machine.                                              *)

\* Code of a thread is on the processor.
OnCpu == pc \notin SchedLabels

\* The label thread t is at.
Place(t) == IF t = uth_current /\ OnCpu THEN pc ELSE ctx[t].pc

\* "A TCB can live in at most one queue at a time" (uthreads_internal.h):
\* a thread is on the run queue exactly when it is READY and then once, so
\* that the assert of scheduler_loop holds; it is on the wait queue of an
\* object exactly when it is BLOCKED in a call on that object.
QueueDiscipline ==
  /\ IsInjective(rq)
  /\ \A t \in Tids : t \in Range(rq) <=> state[t] = "READY"
  /\ \A o \in Objs : IsInjective(waiters[o])
  /\ \A o \in Objs : \A t \in Tids :
       t \in Range(waiters[o]) <=> state[t] = "BLOCKED" /\ obj[t] = o

\* SIGALRM is masked in the scheduler and from the uth_preempt_off of an API
\* call to the uth_preempt_restore of the outermost call, and unmasked in
\* the code of the thread; every saved context resumes with the mask that
\* the label it resumes at needs.
MaskDiscipline ==
  /\ pc = "loop" => masked
  /\ OnCpu => (masked <=> pc \notin Unmasked)
  /\ \A t \in Tids : ctx[t].mask <=> ctx[t].pc \notin Preemptible

\* A saved context leads back into the code of its thread: preempt.c copies
\* the interrupted context so that the thread can be resumed "from the exact
\* instruction it was preempted at", and does not "preempt the scheduler
\* itself or in-between states".  (The liveness properties of the locks are
\* about executions in which no context is lost this way.)
ContextIsThreads == \A t \in Tids : ctx[t].pc # "swapcontext"

-----------------------------------------------------------------------------
(* The facts about the processor and the call frames that make             *)
(* QueueDiscipline and MaskDiscipline inductive.                           *)

\* A thread is RUNNING only while it has the processor; it stops being
\* RUNNING just before the swapcontext that gives the processor away.
CpuInv ==
  /\ pc = "main" => uth_current = NULL
  /\ pc \notin {"main", "loop"} => uth_current \in Tids
  /\ \A t \in Tids : state[t] = "RUNNING" => t = uth_current /\ pc \notin {"main", "loop"}
  /\ pc = "swapcontext" => state[uth_current] = "RUNNING" /\ masked = ctx[uth_current].mask
  /\ OnCpu => (state[uth_current] = "RUNNING" <=> pc \notin DOMAIN SwapTo)

\* A thread has a frame exactly while it is in a call of the API.  Only the
\* outermost call returns to code that runs unmasked, and only that call
\* saved an unmasked signal mask.
FrameInv ==
  \A t \in Tids :
    /\ frames[t] = <<>> <=> Place(t) \in Preemptible
    /\ \A i \in 1 .. Len(frames[t]) :
         /\ frames[t][i].ret \in Unmasked <=> i = Len(frames[t])
         /\ frames[t][i].old <=> i # Len(frames[t])

SchedInv == SchedTypeOK /\ QueueDiscipline /\ MaskDiscipline /\ CpuInv /\ FrameInv
=============================================================================
