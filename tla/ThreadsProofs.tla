---------------------------- MODULE ThreadsProofs ----------------------------
(***************************************************************************)
(* The thread lifecycle is correct for any number of threads, with and     *)
(* without preemption: ThreadIndInv of module Threads is inductive, and    *)
(* every step follows the state machine of the TCB.                        *)
(*                                                                         *)
(* The second part is what the programs of examples/ share, proved once    *)
(* for all of them: driver(), main() and thread_trampoline keep the        *)
(* lifecycle correct, whatever mutexes, condition variables and semaphores *)
(* the thread functions use in between.  ProgramInv of module Program is   *)
(* preserved by every step of a program.  (The theorems about the          *)
(* lifecycle use no assumption of module Program.)                         *)
(***************************************************************************)
EXTENDS Program, SchedulerProofs

-----------------------------------------------------------------------------
(* What the steps of the lifecycle do to the scheduler's data.             *)

\* A new thread: its slot was empty, so it is on no queue.
LEMMA AllocStep ==
  ASSUME SchedInv, ThreadTypeOK, ThreadInv, tcb_alloc,
         \/ pc = "main" /\ pc' = "main"
         \/ pc = "create_alloc" /\ pc' = "leave",
         UNCHANGED <<uth_current, waiters, obj, frames, masked>>
  PROVE  /\ SchedInv'
         /\ next_tid \in Tids /\ next_tid' = next_tid + 1 /\ joiner' = [joiner EXCEPT ![next_tid] = NULL]
         /\ state[next_tid] = "NONE"
         /\ \A t \in Tids : state'[t] = IF t = next_tid THEN "READY" ELSE state[t]
         /\ \A t \in Tids : Place(t)' = IF t = next_tid THEN "user"
                                        ELSE IF t = uth_current /\ OnCpu THEN "leave" ELSE Place(t)
         /\ uth_current # next_tid /\ (OnCpu => Place(uth_current) = pc /\ uth_current \in Tids)
<1> USE SchedulerAssumption DEF SchedInv
<1> DEFINE n == next_tid
<1>1. /\ n \in Tids /\ n' = n + 1 /\ joiner' = [joiner EXCEPT ![n] = NULL]
      /\ ctx' = [ctx EXCEPT ![n] = NewContext]
      /\ state' = [state EXCEPT ![n] = "READY"] /\ rq' = Append(rq, n)
  BY ZenonT(30) DEF tcb_alloc, uth_enqueue, queue_push
<1>2. state[n] = "NONE" /\ frames[n] = <<>>
  BY <1>1 DEF ThreadInv, Tids
<1>3. n \notin Range(rq)
  BY <1>1, <1>2, ZenonT(30) DEF QueueDiscipline
<1>4. rq' \in Seq(Tids) /\ IsInjective(rq') /\ Range(rq') = Range(rq) \cup {n}
  BY <1>1, <1>3, PushLemma DEF SchedTypeOK, QueueDiscipline
<1>5. /\ OnCpu' <=> OnCpu
      /\ {pc, pc'} \cap (DOMAIN SwapTo \cup Preemptible \cup Unmasked \cup {"loop", "swapcontext"}) = {}
      /\ pc' = "main" <=> pc = "main"
      /\ OnCpu <=> pc = "create_alloc"
      /\ pc' \in Labels
  BY SwapLemma, ZenonT(30) DEF OnCpu, SchedLabels, Unmasked, Preemptible, Labels, Sections
<1>6. uth_current # n /\ (OnCpu => uth_current \in Tids /\ state[uth_current] = "RUNNING")
  BY <1>1, <1>2, <1>5, SwapLemma DEF CpuInv, NULL, Tids
<1>7. \A t \in Tids : /\ state'[t] = IF t = n THEN "READY" ELSE state[t]
                      /\ ctx'[t] = IF t = n THEN NewContext ELSE ctx[t]
  BY <1>1, ZenonT(30) DEF SchedTypeOK
<1>8. \A t \in Tids : Place(t)' = IF t = n THEN "user"
                                  ELSE IF t = uth_current /\ OnCpu THEN "leave" ELSE Place(t)
  BY <1>5, <1>6, <1>7 DEF Place, NewContext
<1>9. SchedTypeOK'
  <2>1. state' \in [Tids -> TCBStates]
    BY <1>1, ZenonT(30) DEF SchedTypeOK, TCBStates
  <2>2. NewContext \in [pc : Resumable, mask : BOOLEAN]
    BY SwapLemma, ZenonT(30) DEF NewContext
  <2>3. ctx' \in [Tids -> [pc : Resumable, mask : BOOLEAN]]
    BY <1>1, <2>2, ZenonT(30) DEF SchedTypeOK
  <2> QED
    BY <1>4, <1>5, <2>1, <2>3, ZenonT(30) DEF SchedTypeOK
<1>10. QueueDiscipline'
  BY <1>1, <1>2, <1>4, <1>7 DEF QueueDiscipline
<1>11. MaskDiscipline'
  <2>1. NewContext.mask = FALSE /\ NewContext.pc = "user" /\ "user" \in Preemptible
    BY ZenonT(30) DEF NewContext, Preemptible, Unmasked
  <2> QED
    BY <1>5, <1>7, <2>1, ZenonT(30) DEF MaskDiscipline
<1>12. CpuInv'
  BY <1>2, <1>5, <1>6, <1>7, ZenonT(30) DEF CpuInv
<1>13. FrameInv'
  <2>1. \A t \in Tids : Place(t)' \in Preemptible <=> Place(t) \in Preemptible \/ t = n
    <3>1. "user" \in Preemptible /\ "leave" \notin Preemptible
      BY ZenonT(30) DEF Preemptible, Unmasked
    <3>2. OnCpu => Place(uth_current) \notin Preemptible
      BY <1>5, ZenonT(30) DEF Place
    <3> QED
      BY <1>8, <3>1, <3>2, ZenonT(30)
  <2>2. \A t \in Tids : frames[t] = <<>> <=> Place(t)' \in Preemptible
    BY <1>2, <2>1, ZenonT(30) DEF FrameInv
  <2> QED
    BY <2>2, ZenonT(30) DEF FrameInv
<1> QED
  BY <1>1, <1>2, <1>6, <1>7, <1>8, <1>9, <1>10, <1>11, <1>12, <1>13, ZenonT(30) DEF Place

\* uth_exit: the caller becomes a zombie, and a sleeping joiner is put on the
\* run queue.
LEMMA ZombieStep ==
  ASSUME SchedInv, ThreadTypeOK, ThreadInv, exit_zombie
  PROVE  SchedInv'
<1> USE SchedulerAssumption DEF SchedInv
<1> DEFINE c == uth_current
           j == joiner[c]
<1>1. /\ pc = "exit_zombie" /\ pc' = "exit_swap"
      /\ UNCHANGED <<uth_current, ctx, waiters, obj, frames, masked>>
      /\ \/ j = NULL /\ state' = [state EXCEPT ![c] = "ZOMBIE"] /\ rq' = rq
         \/ j # NULL /\ state' = [state EXCEPT ![c] = "ZOMBIE", ![j] = "READY"] /\ rq' = Append(rq, j)
  BY ZenonT(30) DEF exit_zombie, Zombie, queue_push
<1>2. /\ OnCpu /\ OnCpu' /\ pc \notin DOMAIN SwapTo /\ pc' \in DOMAIN SwapTo
      /\ {pc, pc'} \cap (Preemptible \cup SchedLabels \cup Unmasked) = {}
  BY <1>1, SwapLemma, ZenonT(30) DEF OnCpu, SchedLabels, Unmasked, Preemptible
<1>3. c \in Tids /\ state[c] = "RUNNING"
  BY <1>2, ZenonT(30) DEF CpuInv, SchedLabels
<1>4. j # NULL => j \in Tids /\ state[j] = "BLOCKED" /\ obj[j] \notin Objs /\ j # c
  BY <1>3 DEF ThreadInv, ThreadTypeOK, AsleepInJoin
<1> HIDE DEF j
<1>5. \A t \in Tids : state'[t] = IF t = c THEN "ZOMBIE"
                                  ELSE IF j # NULL /\ t = j THEN "READY" ELSE state[t]
  BY <1>1, <1>3, <1>4, ZenonT(30) DEF SchedTypeOK
<1>6. /\ rq' \in Seq(Tids) /\ IsInjective(rq')
      /\ j = NULL => Range(rq') = Range(rq)
      /\ j # NULL => Range(rq') = Range(rq) \cup {j}
  <2>1. CASE j = NULL
    <3>1. rq' = rq
      BY <1>1, <2>1, ZenonT(30)
    <3> QED
      BY <2>1, <3>1, ZenonT(30) DEF SchedTypeOK, QueueDiscipline
  <2>2. CASE j # NULL
    <3>1. rq' = Append(rq, j) /\ j \notin Range(rq)
      BY <1>1, <1>4, <2>2, ZenonT(30) DEF QueueDiscipline
    <3> QED
      BY <1>4, <2>2, <3>1, PushLemma, SMTT(30) DEF SchedTypeOK, QueueDiscipline
  <2> QED
    BY <2>1, <2>2, ZenonT(30)
<1>7. SchedTypeOK'
  <2>1. state' \in [Tids -> TCBStates]
    BY <1>1, ZenonT(30) DEF SchedTypeOK, TCBStates
  <2> QED
    BY <1>1, <1>2, <1>6, <2>1, ZenonT(30) DEF SchedTypeOK, Labels
<1>8. QueueDiscipline'
  <2>1. \A t \in Tids : t \in Range(rq') <=> state'[t] = "READY"
    <3> SUFFICES ASSUME NEW t \in Tids PROVE t \in Range(rq') <=> state'[t] = "READY"
      OBVIOUS
    <3>1. t \in Range(rq) <=> state[t] = "READY"
      BY ZenonT(30) DEF QueueDiscipline
    <3>2. CASE j = NULL
      BY <1>3, <1>5, <1>6, <3>1, <3>2, ZenonT(30)
    <3>3. CASE j # NULL
      BY <1>3, <1>4, <1>5, <1>6, <3>1, <3>3, ZenonT(30)
    <3> QED
      BY <3>2, <3>3, ZenonT(30)
  <2>2. ASSUME NEW o \in Objs, NEW t \in Tids
        PROVE  state'[t] = "BLOCKED" /\ obj[t] = o <=> state[t] = "BLOCKED" /\ obj[t] = o
    BY <1>3, <1>4, <1>5, ZenonT(30)
  <2> QED
    BY <1>1, <1>6, <2>1, <2>2 DEF QueueDiscipline
<1>9. MaskDiscipline'
  BY <1>1, <1>2, ZenonT(30) DEF MaskDiscipline
<1>10. CpuInv'
  BY <1>1, <1>2, <1>3, <1>5, ZenonT(30) DEF CpuInv, SchedLabels
<1>11. FrameInv'
  BY <1>1, <1>2, ZenonT(30) DEF FrameInv, Place
<1> QED
  BY <1>7, <1>8, <1>9, <1>10, <1>11, ZenonT(30)

\* uth_join: the caller goes to sleep on no queue.
LEMMA NoQueueStep ==
  ASSUME SchedInv, ThreadInv, pc = "join_find", join_register, uth_block_noqueue
  PROVE  SchedInv'
<1> USE SchedulerAssumption DEF SchedInv
<1> DEFINE c == uth_current
<1>1. /\ pc = "join_find" /\ pc' = "join_swap" /\ state' = [state EXCEPT ![c] = "BLOCKED"]
      /\ UNCHANGED <<uth_current, rq, ctx, waiters, obj, frames, masked>>
  BY ZenonT(30) DEF join_register, uth_block_noqueue
<1>2. /\ OnCpu /\ OnCpu' /\ pc \notin DOMAIN SwapTo /\ pc' \in DOMAIN SwapTo
      /\ {pc, pc'} \cap (Preemptible \cup SchedLabels \cup Unmasked) = {}
  BY <1>1, SwapLemma, ZenonT(30) DEF OnCpu, SchedLabels, Unmasked, Preemptible
<1>3. c \in Tids /\ state[c] = "RUNNING"
  BY <1>2, ZenonT(30) DEF CpuInv, SchedLabels
<1>4. SchedTypeOK'
  <2>1. state' \in [Tids -> TCBStates]
    BY <1>1, ZenonT(30) DEF SchedTypeOK, TCBStates
  <2> QED
    BY <1>1, <1>2, <2>1, ZenonT(30) DEF SchedTypeOK, Labels
<1>5. QueueDiscipline'
  <2>0. Place(c) = "join_find"
    BY <1>1, <1>2, ZenonT(30) DEF Place
  <2>1. \A o \in Objs : obj[c] # o
    BY <1>3, <2>0 DEF ThreadInv, JoinLabels
  <2>2. \A t \in Tids : t \in Range(rq) <=> state'[t] = "READY"
    BY <1>1, <1>3, SMTT(30) DEF QueueDiscipline, SchedTypeOK
  <2>3. ASSUME NEW o \in Objs, NEW t \in Tids
        PROVE  state'[t] = "BLOCKED" /\ obj[t] = o <=> state[t] = "BLOCKED" /\ obj[t] = o
    BY <1>1, <1>3, <2>1, ZenonT(30) DEF SchedTypeOK
  <2> QED
    BY <1>1, <2>2, <2>3 DEF QueueDiscipline
<1>6. MaskDiscipline'
  BY <1>1, <1>2, ZenonT(30) DEF MaskDiscipline
<1>7. CpuInv'
  BY <1>1, <1>2, <1>3, ZenonT(30) DEF CpuInv, SchedTypeOK, SchedLabels
<1>8. FrameInv'
  BY <1>1, <1>2, ZenonT(30) DEF FrameInv, Place
<1> QED
  BY <1>4, <1>5, <1>6, <1>7, <1>8, ZenonT(30)

\* A zombie is freed, by a thread or by main.
LEMMA FreeStep ==
  ASSUME SchedInv, ThreadInv, NEW u \in Tids, state[u] = "ZOMBIE",
         state' = [state EXCEPT ![u] = "FREED"],
         \/ pc = "main" /\ pc' = "main"
         \/ pc = "join_collect" /\ pc' = "leave",
         UNCHANGED <<uth_current, rq, ctx, waiters, obj, frames, masked>>
  PROVE  SchedInv'
<1> USE SchedulerAssumption DEF SchedInv
<1>1. /\ OnCpu' <=> OnCpu
      /\ {pc, pc'} \cap (DOMAIN SwapTo \cup Preemptible \cup Unmasked \cup {"loop", "swapcontext"}) = {}
      /\ pc' = "main" <=> pc = "main"
      /\ pc' \in Labels
  BY SwapLemma, ZenonT(30) DEF OnCpu, SchedLabels, Unmasked, Preemptible, Labels, Sections
<1>2. \A t \in Tids : state'[t] = IF t = u THEN "FREED" ELSE state[t]
  BY ZenonT(30) DEF SchedTypeOK
<1>3. SchedTypeOK'
  <2>1. state' \in [Tids -> TCBStates]
    BY ZenonT(30) DEF SchedTypeOK, TCBStates
  <2> QED
    BY <1>1, <2>1, ZenonT(30) DEF SchedTypeOK
<1>4. QueueDiscipline'
  BY <1>2 DEF QueueDiscipline
<1>5. MaskDiscipline'
  BY <1>1, ZenonT(30) DEF MaskDiscipline
<1>6. CpuInv'
  BY <1>1, <1>2 DEF CpuInv
<1>7. FrameInv'
  BY <1>1, ZenonT(30) DEF FrameInv, Place
<1> QED
  BY <1>3, <1>4, <1>5, <1>6, <1>7, ZenonT(30)

\* uth_run enters the scheduler, and scheduler_loop returns to main.
LEMMA RunStep ==
  ASSUME SchedInv, uth_run \/ uth_run_returns
  PROVE  /\ SchedInv' /\ UNCHANGED <<rq, state, ctx, waiters, obj, frames, threadVars>>
         /\ pc' \in {"main", "loop"} /\ \A t \in Tids : Place(t)' = Place(t)
<1> USE SchedulerAssumption DEF SchedInv
<1>1. /\ UNCHANGED <<rq, state, ctx, waiters, obj, frames, threadVars>>
      /\ pc \in {"main", "loop"} /\ pc' \in {"main", "loop"}
      /\ pc' = "loop" => masked' = TRUE
      /\ masked' \in BOOLEAN
      /\ uth_current' = uth_current \/ uth_current' = NULL
      /\ pc' = "main" => uth_current' = NULL
  BY ZenonT(30) DEF uth_run, uth_run_returns, SchedMask
<1>2. /\ {"main", "loop"} \subseteq Labels /\ {"main", "loop"} \subseteq SchedLabels
      /\ ~OnCpu /\ ~OnCpu'
  BY <1>1, ZenonT(30) DEF OnCpu, Labels, SchedLabels
<1>3. \A t \in Tids : state[t] # "RUNNING"
  BY <1>1, ZenonT(30) DEF CpuInv
<1>4. SchedTypeOK'
  <2>1. uth_current' \in Tids \cup {NULL} /\ pc' \in Labels
    BY <1>1, <1>2, ZenonT(30) DEF SchedTypeOK
  <2> QED
    BY <1>1, <2>1, ZenonT(30) DEF SchedTypeOK
<1>5. QueueDiscipline'
  BY <1>1, ZenonT(30) DEF QueueDiscipline
<1>6. MaskDiscipline'
  BY <1>1, <1>2, ZenonT(30) DEF MaskDiscipline
<1>7. CpuInv'
  BY <1>1, <1>2, <1>3, ZenonT(30) DEF CpuInv
<1>8. FrameInv'
  BY <1>1, <1>2, ZenonT(30) DEF FrameInv, Place
<1> QED
  BY <1>1, <1>2, <1>4, <1>5, <1>6, <1>7, <1>8, ZenonT(30) DEF Place

-----------------------------------------------------------------------------
(* Steps in which nobody is born, dies, or falls asleep or wakes in         *)
(* uth_join.                                                                *)

\* Such a step keeps the invariant if threads that sleep in uth_join or are
\* dead stay where they are, and nobody gets between the sleep in uth_join
\* and the search after it.
LEMMA LocalStep ==
  ASSUME ThreadIndInv, SchedInv', UNCHANGED <<next_tid, joiner>>,
         target' \in [Tids -> Tids \cup {NULL}],
         \A t \in Tids :
           \/ state'[t] = state[t] /\ (state[t] = "BLOCKED" => obj'[t] = obj[t])
           \/ {state[t], state'[t]} \subseteq {"READY", "RUNNING"}
           \/ state[t] = "RUNNING" /\ state'[t] = "BLOCKED" /\ obj'[t] # "none"
           \/ state[t] = "BLOCKED" /\ state'[t] = "READY" /\ obj[t] # "none",
         \A t \in Tids : state[t] = "NONE" => frames'[t] = <<>>,
         \A t \in Tids : AsleepInJoin(t) \/ state[t] \in {"ZOMBIE", "FREED"} =>
           /\ target'[t] = target[t]
           /\ \/ Place(t)' = Place(t)
              \/ Place(t) = "join_swap" /\ Place(t)' = "join_refind"
              \/ Place(t) = "exit_swap" /\ Place(t)' = "dead",
         \A t \in Tids : Place(t)' \in JoinLabels => obj'[t] = "none",
         \A t \in Tids : Place(t)' \in FoundLabels => target'[t] \in Tids,
         \A t \in Tids : Place(t)' \in {"join_swap", "join_refind"} =>
           target'[t] = target[t] /\ Place(t) \in {"join_swap", "join_refind"},
         pc' = "join_find" /\ target'[uth_current'] # NULL => joiner[target'[uth_current']] = NULL,
         FreesOnlyDeadThreads'
  PROVE  ThreadIndInv' /\ LifecycleStep
<1> USE DEF ThreadIndInv
<1>1. ThreadTypeOK'
  BY ZenonT(30) DEF ThreadTypeOK, SchedInv
<1>2. \A t \in Tids : /\ state'[t] = "NONE" <=> state[t] = "NONE"
                      /\ AsleepInJoin(t)' <=> AsleepInJoin(t)
                      /\ state'[t] \in {"ZOMBIE", "FREED"} <=> state[t] \in {"ZOMBIE", "FREED"}
                      /\ state[t] \in {"READY", "RUNNING", "BLOCKED"} =>
                           state'[t] \in {"READY", "RUNNING", "BLOCKED"}
  BY ZenonT(30) DEF AsleepInJoin
<1>3. JoinerIsRegistered'
  <2> SUFFICES ASSUME NEW t \in Tids, AsleepInJoin(t)'
               PROVE  /\ state'[target'[t]] \in {"READY", "RUNNING", "BLOCKED"}
                      /\ joiner'[target'[t]] = t
    BY ZenonT(30) DEF JoinerIsRegistered
  <2>1. /\ AsleepInJoin(t) /\ target'[t] = target[t]
        /\ state[target[t]] \in {"READY", "RUNNING", "BLOCKED"} /\ joiner[target[t]] = t
    BY <1>2, ZenonT(30) DEF JoinerIsRegistered
  <2>2. target[t] \in Tids
    BY <2>1, ZenonT(30) DEF ThreadInv, JoinLabels, FoundLabels
  <2> QED
    BY <1>2, <2>1, <2>2, ZenonT(30)
<1>4. ThreadInv'
  <2>1. \A t \in Tids : state'[t] = "NONE" <=> t >= next_tid
    BY <1>2, ZenonT(30) DEF ThreadInv
  <2>2. \A t \in Tids : AsleepInJoin(t)' => Place(t)' \in {"join_swap", "join_refind"}
    BY <1>2 DEF ThreadInv
  <2>3. \A t \in Tids : state'[t] \in {"ZOMBIE", "FREED"} => Place(t)' \in {"exit_swap", "dead"}
    BY <1>2 DEF ThreadInv
  <2>4. \A u \in Tids : joiner[u] # NULL => AsleepInJoin(joiner[u])' /\ target'[joiner[u]] = u
    BY <1>2, SMTT(30) DEF ThreadInv, ThreadTypeOK
  <2>5. ASSUME NEW t \in Tids, Place(t)' \in {"join_swap", "join_refind"},
               state'[t] \in {"READY", "RUNNING"}
        PROVE  state'[target'[t]] \in {"ZOMBIE", "FREED"}
    <3>1. /\ target'[t] = target[t] /\ target[t] \in Tids
          /\ Place(t) \in {"join_swap", "join_refind"} /\ obj[t] = "none"
      BY <2>5, ZenonT(30) DEF ThreadInv, JoinLabels, FoundLabels
    <3>2. state[t] \in {"READY", "RUNNING"}
      BY <2>5, <3>1, ZenonT(30)
    <3>3. state[target[t]] \in {"ZOMBIE", "FREED"}
      BY <3>1, <3>2, ZenonT(30) DEF ThreadInv
    <3> QED
      BY <1>2, <3>1, <3>3, ZenonT(30)
  <2>6. pc' = "join_find" /\ Target' # NULL => joiner'[Target'] = NULL
    BY ZenonT(30) DEF Target
  <2> QED
    BY <1>2, <2>1, <2>2, <2>3, <2>4, <2>5, <2>6, SMTT(30) DEF ThreadInv, AsleepInJoin
<1>5. LifecycleStep
  BY SMTT(30) DEF LifecycleStep
<1> QED
  BY <1>1, <1>3, <1>4, <1>5, ZenonT(30)

\* The steps the processor takes by itself, and preemption.
LEMMA ThreadQuiet ==
  ASSUME ThreadIndInv, SchedNext \/ uth_preempt_handler, UNCHANGED threadVars
  PROVE  ThreadIndInv' /\ LifecycleStep
<1> USE DEF threadVars
<1>1. /\ SchedInv' /\ pc \in QuietFrom /\ pc' \in QuietTo /\ \A t \in Tids : Quiet(t)
  BY HandlerSteps, ZenonT(30) DEF ThreadIndInv
<1>0. pc = "leave" => state[uth_current] = "RUNNING"
  BY <1>1, ThreadCode, ZenonT(30) DEF ThreadIndInv, Sections
<1>2. pc' \notin {"join_find", "join_collect"}
  BY <1>1, SwapLemma, ZenonT(30) DEF QuietTo, SchedLabels, Unmasked, ReturnLabels
<1>3. ASSUME NEW t \in Tids
      PROVE  /\ \/ state'[t] = state[t]
                \/ {state[t], state'[t]} \subseteq {"READY", "RUNNING"}
             /\ obj'[t] = obj[t] \/ (obj'[t] = "none" /\ state[t] # "BLOCKED")
             /\ frames[t] = <<>> => frames'[t] = <<>>
             /\ \/ Place(t)' = Place(t)
                \/ Place(t) = "join_swap" /\ Place(t)' = "join_refind"
                \/ Place(t) = "exit_swap" /\ Place(t)' = "dead"
                \/ /\ Place(t) \notin {"join_swap", "join_refind", "exit_swap", "dead"}
                   /\ Place(t)' \notin JoinLabels
  BY <1>0, <1>1, <1>3, SwapLemma DEF Quiet, JoinLabels, Preemptible, Unmasked, ReturnLabels
<1>4. FreesOnlyDeadThreads'
  BY <1>2, ZenonT(30) DEF FreesOnlyDeadThreads
<1>5. \A t \in Tids : state[t] = "NONE" => frames'[t] = <<>>
  BY <1>3, ZenonT(30) DEF ThreadIndInv, ThreadInv
<1>6. \A t \in Tids : AsleepInJoin(t) \/ state[t] \in {"ZOMBIE", "FREED"} =>
        \/ Place(t)' = Place(t)
        \/ Place(t) = "join_swap" /\ Place(t)' = "join_refind"
        \/ Place(t) = "exit_swap" /\ Place(t)' = "dead"
  BY <1>3, ZenonT(30) DEF ThreadIndInv, ThreadInv
<1>7. \A t \in Tids : /\ Place(t)' \in JoinLabels => Place(t) \in JoinLabels
                      /\ Place(t)' \in FoundLabels => Place(t) \in FoundLabels
                      /\ Place(t)' \in {"join_swap", "join_refind"} =>
                           Place(t) \in {"join_swap", "join_refind"}
  BY <1>3, ZenonT(30) DEF JoinLabels, FoundLabels
<1>8. \A t \in Tids : /\ Place(t)' \in JoinLabels => obj'[t] = "none"
                      /\ Place(t)' \in FoundLabels => target[t] \in Tids
  BY <1>3, <1>7, ZenonT(30) DEF ThreadIndInv, ThreadInv
<1>9. target \in [Tids -> Tids \cup {NULL}]
  BY ZenonT(30) DEF ThreadIndInv, ThreadTypeOK
<1> QED
  BY <1>1, <1>2, <1>3, <1>4, <1>5, <1>6, <1>7, <1>8, <1>9, LocalStep, ZenonT(30)

\* A step of the running thread from one label to another that is no sleep.
LEMMA RunsOn ==
  ASSUME ThreadIndInv, SchedInv', pc \in Unmasked \cup Sections,
         NEW l, l \notin SchedLabels \cup {"join_swap", "join_refind"}, pc' = l,
         UNCHANGED <<uth_current, state, ctx, next_tid, joiner>>,
         \A t \in Tids \ {uth_current} :
           target'[t] = target[t] /\ frames'[t] = frames[t] /\ obj'[t] = obj[t],
         target' \in [Tids -> Tids \cup {NULL}],
         l \in JoinLabels => obj'[uth_current] = "none",
         l = "join_find" /\ target'[uth_current] # NULL => joiner[target'[uth_current]] = NULL,
         l = "join_collect" => /\ target'[uth_current] \in Tids
                               /\ state[target'[uth_current]] = "ZOMBIE"
                               /\ ctx[target'[uth_current]].pc = "dead"
  PROVE  ThreadIndInv' /\ LifecycleStep
<1> DEFINE c == uth_current
<1>1. SchedInv
  BY ZenonT(30) DEF ThreadIndInv
<1>2. /\ c \in Tids /\ state[c] = "RUNNING" /\ Place(c) = pc
      /\ \A t \in Tids : Place(t)' = IF t = c THEN l ELSE Place(t)
  BY <1>1, ThreadCode, ZenonT(30)
<1>3. FreesOnlyDeadThreads'
  BY ZenonT(30) DEF FreesOnlyDeadThreads
<1>4. \A t \in Tids : state[t] = "NONE" => frames'[t] = <<>>
  BY <1>2, SMTT(30) DEF ThreadIndInv, ThreadInv
<1>5. \A t \in Tids : AsleepInJoin(t) \/ state[t] \in {"ZOMBIE", "FREED"} =>
        target'[t] = target[t] /\ Place(t)' = Place(t)
  BY <1>2, ZenonT(30) DEF AsleepInJoin
<1>6. \A t \in Tids : /\ Place(t)' \in FoundLabels => target'[t] \in Tids
                      /\ Place(t)' \in JoinLabels => obj'[t] = "none"
  BY <1>2 DEF ThreadIndInv, ThreadInv, JoinLabels, FoundLabels
<1>7. \A t \in Tids : Place(t)' \in {"join_swap", "join_refind"} =>
        target'[t] = target[t] /\ Place(t) \in {"join_swap", "join_refind"}
  BY <1>2, ZenonT(30)
<1>8. \A t \in Tids : state'[t] = state[t] /\ (state[t] = "BLOCKED" => obj'[t] = obj[t])
  BY <1>2, ZenonT(30)
<1> QED
  BY <1>3, <1>4, <1>5, <1>6, <1>7, <1>8, LocalStep, ZenonT(30)

\* A call of the API.
LEMMA ThreadEntry ==
  ASSUME ThreadIndInv, NEW ret \in Unmasked,
         NEW l \in {"yield_push", "create_alloc", "exit_zombie", "join_find"},
         Enter("user", "none", ret, l), UNCHANGED <<next_tid, joiner>>,
         \/ l # "join_find" /\ target' = target
         \/ \E u \in Tids \cup {NULL} : /\ u # NULL => joiner[u] = NULL
                                       /\ target' = [target EXCEPT ![uth_current] = u]
  PROVE  ThreadIndInv' /\ LifecycleStep
<1> DEFINE c == uth_current
<1>1. /\ SchedInv /\ "user" \in Unmasked /\ ret \in ReturnLabels /\ l \in Sections
      /\ l \notin SchedLabels
  BY ZenonT(30) DEF ThreadIndInv, Unmasked, ReturnLabels, Sections, SchedLabels
<1>2. SchedInv'
  BY <1>1, EnterStep, ZenonT(30)
<1>3. /\ pc = "user" /\ pc' = l /\ obj' = [obj EXCEPT ![c] = "none"]
      /\ \E f : frames' = [frames EXCEPT ![c] = f]
      /\ UNCHANGED <<uth_current, state, ctx>>
  BY ZenonT(30) DEF Enter, uth_preempt_off
<1>4. c \in Tids
  BY <1>1, <1>3, ThreadCode, ZenonT(30)
<1>5. /\ \A t \in Tids \ {c} : frames'[t] = frames[t] /\ obj'[t] = obj[t]
      /\ obj'[c] = "none"
  BY <1>1, <1>3, <1>4, ZenonT(30) DEF SchedInv, SchedTypeOK
<1>6. /\ target' \in [Tids -> Tids \cup {NULL}]
      /\ \A t \in Tids \ {c} : target'[t] = target[t]
      /\ l = "join_find" /\ target'[c] # NULL => joiner[target'[c]] = NULL
  BY <1>4, ZenonT(30) DEF ThreadIndInv, ThreadTypeOK
<1> QED
  BY <1>1, <1>2, <1>3, <1>5, <1>6, RunsOn, ZenonT(30)

\* The caller of uth_join, once it has found a zombie, has found one that has
\* left its stack.
LEMMA ZombieIsDead ==
  ASSUME ThreadIndInv, pc \in Sections, NEW u \in Tids, state[u] = "ZOMBIE"
  PROVE  ctx[u].pc = "dead" /\ u # uth_current
<1>1. SchedInv /\ state[uth_current] = "RUNNING"
  BY ThreadCode, ZenonT(30) DEF ThreadIndInv
<1>2. u # uth_current /\ Place(u) \in {"exit_swap", "dead"}
  BY <1>1, ZenonT(30) DEF ThreadIndInv, ThreadInv
<1>3. ctx[u].pc \in Resumable /\ ctx[u].pc \in {"exit_swap", "dead"}
  BY <1>1, <1>2, ZenonT(30) DEF Place, SchedInv, SchedTypeOK
<1> QED
  BY <1>2, <1>3, SwapLemma, ZenonT(30)

\* Steps of a call that only read the table.
LEMMA ReadStep ==
  ASSUME ThreadIndInv,
         \/ create_fail \/ create_ret
         \/ pc = "join_find" /\ join_found
         \/ join_refind
  PROVE  ThreadIndInv' /\ LifecycleStep
<1> DEFINE c == uth_current
<1>0. SchedInv /\ {"join_collect", "leave", "create_alloc", "join_find", "join_refind"} \subseteq Sections
      /\ {"create_ret", "user"} \subseteq Unmasked
      /\ {"join_collect", "leave", "user"} \cap (SchedLabels \cup {"join_swap", "join_refind"}) = {}
  BY ZenonT(30) DEF ThreadIndInv, Sections, Unmasked, SchedLabels
<1>1. CASE create_fail
  <2>1. /\ pc = "create_alloc" /\ Goto("leave") /\ target' = [target EXCEPT ![c] = NULL]
        /\ UNCHANGED <<next_tid, joiner>>
    BY <1>1, ZenonT(30) DEF create_fail
  <2>2. SchedInv'
    BY <1>0, <2>1, SectionStep, ZenonT(30)
  <2>3. target' \in [Tids -> Tids \cup {NULL}] /\ \A t \in Tids \ {c} : target'[t] = target[t]
    BY <2>1, ZenonT(30) DEF ThreadIndInv, ThreadTypeOK
  <2>4. pc' = "leave" /\ UNCHANGED <<uth_current, state, ctx, obj, frames>> /\ "leave" \notin JoinLabels
    BY <2>1, ZenonT(30) DEF Goto, JoinLabels
  <2> QED
    BY <1>0, <2>1, <2>2, <2>3, <2>4, RunsOn, ZenonT(30)
<1>2. CASE create_ret
  <2>1. pc = "create_ret" /\ Goto("user") /\ UNCHANGED threadVars
    BY <1>2, ZenonT(30) DEF create_ret
  <2>2. SchedInv'
    BY <1>0, <2>1, CodeStep, ZenonT(30)
  <2>3. /\ target' = target /\ target \in [Tids -> Tids \cup {NULL}] /\ UNCHANGED <<next_tid, joiner>>
        /\ pc' = "user" /\ UNCHANGED <<uth_current, state, ctx, obj, frames>>
        /\ "user" \notin JoinLabels
    BY <2>1, ZenonT(30) DEF Goto, threadVars, ThreadIndInv, ThreadTypeOK, JoinLabels
  <2> QED
    BY <1>0, <2>1, <2>2, <2>3, RunsOn, ZenonT(30)
<1>3. CASE pc \in {"join_find", "join_refind"}
  <2>1. c \in Tids /\ Place(c) = pc /\ state[c] = "RUNNING"
    BY <1>0, <1>3, ThreadCode, ZenonT(30)
  <2>2. /\ obj[c] = "none" /\ target[c] \in Tids \cup {NULL}
        /\ pc = "join_refind" => target[c] \in Tids
    BY <1>3, <2>1, ZenonT(30) DEF ThreadIndInv, ThreadInv, ThreadTypeOK, JoinLabels, FoundLabels
  <2>3. PICK l \in {"leave", "join_collect"} :
          /\ Goto(l) /\ UNCHANGED threadVars
          /\ l = "join_collect" => target[c] \in Tids /\ state[target[c]] = "ZOMBIE"
    <3>1. CASE pc = "join_find"
      BY <2>2, <3>1, ZenonT(30) DEF join_found, create_fail, create_ret, join_refind, Target,
         tcb_find
    <3>2. CASE pc = "join_refind"
      <4>1. state[target[c]] \in {"ZOMBIE", "FREED"}
        BY <2>1, <3>2, ZenonT(30) DEF ThreadIndInv, ThreadInv
      <4>2. Goto(IF tcb_find(target[c]) THEN "join_collect" ELSE "leave") /\ UNCHANGED threadVars
        BY <3>2, ZenonT(30) DEF join_found, create_fail, create_ret, join_refind, Target
      <4>3. tcb_find(target[c]) => state[target[c]] = "ZOMBIE"
        BY <4>1, ZenonT(30) DEF tcb_find
      <4> QED
        BY <2>2, <3>2, <4>2, <4>3, ZenonT(30)
    <3> QED
      BY <1>3, <3>1, <3>2, ZenonT(30)
  <2>4. SchedInv'
    BY <1>0, <1>3, <2>3, SectionStep, ZenonT(30)
  <2>5. l = "join_collect" => ctx[target[c]].pc = "dead"
    BY <1>0, <1>3, <2>2, <2>3, ZombieIsDead, ZenonT(30)
  <2>6. /\ target' = target /\ target \in [Tids -> Tids \cup {NULL}] /\ UNCHANGED <<next_tid, joiner>>
        /\ pc' = l /\ UNCHANGED <<uth_current, state, ctx, obj, frames>>
    BY <2>3, ZenonT(30) DEF Goto, threadVars, ThreadIndInv, ThreadTypeOK
  <2> QED
    BY <1>0, <1>3, <2>2, <2>3, <2>4, <2>5, <2>6, RunsOn, ZenonT(30)
<1> QED
  BY <1>1, <1>2, <1>3, ZenonT(30) DEF join_refind

-----------------------------------------------------------------------------
(* Birth, sleep, death and burial.                                         *)

\* A thread is created, by main or by a thread.
LEMMA BirthStep ==
  ASSUME ThreadIndInv, main_create \/ create_alloc
  PROVE  ThreadIndInv' /\ LifecycleStep
<1> USE DEF ThreadIndInv
<1> DEFINE n == next_tid
           c == uth_current
<1>1. /\ tcb_alloc /\ UNCHANGED <<uth_current, waiters, obj, frames, masked>>
      /\ \/ pc = "main" /\ pc' = "main" /\ target' = target
         \/ pc = "create_alloc" /\ pc' = "leave" /\ target' = [target EXCEPT ![c] = n]
  BY ZenonT(30) DEF main_create, create_alloc
<1>2. /\ SchedInv'
      /\ n \in Tids /\ n' = n + 1 /\ joiner' = [joiner EXCEPT ![n] = NULL]
      /\ state[n] = "NONE" /\ c # n
      /\ \A t \in Tids : state'[t] = IF t = n THEN "READY" ELSE state[t]
      /\ \A t \in Tids : Place(t)' = IF t = n THEN "user"
                                     ELSE IF t = c /\ OnCpu THEN "leave" ELSE Place(t)
      /\ OnCpu => Place(c) = pc /\ c \in Tids
  BY <1>1, AllocStep, ZenonT(30)
<1>3. OnCpu <=> pc = "create_alloc"
  BY <1>1, ZenonT(30) DEF OnCpu, SchedLabels
<1>4. ThreadTypeOK'
  <2>1. n' \in 1 .. MaxTid + 1
    <3>1. n \in 1 .. MaxTid /\ n' = n + 1
      BY <1>2, ZenonT(30) DEF Tids
    <3> QED
      BY <3>1, SchedulerAssumption
  <2>2. SchedTypeOK' /\ joiner' \in [Tids -> Tids \cup {NULL}]
    BY <1>2, ZenonT(30) DEF ThreadTypeOK, SchedInv
  <2>3. target' \in [Tids -> Tids \cup {NULL}]
    BY <1>1, <1>2, ZenonT(30) DEF ThreadTypeOK
  <2> QED
    BY <2>1, <2>2, <2>3, ZenonT(30) DEF ThreadTypeOK
<1>5. \A t \in Tids : /\ joiner'[t] = joiner[t] \/ (t = n /\ joiner'[t] = NULL)
                      /\ t # c \/ ~OnCpu => target'[t] = target[t]
  BY <1>1, <1>2, <1>3, ZenonT(30) DEF ThreadTypeOK
<1>6. \A t \in Tids : AsleepInJoin(t) =>
        /\ Place(t) \in {"join_swap", "join_refind"} /\ target[t] \in Tids \ {n}
        /\ Place(t)' = Place(t) /\ target'[t] = target[t]
  <2> SUFFICES ASSUME NEW t \in Tids, AsleepInJoin(t)
               PROVE  /\ Place(t) \in {"join_swap", "join_refind"} /\ target[t] \in Tids \ {n}
                      /\ Place(t)' = Place(t) /\ target'[t] = target[t]
    OBVIOUS
  <2>1. Place(t) \in {"join_swap", "join_refind"}
    BY ZenonT(30) DEF ThreadInv
  <2>2. ~(t = c /\ OnCpu) /\ t # n
    BY <1>2, <1>3, <2>1, ZenonT(30) DEF AsleepInJoin
  <2>3. target[t] \in Tids /\ state[target[t]] # "NONE"
    BY <2>1, ZenonT(30) DEF ThreadInv, JoinLabels, FoundLabels, JoinerIsRegistered
  <2> QED
    BY <1>2, <1>5, <2>1, <2>2, <2>3, ZenonT(30)
<1>7. JoinerIsRegistered'
  <2> SUFFICES ASSUME NEW t \in Tids, AsleepInJoin(t)'
               PROVE  /\ state'[target'[t]] \in {"READY", "RUNNING", "BLOCKED"}
                      /\ joiner'[target'[t]] = t
    BY ZenonT(30) DEF JoinerIsRegistered
  <2>1. AsleepInJoin(t)
    BY <1>1, <1>2, ZenonT(30) DEF AsleepInJoin
  <2> QED
    BY <1>2, <1>5, <1>6, <2>1, SMTT(30) DEF JoinerIsRegistered
<1>8. FreesOnlyDeadThreads'
  BY <1>1, ZenonT(30) DEF FreesOnlyDeadThreads
<1>9. ThreadInv'
  <2>1. \A t \in Tids : state'[t] = "NONE" => frames'[t] = <<>>
    BY <1>1, <1>2, SMTT(30) DEF ThreadInv
  <2>2. \A t \in Tids : state'[t] = "NONE" <=> t >= n'
    BY <1>2 DEF ThreadInv, Tids
  <2>3. \A t \in Tids : AsleepInJoin(t)' => Place(t)' \in {"join_swap", "join_refind"}
    BY <1>1, <1>2, <1>6, ZenonT(30) DEF AsleepInJoin
  <2>4. \A t \in Tids : state'[t] \in {"ZOMBIE", "FREED"} => Place(t)' \in {"exit_swap", "dead"}
    BY <1>2, <1>3, SMTT(30) DEF ThreadInv
  <2>5. \A u \in Tids : joiner'[u] # NULL => AsleepInJoin(joiner[u])' /\ target'[joiner'[u]] = u
    <3> SUFFICES ASSUME NEW u \in Tids, joiner'[u] # NULL
                 PROVE  AsleepInJoin(joiner[u])' /\ target'[joiner'[u]] = u
      OBVIOUS
    <3>1. joiner'[u] = joiner[u] /\ joiner[u] \in Tids
      BY <1>5, ZenonT(30) DEF ThreadTypeOK
    <3>2. AsleepInJoin(joiner[u]) /\ target[joiner[u]] = u
      BY <3>1, ZenonT(30) DEF ThreadInv
    <3>3. AsleepInJoin(joiner[u])'
      BY <1>1, <1>2, <3>1, <3>2, ZenonT(30) DEF AsleepInJoin
    <3> QED
      BY <1>6, <3>1, <3>2, <3>3, ZenonT(30)
  <2>6. ASSUME NEW t \in Tids, Place(t)' \in JoinLabels
        PROVE  /\ target'[t] = target[t] /\ Place(t) = Place(t)' /\ t # n /\ obj'[t] = "none"
               /\ Place(t)' \in FoundLabels => target[t] \in Tids
    <3>1. t # n /\ ~(t = c /\ OnCpu) /\ Place(t) = Place(t)'
      BY <1>2, <2>6, ZenonT(30) DEF JoinLabels
    <3> QED
      BY <1>1, <1>5, <2>6, <3>1, SMTT(30) DEF ThreadInv
  <2>7. ASSUME NEW t \in Tids, Place(t)' \in {"join_swap", "join_refind"},
               state'[t] \in {"READY", "RUNNING"}
        PROVE  state'[target'[t]] \in {"ZOMBIE", "FREED"}
    <3>1. /\ target'[t] = target[t] /\ target[t] \in Tids /\ Place(t) = Place(t)'
          /\ state[t] = state'[t]
      BY <1>2, <2>6, <2>7, ZenonT(30) DEF JoinLabels, FoundLabels
    <3>2. state[target[t]] \in {"ZOMBIE", "FREED"}
      BY <2>7, <3>1, ZenonT(30) DEF ThreadInv
    <3> QED
      BY <1>2, <3>1, <3>2, ZenonT(30)
  <2>8. \A t \in Tids : Place(t)' \in FoundLabels => target'[t] \in Tids
    BY <2>6, ZenonT(30) DEF FoundLabels
  <2> QED
    BY <1>1, <2>1, <2>2, <2>3, <2>4, <2>5, <2>6, <2>7, <2>8, ZenonT(30) DEF ThreadInv
<1>10. LifecycleStep
  BY <1>2, ZenonT(30) DEF LifecycleStep
<1> QED
  BY <1>2, <1>4, <1>7, <1>8, <1>9, <1>10, ZenonT(30)

\* uth_exit.
LEMMA DeathStep ==
  ASSUME ThreadIndInv, exit_zombie
  PROVE  ThreadIndInv' /\ LifecycleStep
<1> USE DEF ThreadIndInv
<1> DEFINE c == uth_current
           j == joiner[c]
<1>1. /\ pc = "exit_zombie" /\ pc' = "exit_swap"
      /\ UNCHANGED <<uth_current, ctx, waiters, obj, frames, masked, next_tid, target>>
      /\ joiner' = [joiner EXCEPT ![c] = NULL]
      /\ \/ j = NULL /\ state' = [state EXCEPT ![c] = "ZOMBIE"]
         \/ j # NULL /\ state' = [state EXCEPT ![c] = "ZOMBIE", ![j] = "READY"]
  BY ZenonT(30) DEF exit_zombie, Zombie
<1>2. SchedInv'
  BY ZombieStep, ZenonT(30)
<1>3. pc \in Sections /\ pc' \notin SchedLabels
  BY <1>1, ZenonT(30) DEF Sections, SchedLabels
<1>4. /\ c \in Tids /\ state[c] = "RUNNING" /\ Place(c) = pc
      /\ \A t \in Tids : Place(t)' = IF t = c THEN "exit_swap" ELSE Place(t)
  BY <1>1, <1>3, ThreadCode, ZenonT(30)
<1>5. j # NULL => j \in Tids \ {c} /\ state[j] = "BLOCKED" /\ target[j] = c
  BY <1>4, SMTT(30) DEF ThreadInv, ThreadTypeOK, AsleepInJoin
<1> HIDE DEF j
<1>6. \A t \in Tids : /\ state'[t] = IF t = c THEN "ZOMBIE"
                                     ELSE IF j # NULL /\ t = j THEN "READY" ELSE state[t]
                      /\ joiner'[t] = IF t = c THEN NULL ELSE joiner[t]
  BY <1>1, <1>4, <1>5, ZenonT(30) DEF SchedInv, SchedTypeOK, ThreadTypeOK
<1>7. ThreadTypeOK'
  BY <1>1, <1>2, <1>4, ZenonT(30) DEF ThreadTypeOK, SchedInv
<1>8. JoinerIsRegistered'
  <2> SUFFICES ASSUME NEW t \in Tids, AsleepInJoin(t)'
               PROVE  /\ state'[target[t]] \in {"READY", "RUNNING", "BLOCKED"}
                      /\ joiner'[target[t]] = t
    BY <1>1, ZenonT(30) DEF JoinerIsRegistered
  <2>1. AsleepInJoin(t) /\ ~(j # NULL /\ t = j) /\ t # c
    BY <1>1, <1>4, <1>6, ZenonT(30) DEF AsleepInJoin
  <2>2. /\ target[t] \in Tids /\ joiner[target[t]] = t
        /\ state[target[t]] \in {"READY", "RUNNING", "BLOCKED"}
    BY <2>1, ZenonT(30) DEF ThreadInv, JoinerIsRegistered, JoinLabels, FoundLabels
  <2>3. t # NULL
    BY SchedulerAssumption DEF Tids, NULL
  <2>4. target[t] # c
    BY <2>1, <2>2, <2>3, ZenonT(30) DEF j
  <2> QED
    BY <1>6, <2>2, <2>4, ZenonT(30)
<1>9. FreesOnlyDeadThreads'
  BY <1>1, ZenonT(30) DEF FreesOnlyDeadThreads
<1>10. ThreadInv'
  <2>1. \A t \in Tids : /\ state'[t] = "NONE" => frames'[t] = <<>>
                        /\ state'[t] = "NONE" <=> t >= next_tid'
    BY <1>1, <1>4, <1>5, <1>6, SMTT(30) DEF ThreadInv
  <2>2. \A t \in Tids : AsleepInJoin(t)' => Place(t)' \in {"join_swap", "join_refind"}
    BY <1>1, <1>4, <1>6, SMTT(30) DEF ThreadInv, AsleepInJoin
  <2>3. \A t \in Tids : state'[t] \in {"ZOMBIE", "FREED"} => Place(t)' \in {"exit_swap", "dead"}
    BY <1>4, <1>6, SMTT(30) DEF ThreadInv
  <2>4. ASSUME NEW u \in Tids, joiner'[u] # NULL
        PROVE  AsleepInJoin(joiner[u])' /\ target'[joiner'[u]] = u
    <3>1. u # c /\ joiner'[u] = joiner[u] /\ joiner[u] \in Tids
      BY <1>6, <2>4, ZenonT(30) DEF ThreadTypeOK
    <3>2. AsleepInJoin(joiner[u]) /\ target[joiner[u]] = u
      BY <2>4, <3>1, ZenonT(30) DEF ThreadInv
    <3>3. joiner[u] # c /\ ~(j # NULL /\ joiner[u] = j)
      BY <1>4, <1>5, <3>1, <3>2, ZenonT(30) DEF AsleepInJoin
    <3> QED
      BY <1>1, <1>6, <3>1, <3>2, <3>3, ZenonT(30) DEF AsleepInJoin
  <2>5. \A t \in Tids : /\ Place(t)' \in JoinLabels => obj'[t] = "none" /\ t # c /\ Place(t) = Place(t)'
                        /\ Place(t)' \in FoundLabels => target'[t] \in Tids
    BY <1>1, <1>4, ZenonT(30) DEF ThreadInv, JoinLabels, FoundLabels
  <2>6. ASSUME NEW t \in Tids, Place(t)' \in {"join_swap", "join_refind"},
               state'[t] \in {"READY", "RUNNING"}
        PROVE  state'[target'[t]] \in {"ZOMBIE", "FREED"}
    <3>1. target[t] \in Tids /\ t # c /\ Place(t) = Place(t)' /\ target'[t] = target[t]
      BY <1>1, <2>5, <2>6, ZenonT(30) DEF JoinLabels, FoundLabels
    <3>2. CASE j # NULL /\ t = j
      BY <1>4, <1>5, <1>6, <3>1, <3>2, ZenonT(30)
    <3>3. CASE ~(j # NULL /\ t = j)
      <4>1. state[target[t]] \in {"ZOMBIE", "FREED"}
        BY <1>6, <2>6, <3>1, <3>3, ZenonT(30) DEF ThreadInv
      <4>2. target[t] # c /\ ~(j # NULL /\ target[t] = j)
        BY <1>4, <1>5, <4>1, ZenonT(30)
      <4> QED
        BY <1>6, <3>1, <4>1, <4>2, ZenonT(30)
    <3> QED
      BY <3>2, <3>3, ZenonT(30)
  <2> QED
    BY <1>1, <2>1, <2>2, <2>3, <2>4, <2>5, <2>6, ZenonT(30) DEF ThreadInv
<1>11. LifecycleStep
  BY <1>4, <1>5, <1>6, ZenonT(30) DEF LifecycleStep
<1> QED
  BY <1>2, <1>7, <1>8, <1>9, <1>10, <1>11, ZenonT(30)

\* uth_join of a thread that is alive.
LEMMA SleepStep ==
  ASSUME ThreadIndInv, pc = "join_find", join_register, uth_block_noqueue
  PROVE  ThreadIndInv' /\ LifecycleStep
<1> USE DEF ThreadIndInv
<1> DEFINE c == uth_current
           u == target[c]
<1>1. /\ pc = "join_find" /\ pc' = "join_swap" /\ state' = [state EXCEPT ![c] = "BLOCKED"]
      /\ tcb_find(u) /\ state[u] # "ZOMBIE" /\ joiner' = [joiner EXCEPT ![u] = c]
      /\ UNCHANGED <<uth_current, rq, ctx, waiters, obj, frames, masked, next_tid, target>>
  BY ZenonT(30) DEF join_register, uth_block_noqueue, Target
<1>2. SchedInv'
  BY NoQueueStep, ZenonT(30)
<1>3. pc \in Sections /\ pc' \notin SchedLabels
  BY <1>1, ZenonT(30) DEF Sections, SchedLabels
<1>4. /\ c \in Tids /\ state[c] = "RUNNING" /\ Place(c) = pc
      /\ \A t \in Tids : Place(t)' = IF t = c THEN "join_swap" ELSE Place(t)
  BY <1>1, <1>3, ThreadCode, ZenonT(30)
<1>5. u \in Tids /\ joiner[u] = NULL /\ obj[c] = "none"
  BY <1>1, <1>4, SMTT(30) DEF ThreadInv, ThreadTypeOK, JoinLabels, Target, tcb_find
<1>6. state[u] \in {"READY", "RUNNING", "BLOCKED"}
  BY <1>1, <1>5, ZenonT(30) DEF tcb_find, SchedInv, SchedTypeOK, TCBStates
<1> HIDE DEF u
<1>7. \A t \in Tids : /\ state'[t] = IF t = c THEN "BLOCKED" ELSE state[t]
                      /\ joiner'[t] = IF t = u THEN c ELSE joiner[t]
  BY <1>1, <1>4, <1>5, ZenonT(30) DEF SchedInv, SchedTypeOK, ThreadTypeOK
<1>8. ThreadTypeOK'
  BY <1>1, <1>2, <1>4, ZenonT(30) DEF ThreadTypeOK, SchedInv
<1>9. JoinerIsRegistered'
  <2> SUFFICES ASSUME NEW t \in Tids, AsleepInJoin(t)'
               PROVE  /\ state'[target[t]] \in {"READY", "RUNNING", "BLOCKED"}
                      /\ joiner'[target[t]] = t
    BY <1>1, ZenonT(30) DEF JoinerIsRegistered
  <2>1. CASE t = c
    BY <1>5, <1>6, <1>7, <2>1, ZenonT(30) DEF u
  <2>2. CASE t # c
    <3>0. AsleepInJoin(t)
      BY <1>1, <1>7, <2>2, ZenonT(30) DEF AsleepInJoin
    <3>1. /\ target[t] \in Tids /\ joiner[target[t]] = t
          /\ state[target[t]] \in {"READY", "RUNNING", "BLOCKED"}
      BY <3>0, ZenonT(30) DEF ThreadInv, JoinerIsRegistered, JoinLabels, FoundLabels
    <3>2. target[t] # u
      BY <1>5, <3>1, SchedulerAssumption, SMTT(30) DEF Tids, NULL
    <3> QED
      BY <1>7, <3>1, <3>2, ZenonT(30)
  <2> QED
    BY <2>1, <2>2, ZenonT(30)
<1>10. FreesOnlyDeadThreads'
  BY <1>1, ZenonT(30) DEF FreesOnlyDeadThreads
<1>11. ThreadInv'
  <2>1. \A t \in Tids : /\ state'[t] = "NONE" => frames'[t] = <<>>
                        /\ state'[t] = "NONE" <=> t >= next_tid'
    BY <1>1, <1>4, <1>7, SMTT(30) DEF ThreadInv
  <2>2. \A t \in Tids : AsleepInJoin(t)' => Place(t)' \in {"join_swap", "join_refind"}
    BY <1>1, <1>4, <1>7, SMTT(30) DEF ThreadInv, AsleepInJoin
  <2>3. \A t \in Tids : state'[t] \in {"ZOMBIE", "FREED"} => Place(t)' \in {"exit_swap", "dead"}
    BY <1>4, <1>7 DEF ThreadInv
  <2>4. ASSUME NEW v \in Tids, joiner'[v] # NULL
        PROVE  AsleepInJoin(joiner[v])' /\ target'[joiner'[v]] = v
    <3>1. CASE v = u
      BY <1>1, <1>4, <1>5, <1>7, <3>1, ZenonT(30) DEF u, AsleepInJoin
    <3>2. CASE v # u
      <4>1. joiner'[v] = joiner[v] /\ joiner[v] \in Tids
        BY <1>7, <2>4, <3>2, ZenonT(30) DEF ThreadTypeOK
      <4>2. AsleepInJoin(joiner[v]) /\ target[joiner[v]] = v
        BY <2>4, <4>1, ZenonT(30) DEF ThreadInv
      <4> QED
        BY <1>1, <1>7, <4>1, <4>2, ZenonT(30) DEF AsleepInJoin
    <3> QED
      BY <3>1, <3>2, ZenonT(30)
  <2>5. \A t \in Tids : /\ Place(t)' \in JoinLabels => obj'[t] = "none"
                        /\ Place(t)' \in FoundLabels => target'[t] \in Tids
    BY <1>1, <1>4, <1>5, SMTT(30) DEF ThreadInv, JoinLabels, FoundLabels, u
  <2>6. ASSUME NEW t \in Tids, Place(t)' \in {"join_swap", "join_refind"},
               state'[t] \in {"READY", "RUNNING"}
        PROVE  state'[target'[t]] \in {"ZOMBIE", "FREED"}
    <3>1. t # c /\ Place(t) = Place(t)' /\ state[t] = state'[t]
      BY <1>4, <1>7, <2>6, ZenonT(30)
    <3>2. state[target[t]] \in {"ZOMBIE", "FREED"} /\ target[t] \in Tids
      BY <2>6, <3>1, ZenonT(30) DEF ThreadInv, JoinLabels, FoundLabels
    <3> QED
      BY <1>1, <1>4, <1>7, <3>2, ZenonT(30)
  <2> QED
    BY <1>1, <2>1, <2>2, <2>3, <2>4, <2>5, <2>6, ZenonT(30) DEF ThreadInv
<1>12. LifecycleStep
  BY <1>4, <1>7, ZenonT(30) DEF LifecycleStep
<1> QED
  BY <1>2, <1>8, <1>9, <1>10, <1>11, <1>12, ZenonT(30)

\* tcb_free, called by a thread or by main.
LEMMA BurialStep ==
  ASSUME ThreadIndInv, join_collect \/ \E u \in Tids : main_join(u)
  PROVE  ThreadIndInv' /\ LifecycleStep
<1> USE DEF ThreadIndInv
<1> DEFINE c == uth_current
<1>1. PICK u \in Tids :
        /\ state[u] = "ZOMBIE" /\ state' = [state EXCEPT ![u] = "FREED"]
        /\ \/ pc = "main" /\ pc' = "main"
           \/ pc = "join_collect" /\ pc' = "leave"
        /\ UNCHANGED <<uth_current, rq, ctx, waiters, obj, frames, masked, threadVars>>
  <2>1. CASE join_collect
    <3>1. pc = "join_collect" /\ state' = [state EXCEPT ![target[c]] = "FREED"] /\ pc' = "leave"
          /\ UNCHANGED <<uth_current, rq, ctx, waiters, obj, frames, masked, threadVars>>
      BY <2>1, ZenonT(30) DEF join_collect, Target
    <3>2. state[target[c]] = "ZOMBIE"
      BY <3>1, ZenonT(30) DEF FreesOnlyDeadThreads
    <3>3. c \in Tids /\ Place(c) = pc
      BY <3>1, ThreadCode, ZenonT(30) DEF Sections
    <3>4. target[c] \in Tids
      BY <3>1, <3>3, ZenonT(30) DEF ThreadInv, JoinLabels, FoundLabels
    <3> QED
      BY <3>1, <3>2, <3>4, ZenonT(30)
  <2>2. CASE \E u \in Tids : main_join(u)
    BY <2>2, ZenonT(30) DEF main_join
  <2> QED
    BY <2>1, <2>2, ZenonT(30)
<1>2. SchedInv'
  BY <1>1, FreeStep, ZenonT(30)
<1>3. \A t \in Tids : state'[t] = IF t = u THEN "FREED" ELSE state[t]
  BY <1>1, ZenonT(30) DEF SchedInv, SchedTypeOK
<1>4. \A t \in Tids : Place(t)' = IF t = c /\ OnCpu THEN "leave" ELSE Place(t)
  BY <1>1, ZenonT(30) DEF Place, OnCpu, SchedLabels
<1>5. \A t \in Tids : t = c /\ OnCpu => state[t] = "RUNNING" /\ Place(t) = "join_collect"
  BY <1>1, SwapLemma, ZenonT(30) DEF OnCpu, SchedLabels, SchedInv, CpuInv, Place
<1>6. ThreadTypeOK'
  BY <1>1, <1>2, ZenonT(30) DEF ThreadTypeOK, SchedInv, threadVars
<1>7. JoinerIsRegistered'
  <2> SUFFICES ASSUME NEW t \in Tids, AsleepInJoin(t)'
               PROVE  /\ state'[target[t]] \in {"READY", "RUNNING", "BLOCKED"}
                      /\ joiner[target[t]] = t
    BY <1>1, ZenonT(30) DEF JoinerIsRegistered, threadVars
  <2>0. AsleepInJoin(t)
    BY <1>1, <1>3, SMTT(30) DEF AsleepInJoin
  <2>1. /\ target[t] \in Tids /\ joiner[target[t]] = t
        /\ state[target[t]] \in {"READY", "RUNNING", "BLOCKED"}
    BY <2>0, ZenonT(30) DEF ThreadInv, JoinerIsRegistered, JoinLabels, FoundLabels
  <2> QED
    BY <1>1, <1>3, <2>1, ZenonT(30)
<1>8. FreesOnlyDeadThreads'
  BY <1>1, ZenonT(30) DEF FreesOnlyDeadThreads
<1>9. ThreadInv'
  <2> USE DEF threadVars
  <2>1. \A t \in Tids : /\ state'[t] = "NONE" => frames'[t] = <<>>
                        /\ state'[t] = "NONE" <=> t >= next_tid'
    BY <1>1, <1>3, SMTT(30) DEF ThreadInv
  <2>2. \A t \in Tids : AsleepInJoin(t)' => Place(t)' \in {"join_swap", "join_refind"}
    BY <1>1, <1>3, <1>4, <1>5, SMTT(30) DEF ThreadInv, AsleepInJoin
  <2>3. \A t \in Tids : state'[t] \in {"ZOMBIE", "FREED"} => Place(t)' \in {"exit_swap", "dead"}
    BY <1>1, <1>3, <1>4, <1>5, SMTT(30) DEF ThreadInv
  <2>4. \A v \in Tids : joiner'[v] # NULL => AsleepInJoin(joiner[v])' /\ target'[joiner'[v]] = v
    BY <1>1, <1>3, SMTT(30) DEF ThreadInv, ThreadTypeOK, AsleepInJoin
  <2>5. \A t \in Tids : /\ Place(t)' \in JoinLabels => obj'[t] = "none"
                        /\ Place(t)' \in FoundLabels => target'[t] \in Tids
    BY <1>1, <1>4, SMTT(30) DEF ThreadInv, JoinLabels, FoundLabels
  <2>6. ASSUME NEW t \in Tids, Place(t)' \in {"join_swap", "join_refind"},
               state'[t] \in {"READY", "RUNNING"}
        PROVE  state'[target'[t]] \in {"ZOMBIE", "FREED"}
    <3>1. Place(t) = Place(t)' /\ state[t] = state'[t]
      BY <1>3, <1>4, <2>6, ZenonT(30)
    <3>2. state[target[t]] \in {"ZOMBIE", "FREED"} /\ target[t] \in Tids
      BY <2>6, <3>1, ZenonT(30) DEF ThreadInv, JoinLabels, FoundLabels
    <3> QED
      BY <1>1, <1>3, <3>2, ZenonT(30)
  <2> QED
    BY <1>1, <2>1, <2>2, <2>3, <2>4, <2>5, <2>6, ZenonT(30) DEF ThreadInv
<1>10. LifecycleStep
  BY <1>1, <1>3, ZenonT(30) DEF LifecycleStep
<1> QED
  BY <1>2, <1>6, <1>7, <1>8, <1>9, <1>10, ZenonT(30)

\* uth_run and its return.
LEMMA RunInv ==
  ASSUME ThreadIndInv, uth_run \/ uth_run_returns
  PROVE  ThreadIndInv' /\ LifecycleStep
<1> USE DEF ThreadIndInv
<1>1. /\ SchedInv' /\ UNCHANGED <<rq, state, ctx, waiters, obj, frames, threadVars>>
      /\ pc' \in {"main", "loop"} /\ \A t \in Tids : Place(t)' = Place(t)
  BY RunStep, ZenonT(30)
<1>2. ThreadTypeOK' /\ JoinerIsRegistered' /\ FreesOnlyDeadThreads'
  BY <1>1, ZenonT(30) DEF ThreadTypeOK, SchedInv, JoinerIsRegistered, AsleepInJoin,
     FreesOnlyDeadThreads, threadVars
<1>3. ThreadInv'
  BY <1>1, SMTT(30) DEF ThreadInv, AsleepInJoin, threadVars
<1> QED
  BY <1>1, <1>2, <1>3, ZenonT(30) DEF LifecycleStep

-----------------------------------------------------------------------------
\* The initial state satisfies the inductive invariant.
LEMMA ThreadInitInv == ThreadInit => ThreadIndInv
<1> SUFFICES ASSUME ThreadInit PROVE ThreadIndInv
  OBVIOUS
<1> USE SchedulerAssumption DEF ThreadInit
<1>1. SchedTypeOK
  <2>1. /\ waiters \in [Objs -> Seq(Tids)] /\ rq \in Seq(Tids)
        /\ frames \in [Tids -> Seq([old : BOOLEAN, ret : ReturnLabels])]
    OBVIOUS
  <2>2. NewContext \in [pc : Resumable, mask : BOOLEAN]
    BY SwapLemma, ZenonT(30) DEF NewContext
  <2>3. ctx \in [Tids -> [pc : Resumable, mask : BOOLEAN]]
    BY <2>2, ZenonT(30)
  <2>4. masked \in BOOLEAN
    BY ZenonT(30)
  <2>5. /\ uth_current \in Tids \cup {NULL}
        /\ state \in [Tids -> TCBStates]
        /\ obj \in [Tids -> Objs \cup {"none"}]
        /\ pc \in Labels
    BY ZenonT(30) DEF TCBStates, Labels, SchedLabels
  <2> QED
    BY <2>1, <2>3, <2>4, <2>5, ZenonT(30) DEF SchedTypeOK
<1>2. \A t \in Tids : Place(t) = "user" /\ state[t] = "NONE" /\ frames[t] = <<>>
  BY ZenonT(30) DEF Place, OnCpu, SchedLabels, NewContext
<1>3. SchedInv
  <2>1. QueueDiscipline
    BY DEF QueueDiscipline, IsInjective, Range
  <2>2. MaskDiscipline
    BY ZenonT(30) DEF MaskDiscipline, OnCpu, SchedLabels, NewContext, Preemptible, Unmasked
  <2>3. CpuInv
    BY ZenonT(30) DEF CpuInv, OnCpu, SchedLabels
  <2>4. FrameInv
    BY <1>2 DEF FrameInv, Preemptible, Unmasked
  <2> QED
    BY <1>1, <2>1, <2>2, <2>3, <2>4, ZenonT(30) DEF SchedInv
<1>4. ThreadTypeOK
  BY <1>1 DEF ThreadTypeOK, Tids
<1>5. JoinerIsRegistered /\ FreesOnlyDeadThreads
  BY <1>2, ZenonT(30) DEF JoinerIsRegistered, AsleepInJoin, FreesOnlyDeadThreads
<1>6. ThreadInv
  BY <1>2 DEF ThreadInv, AsleepInJoin, JoinLabels, FoundLabels, Tids
<1> QED
  BY <1>3, <1>4, <1>5, <1>6, ZenonT(30) DEF ThreadIndInv

\* Every step of the program preserves the inductive invariant and follows
\* the state machine of the TCB.
LEMMA ThreadNextInv == ThreadIndInv /\ [ThreadNext]_threadSysVars => ThreadIndInv' /\ LifecycleStep
<1> SUFFICES ASSUME ThreadIndInv, [ThreadNext]_threadSysVars PROVE ThreadIndInv' /\ LifecycleStep
  OBVIOUS
<1>1. CASE (SchedNext \/ Preempt) /\ UNCHANGED threadVars
  BY <1>1, ThreadQuiet, ZenonT(30) DEF Preempt
<1>2. CASE ThreadStep
  BY <1>2, BirthStep, ReadStep, DeathStep, SleepStep, BurialStep, ZenonT(30) DEF ThreadStep,
     join_find
<1>3. CASE Main
  BY <1>3, BirthStep, BurialStep, RunInv, ZenonT(30) DEF Main
<1>4. CASE ThreadClient
  <2>0. {"user", "create_ret"} \subseteq Unmasked
    BY ZenonT(30) DEF Unmasked
  <2>1. CASE uth_create
    BY <2>0, <2>1, ThreadEntry, ZenonT(30) DEF uth_create, threadVars
  <2>2. CASE uth_exit
    BY <2>0, <2>2, ThreadEntry, ZenonT(30) DEF uth_exit, threadVars
  <2>3. ASSUME NEW u \in Tids, joiner[u] = NULL, uth_join(u)
        PROVE  ThreadIndInv' /\ LifecycleStep
    BY <2>0, <2>3, ThreadEntry, ZenonT(30) DEF uth_join
  <2>4. CASE uth_yield("user", "user") /\ UNCHANGED threadVars
    BY <2>0, <2>4, ThreadEntry, ZenonT(30) DEF uth_yield, threadVars
  <2> QED
    BY <1>4, <2>1, <2>2, <2>3, <2>4, ZenonT(30) DEF ThreadClient
<1>5. CASE UNCHANGED threadSysVars
  <2>1. UNCHANGED schedVars /\ UNCHANGED threadVars
    BY <1>5, ZenonT(30) DEF threadSysVars
  <2>2. SchedInv'
    BY <2>1, SchedStutter, ZenonT(30) DEF ThreadIndInv
  <2>3. ThreadTypeOK' /\ JoinerIsRegistered' /\ FreesOnlyDeadThreads'
    BY <2>1, <2>2, ZenonT(30) DEF ThreadIndInv, ThreadTypeOK, SchedInv, JoinerIsRegistered,
       AsleepInJoin, FreesOnlyDeadThreads, schedVars, threadVars
  <2>4. ThreadInv'
    BY <2>1, SMTT(30) DEF ThreadIndInv, ThreadInv, AsleepInJoin, Target, Place, OnCpu, schedVars,
       threadVars
  <2> QED
    BY <2>1, <2>2, <2>3, <2>4, ZenonT(30) DEF ThreadIndInv, LifecycleStep, schedVars
<1> QED
  BY <1>1, <1>2, <1>3, <1>4, <1>5, ZenonT(30) DEF ThreadNext, ThreadCpuStep

-----------------------------------------------------------------------------
\* ThreadIndInv holds in every reachable state.
THEOREM ThreadCorrect == ThreadSpec => []ThreadIndInv
BY ThreadInitInv, ThreadNextInv, PTL DEF ThreadSpec

\* uth_join never sleeps on a thread that will not wake it: the sleeper is
\* the registered joiner of a thread that is alive.
THEOREM ThreadJoins == ThreadSpec => []JoinerIsRegistered
<1>1. ThreadIndInv => JoinerIsRegistered
  BY ZenonT(30) DEF ThreadIndInv
<1> QED
  BY <1>1, ThreadCorrect, PTL

\* tcb_free is applied only to zombies that have left their stack.
THEOREM ThreadFrees == ThreadSpec => []FreesOnlyDeadThreads
<1>1. ThreadIndInv => FreesOnlyDeadThreads
  BY ZenonT(30) DEF ThreadIndInv
<1> QED
  BY <1>1, ThreadCorrect, PTL

\* A TCB is on at most one queue, and the assert of scheduler_loop holds, also
\* while threads are created, exit and are joined.
THEOREM ThreadQueues == ThreadSpec => []QueueDiscipline
<1>1. ThreadIndInv => QueueDiscipline
  BY ZenonT(30) DEF ThreadIndInv, SchedInv
<1> QED
  BY <1>1, ThreadCorrect, PTL

\* The signal mask is right at every label and in every saved context, also
\* in those that uth_create makes.
THEOREM ThreadMasks == ThreadSpec => []MaskDiscipline
<1>1. ThreadIndInv => MaskDiscipline
  BY ZenonT(30) DEF ThreadIndInv, SchedInv
<1> QED
  BY <1>1, ThreadCorrect, PTL

\* Every step follows the state machine of the TCB.
THEOREM ThreadLifecycle == ThreadSpec => Lifecycle
<1>1. ThreadIndInv /\ [ThreadNext]_threadSysVars => [LifecycleStep]_threadSysVars
  BY ThreadNextInv, ZenonT(30)
<1> QED
  BY <1>1, ThreadCorrect, PTL DEF ThreadSpec, Lifecycle

-----------------------------------------------------------------------------
(* Threads that also use other objects of the library.                     *)

\* A step of the running thread in a call on an object, which may put it to
\* sleep on the queue of the object and wake threads that sleep on one.
LEMMA SyncStep ==
  ASSUME ThreadIndInv, SchedInv', UNCHANGED threadVars, pc \in Unmasked \cup Sections,
         pc' \notin SchedLabels \cup JoinLabels, UNCHANGED <<uth_current, ctx>>,
         \A t \in Tids \ {uth_current} :
           /\ obj'[t] = obj[t] /\ frames'[t] = frames[t]
           /\ \/ state'[t] = state[t]
              \/ state[t] = "BLOCKED" /\ state'[t] = "READY" /\ obj[t] # "none",
         \/ state'[uth_current] = "RUNNING"
         \/ state'[uth_current] = "BLOCKED" /\ obj'[uth_current] # "none"
  PROVE  ThreadIndInv' /\ LifecycleStep
<1> DEFINE c == uth_current
<1> USE DEF threadVars
<1>1. /\ c \in Tids /\ state[c] = "RUNNING" /\ Place(c) = pc
      /\ \A t \in Tids : Place(t)' = IF t = c THEN pc' ELSE Place(t)
  BY ThreadCode, ZenonT(30) DEF ThreadIndInv
<1>2. FreesOnlyDeadThreads' /\ pc' # "join_find"
  BY ZenonT(30) DEF FreesOnlyDeadThreads, JoinLabels
<1>3. \A t \in Tids : state[t] = "NONE" => frames'[t] = <<>>
  BY <1>1 DEF ThreadIndInv, ThreadInv
<1>4. \A t \in Tids : AsleepInJoin(t) \/ state[t] \in {"ZOMBIE", "FREED"} => Place(t)' = Place(t)
  BY <1>1, ZenonT(30) DEF AsleepInJoin
<1>5. \A t \in Tids : /\ Place(t)' \in FoundLabels => target[t] \in Tids
                      /\ Place(t)' \in JoinLabels => obj'[t] = "none"
  BY <1>1 DEF ThreadIndInv, ThreadInv, FoundLabels
<1>6. \A t \in Tids : Place(t)' \in {"join_swap", "join_refind"} =>
        Place(t) \in {"join_swap", "join_refind"}
  BY <1>1, ZenonT(30) DEF JoinLabels
<1>7. target \in [Tids -> Tids \cup {NULL}]
  BY ZenonT(30) DEF ThreadIndInv, ThreadTypeOK
<1>8. ASSUME NEW t \in Tids
      PROVE  \/ state'[t] = state[t] /\ (state[t] = "BLOCKED" => obj'[t] = obj[t])
             \/ {state[t], state'[t]} \subseteq {"READY", "RUNNING"}
             \/ state[t] = "RUNNING" /\ state'[t] = "BLOCKED" /\ obj'[t] # "none"
             \/ state[t] = "BLOCKED" /\ state'[t] = "READY" /\ obj[t] # "none"
  BY <1>1, ZenonT(30)
<1> QED
  BY <1>2, <1>3, <1>4, <1>5, <1>6, <1>7, <1>8, LocalStep, ZenonT(30)

\* What other objects see of the steps of this module: thread t is in none of
\* their calls before and after the step, and does not sleep on one of them.
ExitLabels == {"exit_zombie", "exit_swap", "dead"}
CallLabels == JoinLabels \cup {"create_alloc"}
ThreadLabels == Preemptible \cup CallLabels \cup ExitLabels \cup {"leave", "yield_push"}

Apart(t) ==
  /\ {Place(t), Place(t)'} \subseteq ThreadLabels
  /\ obj'[t] = obj[t] \/ obj'[t] = "none"
  /\ state'[t] = "BLOCKED" => obj'[t] = "none"

\* Such a step that is not the entry of a call, either.
Moved(t) ==
  /\ Apart(t)
  /\ Place(t)' \in CallLabels => Place(t) \in CallLabels
  /\ Place(t)' \in ExitLabels => Place(t) \in ExitLabels
  /\ state'[t] = "NONE" => state[t] = "NONE"

\* The steps of uth_create, uth_exit and uth_join after the entry.
LEMMA ThreadMoves ==
  ASSUME ThreadIndInv, ThreadStep
  PROVE  /\ UNCHANGED waiters /\ pc \in ThreadLabels /\ pc' \in ThreadLabels
         /\ \A t \in Tids : Quiet(t) \/ Moved(t)
<1> DEFINE c == uth_current
<1> USE DEF ThreadIndInv
<1>0. ThreadLabels = {"user", "create_ret", "spin_tas", "spin_yield", "swapcontext", "join_find",
                      "join_swap", "join_refind", "join_collect", "create_alloc", "exit_zombie",
                      "exit_swap", "dead", "leave", "yield_push"}
  BY ZenonT(30) DEF ThreadLabels, CallLabels, JoinLabels, ExitLabels, Preemptible, Unmasked
<1>1. /\ UNCHANGED <<uth_current, waiters, obj, frames>>
      /\ pc \in {"create_alloc", "create_ret", "exit_zombie", "join_find", "join_refind", "join_collect"}
      /\ pc' \in {"leave", "user", "exit_swap", "join_swap", "join_collect"}
      /\ pc' \in CallLabels => pc \in CallLabels
      /\ pc' \in ExitLabels => pc \in ExitLabels
  BY ZenonT(30) DEF ThreadStep, create_alloc, create_fail, create_ret, exit_zombie, Zombie,
     join_find, join_found, join_register, join_refind, join_collect, Goto, CallLabels, JoinLabels,
     ExitLabels
<1>2. /\ c \in Tids /\ state[c] = "RUNNING" /\ Place(c) = pc
  BY <1>1, ThreadCode, ZenonT(30) DEF Unmasked, Sections
<1>3. Place(c)' = pc'
  BY <1>1, ZenonT(30) DEF Place, OnCpu, SchedLabels
<1>4. CASE create_alloc
  <2>1. /\ tcb_alloc /\ pc = "create_alloc" /\ pc' = "leave"
        /\ UNCHANGED <<uth_current, waiters, obj, frames, masked>>
    BY <1>4, ZenonT(30) DEF create_alloc
  <2>2. /\ state[next_tid] = "NONE"
        /\ \A t \in Tids : state'[t] = IF t = next_tid THEN "READY" ELSE state[t]
        /\ \A t \in Tids : Place(t)' = IF t = next_tid THEN "user"
                                       ELSE IF t = uth_current /\ OnCpu THEN "leave" ELSE Place(t)
        /\ next_tid \in Tids /\ c # next_tid
    BY <2>1, AllocStep, ZenonT(30)
  <2>3. Place(next_tid) \in Preemptible
    BY <2>2, ZenonT(30) DEF ThreadInv, SchedInv, FrameInv
  <2>4. \A t \in Tids : t = next_tid => Moved(t)
    BY <1>0, <1>1, <2>2, <2>3, ZenonT(30) DEF Moved, Apart, Preemptible, Unmasked, CallLabels,
       JoinLabels, ExitLabels
  <2>5. Moved(c)
    BY <1>0, <1>1, <1>2, <1>3, <2>2, ZenonT(30) DEF Moved, Apart
  <2>6. \A t \in Tids \ {c, next_tid} : Quiet(t)
    BY <1>1, <2>2, ZenonT(30) DEF Quiet
  <2> QED
    BY <1>0, <1>1, <2>4, <2>5, <2>6, ZenonT(30)
<1>5. CASE ~create_alloc
  <2>1. UNCHANGED ctx
    BY <1>5, ZenonT(30) DEF ThreadStep, create_fail, create_ret, exit_zombie, Zombie, join_find,
       join_found, join_register, join_refind, join_collect, Goto
  <2>2. \A t \in Tids \ {c} : Place(t)' = Place(t)
    BY <1>1, <2>1, ZenonT(30) DEF Place
  <2>3. /\ \A t \in Tids \ {c} : \/ state'[t] = state[t]
                                 \/ AsleepInJoin(t) /\ state'[t] = "READY"
                                 \/ state[t] = "ZOMBIE" /\ state'[t] = "FREED"
        /\ state'[c] # "NONE" /\ (state'[c] = "BLOCKED" => obj[c] = "none")
    <3>1. CASE create_fail \/ create_ret \/ join_refind \/ (join_find /\ join_found)
      BY <1>2, <3>1, ZenonT(30) DEF create_fail, create_ret, join_refind, join_found, Goto
    <3>2. CASE exit_zombie
      <4>1. joiner[c] # NULL => joiner[c] \in Tids /\ AsleepInJoin(joiner[c])
        BY <1>2 DEF ThreadInv, ThreadTypeOK
      <4>2. \/ joiner[c] = NULL /\ state' = [state EXCEPT ![c] = "ZOMBIE"]
            \/ joiner[c] # NULL /\ state' = [state EXCEPT ![c] = "ZOMBIE", ![joiner[c]] = "READY"]
        BY <3>2, ZenonT(30) DEF exit_zombie, Zombie
      <4> QED
        BY <1>2, <4>1, <4>2, ZenonT(30) DEF SchedInv, SchedTypeOK
    <3>3. CASE join_find /\ join_register /\ uth_block_noqueue
      <4>1. pc = "join_find" /\ state' = [state EXCEPT ![c] = "BLOCKED"]
        BY <3>3, ZenonT(30) DEF join_find, uth_block_noqueue
      <4>2. obj[c] = "none"
        BY <1>2, <4>1, ZenonT(30) DEF ThreadInv, JoinLabels
      <4> QED
        BY <1>2, <4>1, <4>2, ZenonT(30) DEF SchedInv, SchedTypeOK
    <3>4. CASE join_collect
      <4>1. pc = "join_collect" /\ state' = [state EXCEPT ![target[c]] = "FREED"]
        BY <3>4, ZenonT(30) DEF join_collect, Target
      <4>2. state[target[c]] = "ZOMBIE" /\ target[c] \in Tids
        BY <1>2, <4>1, ZenonT(30) DEF FreesOnlyDeadThreads, ThreadInv, FoundLabels, JoinLabels
      <4> QED
        BY <1>2, <4>1, <4>2, ZenonT(30) DEF SchedInv, SchedTypeOK
    <3> QED
      BY <1>5, <3>1, <3>2, <3>3, <3>4, ZenonT(30) DEF ThreadStep, join_find
  <2>4. Moved(c)
    BY <1>0, <1>1, <1>2, <1>3, <2>3, ZenonT(30) DEF Moved, Apart
  <2>5. ASSUME NEW t \in Tids \ {c} PROVE Quiet(t) \/ Moved(t)
    <3>1. CASE state'[t] = state[t]
      BY <1>1, <2>2, <3>1, ZenonT(30) DEF Quiet
    <3>2. CASE AsleepInJoin(t) /\ state'[t] = "READY"
      BY <1>0, <1>1, <2>2, <3>2, SMTT(30) DEF Moved, Apart, ThreadInv
    <3>3. CASE state[t] = "ZOMBIE" /\ state'[t] = "FREED"
      BY <1>0, <1>1, <2>2, <3>3, SMTT(30) DEF Moved, Apart, ThreadInv
    <3> QED
      BY <2>3, <3>1, <3>2, <3>3, ZenonT(30)
  <2> QED
    BY <1>0, <1>1, <2>4, <2>5, ZenonT(30)
<1> QED
  BY <1>4, <1>5, ZenonT(30)

\* main: it is no thread.
LEMMA MainMoves ==
  ASSUME ThreadIndInv, main_create \/ uth_run \/ uth_run_returns
  PROVE  /\ UNCHANGED waiters /\ {pc, pc'} \subseteq {"main", "loop"}
         /\ \A t \in Tids : Quiet(t) \/ Moved(t)
<1> USE DEF ThreadIndInv
<1>1. CASE main_create
  <2>1. /\ tcb_alloc /\ pc = "main" /\ pc' = "main"
        /\ UNCHANGED <<uth_current, waiters, obj, frames, masked>>
    BY <1>1, ZenonT(30) DEF main_create
  <2>2. /\ state[next_tid] = "NONE" /\ next_tid \in Tids
        /\ \A t \in Tids : state'[t] = IF t = next_tid THEN "READY" ELSE state[t]
        /\ \A t \in Tids : Place(t)' = IF t = next_tid THEN "user"
                                       ELSE IF t = uth_current /\ OnCpu THEN "leave" ELSE Place(t)
    BY <2>1, AllocStep, ZenonT(30)
  <2>3. ~OnCpu
    BY <2>1, ZenonT(30) DEF OnCpu, SchedLabels
  <2>4. Place(next_tid) \in Preemptible
    BY <2>2, ZenonT(30) DEF ThreadInv, SchedInv, FrameInv
  <2>5. \A t \in Tids : t = next_tid => Moved(t)
    BY <2>1, <2>2, <2>4, ZenonT(30) DEF Moved, Apart, ThreadLabels, Preemptible, Unmasked,
       CallLabels, JoinLabels, ExitLabels
  <2>6. \A t \in Tids \ {next_tid} : Quiet(t)
    BY <2>1, <2>2, <2>3, ZenonT(30) DEF Quiet
  <2> QED
    BY <2>1, <2>5, <2>6, ZenonT(30)
<1>2. CASE uth_run \/ uth_run_returns
  <2>1. /\ UNCHANGED <<rq, state, ctx, waiters, obj, frames>>
        /\ \A t \in Tids : Place(t)' = Place(t)
    BY <1>2, RunStep, ZenonT(30)
  <2>2. {pc, pc'} \subseteq {"main", "loop"}
    BY <1>2, ZenonT(30) DEF uth_run, uth_run_returns
  <2> QED
    BY <2>1, <2>2, ZenonT(30) DEF Quiet
<1> QED
  BY <1>1, <1>2, ZenonT(30)

\* The entry of a call: every other thread stays where it is.
LEMMA EntryMoves ==
  ASSUME SchedInv, NEW from \in Unmasked, NEW o \in Objs \cup {"none"}, NEW ret,
         NEW l \in Sections, Enter(from, o, ret, l)
  PROVE  /\ UNCHANGED <<waiters, state>> /\ pc = from /\ pc' = l
         /\ uth_current' = uth_current /\ uth_current \in Tids /\ state[uth_current] = "RUNNING"
         /\ Place(uth_current) = from /\ Place(uth_current)' = l /\ obj'[uth_current] = o
         /\ \A t \in Tids \ {uth_current} :
              /\ Place(t)' = Place(t) /\ obj'[t] = obj[t] /\ state'[t] = state[t]
              /\ frames'[t] = frames[t] /\ Quiet(t)
<1> DEFINE c == uth_current
<1>1. /\ pc = from /\ pc' = l /\ obj' = [obj EXCEPT ![c] = o]
      /\ \E f : frames' = [frames EXCEPT ![c] = f]
      /\ UNCHANGED <<uth_current, state, ctx, waiters>>
  BY ZenonT(30) DEF Enter, uth_preempt_off
<1>2. l \notin SchedLabels
  BY ZenonT(30) DEF Sections, SchedLabels
<1>3. /\ c \in Tids /\ state[c] = "RUNNING" /\ Place(c) = from
      /\ \A t \in Tids : Place(t)' = IF t = c THEN l ELSE Place(t)
  BY <1>1, <1>2, ThreadCode, ZenonT(30)
<1>4. \A t \in Tids \ {c} : frames'[t] = frames[t] /\ obj'[t] = obj[t]
  BY <1>1, <1>3, ZenonT(30) DEF SchedInv, SchedTypeOK
<1>5. obj'[c] = o
  BY <1>1, <1>3, ZenonT(30) DEF SchedInv, SchedTypeOK
<1> QED
  BY <1>1, <1>3, <1>4, <1>5, ZenonT(30) DEF Quiet

-----------------------------------------------------------------------------
(* The programs of examples/: driver(), main() and thread_trampoline.      *)

\* A thread does not get into uth_create, uth_join or uth_exit, or out of the
\* table.
Stays(t) ==
  /\ Place(t)' \in CallLabels => Place(t) \in CallLabels
  /\ Place(t)' \in ExitLabels => Place(t) \in ExitLabels
  /\ state'[t] = "NONE" => state[t] = "NONE"

\* The steps of the scheduler, and of the calls after their entry, are such.
LEMMA MovedStays ==
  ASSUME NEW t \in Tids, Quiet(t) \/ Moved(t)
  PROVE  Stays(t)
<1>1. CASE Quiet(t)
  BY <1>1, SwapLemma, ZenonT(30) DEF Stays, Quiet, CallLabels, JoinLabels, ExitLabels, Preemptible,
     Unmasked, ReturnLabels
<1>2. CASE Moved(t)
  BY <1>2, ZenonT(30) DEF Stays, Moved
<1> QED
  BY <1>1, <1>2, ZenonT(30)

\* A step of the library leaves what holds of the driver alone.
LEMMA LibraryFrame ==
  ASSUME ProgramTypeOK, ProgramInv, UNCHANGED <<line, count, tids>>,
         arg' \in [Tids -> Indices], target'[Driver] # Driver,
         \A t \in Tids : Stays(t)
  PROVE  ProgramTypeOK' /\ ProgramInv'
<1>1. ProgramTypeOK'
  BY ZenonT(30) DEF ProgramTypeOK
<1>2. ProgramInv'
  BY ZenonT(30) DEF Stays, ProgramInv, CallLabels, ExitLabels
<1> QED
  BY <1>1, <1>2, ZenonT(30)

\* A line of a function of the program, executed by the running thread.
LEMMA LineFrame ==
  ASSUME ThreadIndInv, ProgramTypeOK, ProgramInv, NEW l, NEW next, Line(l, next),
         uth_current' = uth_current, state'[uth_current] = "RUNNING",
         \A t \in Tids \ {uth_current} : Place(t)' = Place(t) /\ state'[t] = state[t],
         count' \in [Tids -> Int], count'[Driver] \in Indices, arg' = arg,
         tids' \in [Indices -> (Tids \cup {NULL}) \ {Driver}],
         target'[Driver] # Driver,
         IF uth_current = Driver THEN next \in {"create", "store", "join", "return"}
                                 ELSE next \notin {"create", "store", "join"},
         Place(uth_current)' \in CallLabels => uth_current = Driver,
         Place(uth_current)' \in ExitLabels => next = "return"
  PROVE  ProgramTypeOK' /\ ProgramInv'
<1> DEFINE c == uth_current
<1>1. c \in Tids /\ state[c] = "RUNNING" /\ Driver \in Tids
  BY ThreadCode, ProgramAssumption DEF ThreadIndInv, Line, Unmasked, Driver, Tids
<1>2. \A t \in Tids : line'[t] = IF t = c THEN next ELSE line[t]
  BY <1>1, ZenonT(30) DEF Line, Me, ProgramTypeOK
<1>3. ProgramTypeOK'
  <2>1. DOMAIN line' = Tids
    BY ZenonT(30) DEF ProgramTypeOK, Line
  <2>2. tids' \in [Indices -> Tids \cup {NULL}]
    OBVIOUS
  <2>3. arg' \in [Tids -> Indices]
    BY ZenonT(30) DEF ProgramTypeOK
  <2> QED
    BY <2>1, <2>2, <2>3, ZenonT(30) DEF ProgramTypeOK
<1>4. ProgramInv'
  <2>1. /\ line'[Driver] \in {"create", "store", "join", "return"}
        /\ \A t \in Tids \ {Driver} : line'[t] \notin {"create", "store", "join"}
    BY <1>1, <1>2, ZenonT(30) DEF ProgramInv
  <2>2. \A t \in Tids : Place(t)' \in CallLabels => t = Driver
    BY ZenonT(30) DEF ProgramInv, CallLabels
  <2>3. \A t \in Tids : Place(t)' \in ExitLabels => line'[t] = "return"
    BY <1>2, ZenonT(30) DEF ProgramInv, ExitLabels
  <2>4. \A t \in Tids \ {Driver} : state'[t] = "NONE" => line'[t] = "start"
    BY <1>2, ZenonT(30) DEF ProgramInv
  <2>5. \A i \in Indices : tids'[i] # Driver
    OBVIOUS
  <2> QED
    BY <2>1, <2>2, <2>3, <2>4, <2>5, ZenonT(30) DEF ProgramInv, CallLabels, ExitLabels
<1> QED
  BY <1>3, <1>4, ZenonT(30)

\* What the synchronisation objects and the functions of the threads see of a
\* step of Program.
ProgramFrame ==
  /\ UNCHANGED waiters
  /\ pc \in QuietFrom \cup ThreadLabels /\ pc' \in QuietTo \cup ThreadLabels
  /\ \A t \in Tids : Quiet(t) \/ Apart(t)
  /\ \A t \in Tids \ {Driver} : line'[t] = line[t] /\ count'[t] = count[t]
  /\ \A t \in Tids : arg'[t] = arg[t] \/ state[t] = "NONE"

\* driver() does not join a thread that has a joiner: it is the only joiner.
LEMMA OnlyJoiner ==
  ASSUME ThreadIndInv, ProgramInv, uth_current = Driver, state[Driver] = "RUNNING", NEW u \in Tids
  PROVE  joiner[u] = NULL
<1> SUFFICES ASSUME joiner[u] # NULL PROVE FALSE
  BY ZenonT(30)
<1>1. joiner[u] \in Tids /\ AsleepInJoin(joiner[u])
  BY DEF ThreadIndInv, ThreadInv, ThreadTypeOK
<1>2. joiner[u] = Driver
  BY <1>1, SMTT(30) DEF ThreadIndInv, ThreadInv, ProgramInv, JoinLabels
<1> QED
  BY <1>1, <1>2, ZenonT(30) DEF AsleepInJoin

\* The steps of the library.
LEMMA LibraryInv ==
  ASSUME ThreadIndInv, ProgramTypeOK, ProgramInv,
         LibraryStep \/ (uth_preempt_handler /\ UNCHANGED <<threadVars, programVars>>)
  PROVE  ThreadIndInv' /\ LifecycleStep /\ ProgramTypeOK' /\ ProgramInv' /\ ProgramFrame
<1> USE ProgramAssumption DEF programVars, threadVars
<1> DEFINE c == uth_current
<1>0. Driver \in Tids /\ Driver # NULL
  BY DEF Driver, Tids, NULL
<1>1. CASE (SchedNext \/ uth_preempt_handler) /\ UNCHANGED <<threadVars, programVars>>
  <2>1. ThreadIndInv' /\ LifecycleStep
    BY <1>1, ThreadQuiet, ZenonT(30)
  <2>2. /\ UNCHANGED waiters /\ pc \in QuietFrom /\ pc' \in QuietTo
        /\ \A t \in Tids : Quiet(t)
    BY <1>1, HandlerSteps, ZenonT(30) DEF ThreadIndInv
  <2>3. arg \in [Tids -> Indices] /\ target[Driver] # Driver
    BY ZenonT(30) DEF ProgramTypeOK, ProgramInv
  <2>4. ProgramTypeOK' /\ ProgramInv'
    BY <1>1, <2>2, <2>3, MovedStays, LibraryFrame, ZenonT(30)
  <2> QED
    BY <1>1, <2>1, <2>2, <2>4, ZenonT(30) DEF ProgramFrame
<1>2. CASE start_thread
  <2>1. /\ create_alloc /\ tcb_alloc /\ pc = "create_alloc" /\ pc' = "leave"
        /\ target' = [target EXCEPT ![c] = next_tid]
        /\ UNCHANGED <<uth_current, waiters, obj, frames, masked, line, count, tids>>
        /\ arg' = [arg EXCEPT ![next_tid] = count[c]]
    BY <1>2, ZenonT(30) DEF start_thread, create_alloc, Me
  <2>2. ThreadIndInv' /\ LifecycleStep
    BY <2>1, BirthStep, ZenonT(30)
  <2>3. /\ UNCHANGED waiters /\ pc \in ThreadLabels /\ pc' \in ThreadLabels
        /\ \A t \in Tids : Quiet(t) \/ Moved(t)
    BY <2>1, ThreadMoves, ZenonT(30) DEF ThreadStep
  <2>4. next_tid \in Tids /\ state[next_tid] = "NONE" /\ c # next_tid
    BY <2>1, AllocStep, ZenonT(30) DEF ThreadIndInv
  <2>5. c = Driver
    <3>1. c \in Tids /\ Place(c) = "create_alloc"
      BY <2>1, ThreadCode, ZenonT(30) DEF ThreadIndInv, Sections
    <3> QED
      BY <3>1, ZenonT(30) DEF ProgramInv
  <2>6. /\ arg' \in [Tids -> Indices] /\ target'[Driver] # Driver
        /\ \A t \in Tids : arg'[t] = arg[t] \/ state[t] = "NONE"
    BY <1>0, <2>1, <2>4, <2>5, ZenonT(30) DEF ProgramTypeOK, ProgramInv, ThreadIndInv, ThreadTypeOK
  <2>7. ProgramTypeOK' /\ ProgramInv'
    BY <2>1, <2>3, <2>6, MovedStays, LibraryFrame, ZenonT(30)
  <2> QED
    BY <2>1, <2>2, <2>3, <2>6, <2>7, ZenonT(30) DEF ProgramFrame, Moved
<1>3. CASE /\ create_fail \/ create_ret \/ exit_zombie \/ join_find \/ join_refind \/ join_collect
           /\ UNCHANGED programVars
  <2>1. ThreadIndInv' /\ LifecycleStep
    BY <1>3, ReadStep, DeathStep, SleepStep, BurialStep, ZenonT(30) DEF join_find
  <2>2. /\ UNCHANGED waiters /\ pc \in ThreadLabels /\ pc' \in ThreadLabels
        /\ \A t \in Tids : Quiet(t) \/ Moved(t)
    BY <1>3, ThreadMoves, ZenonT(30) DEF ThreadStep
  <2>3. target'[Driver] # Driver
    <3>1. target' = target \/ target' = [target EXCEPT ![c] = NULL]
      BY <1>3, ZenonT(30) DEF create_fail, create_ret, exit_zombie, Zombie, join_find, join_found,
         join_register, join_refind, join_collect
    <3> QED
      BY <1>0, <3>1, ZenonT(30) DEF ProgramInv, ThreadIndInv, ThreadTypeOK
  <2>4. arg \in [Tids -> Indices]
    BY ZenonT(30) DEF ProgramTypeOK
  <2>5. ProgramTypeOK' /\ ProgramInv'
    BY <1>3, <2>2, <2>3, <2>4, MovedStays, LibraryFrame, ZenonT(30)
  <2> QED
    BY <1>3, <2>1, <2>2, <2>5, ZenonT(30) DEF ProgramFrame, Moved
<1> QED
  BY <1>1, <1>2, <1>3, ZenonT(30) DEF LibraryStep

\* main().
LEMMA MainInv ==
  ASSUME ThreadIndInv, ProgramTypeOK, ProgramInv,
         main_create \/ uth_run \/ uth_run_returns, UNCHANGED programVars
  PROVE  ThreadIndInv' /\ LifecycleStep /\ ProgramTypeOK' /\ ProgramInv' /\ ProgramFrame
<1> USE DEF programVars, threadVars
<1>1. /\ main_create \/ uth_run \/ uth_run_returns
      /\ UNCHANGED programVars /\ target' = target
  BY ZenonT(30) DEF main_create, uth_run, uth_run_returns
<1>2. ThreadIndInv' /\ LifecycleStep
  BY <1>1, BirthStep, RunInv, ZenonT(30)
<1>3. /\ UNCHANGED waiters /\ {pc, pc'} \subseteq {"main", "loop"}
      /\ \A t \in Tids : Quiet(t) \/ Moved(t)
  BY <1>1, MainMoves, ZenonT(30)
<1>4. arg \in [Tids -> Indices] /\ target[Driver] # Driver
  BY ZenonT(30) DEF ProgramTypeOK, ProgramInv
<1>5. ProgramTypeOK' /\ ProgramInv'
  BY <1>1, <1>3, <1>4, MovedStays, LibraryFrame, ZenonT(30)
<1>6. pc \in QuietFrom /\ pc' \in QuietTo
  BY <1>3, ZenonT(30) DEF QuietFrom, QuietTo, SchedLabels
<1> QED
  BY <1>1, <1>2, <1>3, <1>5, <1>6, ZenonT(30) DEF ProgramFrame, Moved

\* driver(), and the return of every function.
LEMMA DriverInv ==
  ASSUME ThreadIndInv, ProgramTypeOK, ProgramInv, driver \/ return
  PROVE  ThreadIndInv' /\ LifecycleStep /\ ProgramTypeOK' /\ ProgramInv' /\ ProgramFrame
<1> USE ProgramAssumption DEF threadVars
<1> DEFINE c == uth_current
           n == (count[c] + 1) % NThreads
<1>0. /\ Driver \in Tids /\ Driver # NULL /\ {"user", "create_ret"} \subseteq Unmasked
      /\ {"create_alloc", "join_find", "exit_zombie"} \subseteq Sections /\ "none" \in Objs \cup {"none"}
      /\ {"user", "create_alloc", "join_find", "exit_zombie"} \subseteq ThreadLabels
      /\ "create_alloc" \notin ExitLabels /\ "join_find" \notin ExitLabels
      /\ "exit_zombie" \notin CallLabels /\ "user" \notin ExitLabels \cup CallLabels
  BY DEF Driver, Tids, NULL, Unmasked, Sections, ThreadLabels, CallLabels, JoinLabels, ExitLabels,
     Preemptible
<1>1. /\ tids \in [Indices -> (Tids \cup {NULL}) \ {Driver}] /\ target[Driver] \in (Tids \cup {NULL}) \ {Driver}
      /\ count \in [Tids -> Int] /\ count[Driver] \in Indices /\ arg \in [Tids -> Indices]
      /\ DOMAIN line = Tids /\ SchedInv
  BY <1>0, ZenonT(30) DEF ProgramTypeOK, ProgramInv, ThreadIndInv, ThreadTypeOK
<1>2. pc = "user" /\ c \in Tids /\ state[c] = "RUNNING" /\ Place(c) = "user"
  <2>1. pc = "user"
    BY ZenonT(30) DEF driver, driver_create, driver_store, driver_join, return, Line
  <2> QED
    BY <1>0, <1>1, <2>1, ThreadCode, ZenonT(30)
<1>3. c = Driver => n \in Indices
  <2>1. ASSUME NEW k \in Int PROVE k % NThreads \in 0 .. NThreads - 1
    BY Z3
  <2>2. count[c] + 1 \in Int
    BY <1>1, <1>2, SMTT(30)
  <2> QED
    BY <2>1, <2>2, ZenonT(30) DEF Indices
<1> HIDE DEF n
<1>4. ASSUME NEW ret \in Unmasked, NEW l \in {"create_alloc", "join_find", "exit_zombie"},
             Enter("user", "none", ret, l), arg' = arg, NEW L, NEW next, Line(L, next),
             c = Driver \/ (next = L /\ count' = count), count' = count \/ count' = [count EXCEPT ![c] = n]
      PROVE  /\ uth_current' = c /\ state'[c] = "RUNNING" /\ Place(c)' = l
             /\ \A t \in Tids \ {c} : Place(t)' = Place(t) /\ state'[t] = state[t]
             /\ ProgramFrame
  <2>1. /\ UNCHANGED <<waiters, state>> /\ pc' = l /\ uth_current' = c
        /\ Place(c)' = l /\ obj'[c] = "none"
        /\ \A t \in Tids \ {c} : Place(t)' = Place(t) /\ state'[t] = state[t] /\ Quiet(t)
    BY <1>0, <1>1, <1>4, EntryMoves, ZenonT(30)
  <2>2. Apart(c)
    BY <1>0, <1>2, <2>1, ZenonT(30) DEF Apart
  <2>3. \A t \in Tids \ {Driver} : line'[t] = line[t] /\ count'[t] = count[t]
    BY <1>1, <1>2, <1>4, ZenonT(30) DEF Line, Me
  <2> QED
    BY <1>0, <1>2, <1>4, <2>1, <2>2, <2>3, ZenonT(30) DEF ProgramFrame
<1>5. CASE driver_create
  <2>1. /\ c = Driver /\ Line("create", "store") /\ Enter("user", "none", "create_ret", "create_alloc")
        /\ UNCHANGED <<threadVars, count, arg, tids>>
    BY <1>5, ZenonT(30) DEF driver_create, uth_create, Me
  <2>2. ThreadIndInv' /\ LifecycleStep
    BY <1>0, <2>1, ThreadEntry, ZenonT(30)
  <2>3. /\ uth_current' = c /\ state'[c] = "RUNNING" /\ Place(c)' = "create_alloc"
        /\ \A t \in Tids \ {c} : Place(t)' = Place(t) /\ state'[t] = state[t]
        /\ ProgramFrame
    BY <1>0, <1>4, <2>1, ZenonT(30)
  <2>4. ProgramTypeOK' /\ ProgramInv'
    BY <1>0, <1>1, <2>1, <2>3, LineFrame, ZenonT(30)
  <2> QED
    BY <2>2, <2>3, <2>4, ZenonT(30)
<1>6. CASE driver_store
  <2>1. /\ c = Driver
        /\ \E next \in {"join", "create"} : Line("store", next)
        /\ tids' = [tids EXCEPT ![count[c]] = target[c]]
        /\ count' = [count EXCEPT ![c] = n]
        /\ UNCHANGED <<schedVars, threadVars, arg>>
    BY <1>2, <1>6, ZenonT(30) DEF driver_store, Line, Me, ProgramInv, n
  <2>2. ThreadIndInv' /\ LifecycleStep
    BY <2>1, ThreadNextInv, ZenonT(30) DEF threadSysVars
  <2>3. /\ uth_current' = c /\ state'[c] = "RUNNING" /\ Place(c)' = "user"
        /\ \A t \in Tids : Place(t)' = Place(t) /\ state'[t] = state[t]
    BY <1>2, <2>1, ZenonT(30) DEF schedVars, Place, OnCpu
  <2>4. /\ tids' \in [Indices -> (Tids \cup {NULL}) \ {Driver}]
        /\ count' \in [Tids -> Int] /\ count'[Driver] \in Indices
    BY <1>1, <1>2, <1>3, <2>1, SMTT(30) DEF Indices
  <2>5. target'[Driver] # Driver
    BY <1>1, <2>1, ZenonT(30)
  <2>6. ProgramTypeOK' /\ ProgramInv'
    BY <1>0, <2>1, <2>3, <2>4, <2>5, LineFrame, ZenonT(30)
  <2>7. \A t \in Tids : Quiet(t)
    BY <2>1, <2>3, ZenonT(30) DEF Quiet, schedVars
  <2>8. /\ \A t \in Tids \ {Driver} : line'[t] = line[t] /\ count'[t] = count[t]
        /\ waiters' = waiters /\ pc' = pc
    BY <1>1, <1>2, <2>1, ZenonT(30) DEF Line, Me, schedVars
  <2> QED
    BY <1>0, <1>2, <2>1, <2>2, <2>6, <2>7, <2>8, ZenonT(30) DEF ProgramFrame
<1>7. CASE driver_join
  <2>1. /\ c = Driver
        /\ \E next \in {"join", "return"} : Line("join", next)
        /\ Enter("user", "none", "user", "join_find")
        /\ target' = [target EXCEPT ![c] = tids[count[c]]]
        /\ count' = [count EXCEPT ![c] = n]
        /\ UNCHANGED <<next_tid, joiner, arg, tids>>
    BY <1>2, <1>7, ZenonT(30) DEF driver_join, uth_join, Line, Me, ProgramInv, n
  <2>2. tids[count[c]] \in (Tids \cup {NULL}) \ {Driver}
    BY <1>1, <2>1, ZenonT(30)
  <2>3. tids[count[c]] # NULL => joiner[tids[count[c]]] = NULL
    BY <1>2, <2>1, <2>2, OnlyJoiner, ZenonT(30)
  <2>4. ThreadIndInv' /\ LifecycleStep
    BY <1>0, <2>1, <2>2, <2>3, ThreadEntry, ZenonT(30)
  <2>5. /\ uth_current' = c /\ state'[c] = "RUNNING" /\ Place(c)' = "join_find"
        /\ \A t \in Tids \ {c} : Place(t)' = Place(t) /\ state'[t] = state[t]
        /\ ProgramFrame
    BY <1>0, <1>4, <2>1, ZenonT(30)
  <2>6. /\ count' \in [Tids -> Int] /\ count'[Driver] \in Indices /\ target'[Driver] # Driver
    <3>1. DOMAIN target = Tids
      BY ZenonT(30) DEF ThreadIndInv, ThreadTypeOK
    <3>2. n \in Int
      BY <1>3, <2>1 DEF Indices
    <3> QED
      BY <1>0, <1>1, <1>3, <2>1, <2>2, <3>1, <3>2, ZenonT(30)
  <2>7. ProgramTypeOK' /\ ProgramInv'
    BY <1>0, <1>1, <2>1, <2>5, <2>6, LineFrame, ZenonT(30)
  <2> QED
    BY <2>4, <2>5, <2>7, ZenonT(30)
<1>8. CASE return
  <2>1. /\ Line("return", "return") /\ Enter("user", "none", "user", "exit_zombie")
        /\ UNCHANGED <<threadVars, count, arg, tids>>
    BY <1>8, ZenonT(30) DEF return, uth_exit
  <2>2. ThreadIndInv' /\ LifecycleStep
    BY <1>0, <2>1, ThreadEntry, ZenonT(30)
  <2>3. /\ uth_current' = c /\ state'[c] = "RUNNING" /\ Place(c)' = "exit_zombie"
        /\ \A t \in Tids \ {c} : Place(t)' = Place(t) /\ state'[t] = state[t]
        /\ ProgramFrame
    BY <1>0, <1>4, <2>1, ZenonT(30)
  <2>4. ProgramTypeOK' /\ ProgramInv'
    BY <1>0, <1>1, <2>1, <2>3, LineFrame, ZenonT(30)
  <2> QED
    BY <2>2, <2>3, <2>4, ZenonT(30)
<1> QED
  BY <1>5, <1>6, <1>7, <1>8, ZenonT(30) DEF driver

\* Every step that the programs share.
LEMMA ProgramStepInv ==
  ASSUME ThreadIndInv, ProgramTypeOK, ProgramInv,
         ProgramStep \/ (Preempt /\ UNCHANGED <<threadVars, programVars>>)
  PROVE  ThreadIndInv' /\ LifecycleStep /\ ProgramTypeOK' /\ ProgramInv' /\ ProgramFrame
BY LibraryInv, DriverInv, MainInv, ZenonT(30) DEF ProgramStep, main, Preempt

\* The initial state of a program.
LEMMA ProgramInitInv == ProgramInit => ThreadIndInv /\ ProgramTypeOK /\ ProgramInv
<1> SUFFICES ASSUME ProgramInit PROVE ThreadIndInv /\ ProgramTypeOK /\ ProgramInv
  OBVIOUS
<1> USE ProgramAssumption DEF ProgramInit
<1>1. ThreadIndInv
  BY ThreadInitInv, ZenonT(30)
<1>2. Driver \in Tids /\ 0 \in Indices /\ NULL # Driver
  BY DEF Driver, Tids, Indices, NULL
<1>3. ProgramTypeOK
  BY <1>2 DEF ProgramTypeOK
<1>4. \A t \in Tids : Place(t) = "user" /\ target[t] = NULL
  BY ZenonT(30) DEF ThreadInit, Place, OnCpu, SchedLabels, NewContext
<1>5. ProgramInv
  BY <1>2, <1>4, ZenonT(30) DEF ProgramInv, JoinLabels
<1> QED
  BY <1>1, <1>3, <1>5, ZenonT(30)

\* A call of a thread function on an object of the library.
LEMMA UserCall ==
  ASSUME ThreadIndInv, ProgramTypeOK, ProgramInv, NEW l, NEW next, Line(l, next),
         uth_current # Driver, next \notin {"create", "store", "join"},
         NEW o \in Objs \cup {"none"}, NEW e \in Sections \ (CallLabels \cup ExitLabels),
         Enter("user", o, "user", e), UNCHANGED <<threadVars, arg, tids>>,
         NEW k \in Int, count' = [count EXCEPT ![uth_current] = k]
  PROVE  /\ ThreadIndInv' /\ LifecycleStep /\ ProgramTypeOK' /\ ProgramInv'
         /\ UNCHANGED <<uth_current, waiters, state>> /\ pc = "user" /\ pc' = e
         /\ uth_current \in Tids /\ Place(uth_current) = "user" /\ Place(uth_current)' = e
         /\ obj'[uth_current] = o /\ line[uth_current] = l /\ line'[uth_current] = next
         /\ \A t \in Tids \ {uth_current} :
              Place(t)' = Place(t) /\ obj'[t] = obj[t] /\ line'[t] = line[t]
<1> DEFINE c == uth_current
<1> USE DEF threadVars
<1>1. /\ SchedInv /\ "user" \in Unmasked /\ "user" \in ReturnLabels /\ Driver \in Tids
      /\ e \in Sections /\ e \notin SchedLabels \cup JoinLabels
  BY ProgramAssumption, SMTT(30) DEF ThreadIndInv, Unmasked, ReturnLabels, Driver, Tids, Sections,
     SchedLabels, CallLabels
<1>2. /\ UNCHANGED <<uth_current, waiters, state>> /\ pc = "user" /\ pc' = e
      /\ c \in Tids /\ state[c] = "RUNNING" /\ Place(c) = "user" /\ Place(c)' = e /\ obj'[c] = o
      /\ \A t \in Tids \ {c} : /\ Place(t)' = Place(t) /\ obj'[t] = obj[t] /\ state'[t] = state[t]
                               /\ frames'[t] = frames[t]
  BY <1>1, EntryMoves, ZenonT(30)
<1>3. SchedInv'
  BY <1>1, EnterStep, ZenonT(30)
<1>4. ctx' = ctx
  BY ZenonT(30) DEF Enter
<1>5. ThreadIndInv' /\ LifecycleStep
  BY <1>1, <1>2, <1>3, <1>4, SyncStep, ZenonT(30)
<1>6. /\ tids' \in [Indices -> (Tids \cup {NULL}) \ {Driver}] /\ target'[Driver] # Driver
      /\ count' \in [Tids -> Int] /\ count'[Driver] \in Indices
  BY <1>1, <1>2, ZenonT(30) DEF ProgramTypeOK, ProgramInv
<1>7. ProgramTypeOK' /\ ProgramInv'
  BY <1>1, <1>2, <1>6, LineFrame, ZenonT(30)
<1>8. line[c] = l /\ line'[c] = next /\ \A t \in Tids \ {c} : line'[t] = line[t]
  BY <1>2, ZenonT(30) DEF Line, Me, ProgramTypeOK
<1> QED
  BY <1>2, <1>5, <1>7, <1>8, ZenonT(30)

\* A line of a thread function that makes no call.
LEMMA UserLine ==
  ASSUME ThreadIndInv, ProgramTypeOK, ProgramInv, NEW l, NEW next, Local(l, next),
         uth_current # Driver, next \notin {"create", "store", "join"},
         NEW k \in Int, count' = [count EXCEPT ![uth_current] = k]
  PROVE  /\ ThreadIndInv' /\ LifecycleStep /\ ProgramTypeOK' /\ ProgramInv'
         /\ UNCHANGED <<schedVars, threadVars, arg>> /\ pc = "user"
         /\ uth_current \in Tids /\ Place(uth_current) = "user"
         /\ line[uth_current] = l /\ line'[uth_current] = next
         /\ \A t \in Tids : Place(t)' = Place(t)
         /\ \A t \in Tids \ {uth_current} : line'[t] = line[t]
<1> DEFINE c == uth_current
<1>1. /\ SchedInv /\ "user" \in Unmasked /\ Driver \in Tids
      /\ "user" \notin CallLabels \cup ExitLabels
  BY ProgramAssumption DEF ThreadIndInv, Unmasked, Driver, Tids, CallLabels, JoinLabels, ExitLabels
<1>2. Line(l, next) /\ UNCHANGED <<schedVars, threadVars, arg, tids>> /\ pc = "user"
  BY ZenonT(30) DEF Local, Line
<1>3. c \in Tids /\ state[c] = "RUNNING" /\ Place(c) = "user"
  BY <1>1, <1>2, ThreadCode, ZenonT(30)
<1>4. ThreadIndInv' /\ LifecycleStep
  BY <1>2, ThreadNextInv, ZenonT(30) DEF threadSysVars
<1>5. uth_current' = c /\ state' = state /\ \A t \in Tids : Place(t)' = Place(t)
  BY <1>2, ZenonT(30) DEF schedVars, Place, OnCpu
<1>6. /\ tids' \in [Indices -> (Tids \cup {NULL}) \ {Driver}] /\ target'[Driver] # Driver
      /\ count' \in [Tids -> Int] /\ count'[Driver] \in Indices
  BY <1>1, <1>2, <1>3, ZenonT(30) DEF ProgramTypeOK, ProgramInv, threadVars
<1>7. ProgramTypeOK' /\ ProgramInv'
  BY <1>1, <1>2, <1>3, <1>5, <1>6, LineFrame, ZenonT(30)
<1>8. line[c] = l /\ line'[c] = next /\ \A t \in Tids \ {c} : line'[t] = line[t]
  BY <1>2, <1>3, ZenonT(30) DEF Line, Me, ProgramTypeOK
<1> QED
  BY <1>2, <1>3, <1>4, <1>5, <1>7, <1>8, ZenonT(30)

\* A step of a call on an object leaves the driver alone.
LEMMA SyncProgram ==
  ASSUME ProgramTypeOK, ProgramInv, UNCHANGED <<threadVars, programVars>>,
         \A t \in Tids : \/ Place(t)' = Place(t)
                         \/ Place(t)' \notin CallLabels \cup ExitLabels,
         \A t \in Tids : state'[t] = "NONE" => state[t] = "NONE"
  PROVE  ProgramTypeOK' /\ ProgramInv'
<1>1. \A t \in Tids : Stays(t)
  BY ZenonT(30) DEF Stays
<1>2. UNCHANGED <<line, count, tids>> /\ arg' \in [Tids -> Indices] /\ target'[Driver] # Driver
  BY ZenonT(30) DEF programVars, threadVars, ProgramTypeOK, ProgramInv
<1> QED
  BY <1>1, <1>2, LibraryFrame, ZenonT(30)
=============================================================================
