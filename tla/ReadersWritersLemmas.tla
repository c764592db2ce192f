------------------------ MODULE ReadersWritersLemmas ------------------------
(***************************************************************************)
(* The first half of the proof that the readers-writers lock is correct:   *)
(* RWIndInv is preserved by the steps of the library, by the lines of      *)
(* reader() and writer() that call it, and by those that test or change    *)
(* the counters.                                                           *)
(***************************************************************************)
EXTENDS ReadersWriters, MutexCondProofs

\* The objects of the program are different from each other.
LEMMA RWObjects ==
  /\ lock \in Mutexes /\ lock \in Objs /\ {can_read, can_write} \subseteq Conds
  /\ Conds \subseteq Objs /\ Conds \cap Mutexes = {} /\ can_read # can_write
  /\ "none" \notin Mutexes \cup Conds
BY ReadersWritersAssumption, MutexAssumption, CondAssumption, SchedulerAssumption, ZenonT(30)

-----------------------------------------------------------------------------
(* Steps that do not change the counters.                                  *)

\* What such a step may do with thread t: t stays where it is counted, and goes
\* to its entrance or to sleep only if the counters say so.
Steady(t) ==
  /\ t \in Readers' <=> t \in Readers
  /\ t \in Writers' <=> t \in Writers
  /\ t \in Asking' <=> t \in Asking
  /\ line'[t] = "rl_enter" => line[t] = "rl_enter" \/ ~must_wait
  /\ line'[t] = "wl_enter" => line[t] = "wl_enter" \/ ~somebody_in
  /\ GoesToSleep(t)' => \/ GoesToSleep(t) /\ line'[t] = line[t]
                        \/ IF line'[t] = "rl_test" THEN must_wait ELSE somebody_in
  /\ Testing(t) => Testing(t)' \/ somebody_in

\* If all threads are steady, the invariants of the counters still hold.
LEMMA SteadyStep ==
  ASSUME RWInv, UNCHANGED <<active_readers, active_writers, waiting_writers>>,
         \A t \in Tids : Steady(t),
         waiters'[can_write] # <<>> => waiters[can_write] # <<>> \/ somebody_in,
         waiters'[can_read] # <<>> => waiters[can_read] # <<>> \/ must_wait,
         waiters'[can_write] # <<>> => \A t \in Tids : Signals(t) => \E u \in Tids : Signals(u)' \/ Testing(u)',
         waiters'[can_read] # <<>> => \A t \in Tids : Broadcasts(t) => \E u \in Tids : Broadcasts(u)'
  PROVE  CountInv' /\ TestInv' /\ WakeInv'
<1>1. /\ must_wait' <=> must_wait
      /\ somebody_in' <=> somebody_in
  BY ZenonT(30) DEF must_wait, somebody_in
<1>2. CountInv'
  <2>1. Readers' = Readers /\ Writers' = Writers /\ Asking' = Asking
    BY ZenonT(30) DEF Steady, Readers, Writers, Asking
  <2> QED
    BY <2>1, ZenonT(30) DEF CountInv, RWInv
<1>3. TestInv'
  BY <1>1, ZenonT(30) DEF TestInv, RWInv, Steady
<1>4. WakeInv'
  BY <1>1, ZenonT(30) DEF WakeInv, RWInv, Steady
<1> QED
  BY <1>2, <1>3, <1>4, ZenonT(30)

\* Thread t stays where it is as far as the calls of this program go, and is
\* not put to sleep on one of its objects.
SamePlace(t) ==
  /\ \A l \in {"unlock_free", "cond_unlock", "signal_wake", "broadcast_wake"} : Place(t)' = l <=> Place(t) = l
  /\ Locking(t)' <=> Locking(t)
  /\ Place(t)' \in {"cond_swap", "cond_relock"} <=> Place(t) \in {"cond_swap", "cond_relock"}
  /\ Place(t)' \in MutexLabels => Place(t) \in MutexLabels /\ obj'[t] = obj[t]
  /\ Place(t)' \in {"signal_wake", "broadcast_wake"} => obj'[t] = obj[t]
  /\ obj'[t] = obj[t] \/ obj'[t] = "none"
  /\ state'[t] = "BLOCKED" /\ obj'[t] # "none" => state[t] = "BLOCKED" /\ obj'[t] = obj[t]

\* A thread the step leaves alone is steady.
LEMMA LeftAlone ==
  ASSUME NEW t \in Tids, LockOf(t), SamePlace(t), held'[t] = held[t], cond_args'[t] = cond_args[t],
         line'[t] = line[t] \/ {line[t], line'[t]} \subseteq {"create", "store", "join", "return"}
  PROVE  LockOf(t)' /\ Steady(t) /\ (Signals(t)' <=> Signals(t)) /\ (Broadcasts(t)' <=> Broadcasts(t))
<1>1. /\ \A l \in {"rl_test", "rl_enter", "wl_test", "wl_enter", "ru_leave", "wl_ask", "wu_leave", "read", "gap",
                   "load", "ru_unlock", "wu_unlock", "ru_signal", "wu_signal", "wu_broadcast"} :
           line'[t] = l <=> line[t] = l
      /\ line'[t] \in CriticalLines <=> line[t] \in CriticalLines
      /\ t \in Readers' <=> t \in Readers
      /\ t \in Writers' <=> t \in Writers
      /\ t \in Asking' <=> t \in Asking
  <2>1. CASE line'[t] = line[t]
    BY <2>1, ZenonT(30) DEF Readers, Writers, Asking
  <2>2. CASE line'[t] # line[t]
    BY <2>2, ZenonT(30) DEF Readers, Writers, Asking, CriticalLines
  <2> QED
    BY <2>1, <2>2, ZenonT(30)
<1>2. "none" \notin Conds /\ can_write \in Conds
  BY RWObjects, ZenonT(30)
<1>3. LockOf(t)'
  <2>1. held'[t] = IF \/ Place(t)' \in {"unlock_free", "cond_unlock"}
                      \/ line'[t] \in CriticalLines /\ ~Locking(t)' /\ cond_args'[t] = NoArgs
                   THEN {lock} ELSE {}
    BY <1>1, ZenonT(30) DEF LockOf, SamePlace
  <2>2. cond_args'[t] # NoArgs => line'[t] \in {"rl_test", "wl_test"} /\ cond_args'[t] = Awaited(line'[t])
    BY <1>1, ZenonT(30) DEF LockOf, Awaited
  <2>3. /\ Place(t)' \in MutexLabels => obj'[t] = lock
        /\ Locking(t)' => line'[t] \in {"rl_test", "ru_leave", "wl_ask", "wl_test", "wu_leave"}
        /\ Place(t)' = "unlock_free" /\ cond_args'[t] = NoArgs => line'[t] \in {"read", "gap", "load"}
        /\ Place(t)' = "signal_wake" => obj'[t] = can_write /\ line'[t] \in {"ru_unlock", "wu_unlock"}
        /\ Place(t)' = "broadcast_wake" => obj'[t] = can_read /\ line'[t] = "wu_unlock"
    BY <1>1, ZenonT(30) DEF LockOf, SamePlace
  <2>4. /\ state'[t] = "BLOCKED" /\ obj'[t] \in Conds =>
             Place(t)' \in {"cond_swap", "cond_relock"} /\ obj'[t] = cond_args'[t].cond
        /\ obj'[t] \in Mutexes \cup Conds \cup {"none"}
    BY <1>2, ZenonT(30) DEF LockOf, SamePlace
  <2> QED
    BY <2>1, <2>2, <2>3, <2>4, ZenonT(30) DEF LockOf, Awaited
<1>4. Signals(t)' <=> Signals(t)
  BY <1>1, ZenonT(30) DEF Signals, SamePlace
<1>5. Broadcasts(t)' <=> Broadcasts(t)
  BY <1>1, ZenonT(30) DEF Broadcasts, SamePlace
<1>6. Steady(t)
  <2>1. GoesToSleep(t)' => GoesToSleep(t) /\ line'[t] = line[t]
    BY <1>1, ZenonT(30) DEF GoesToSleep, LockOf, SamePlace
  <2>2. Testing(t) => Testing(t)'
    BY <1>1, <1>2, ZenonT(30) DEF Testing, SamePlace
  <2> QED
    BY <1>1, <2>1, <2>2, ZenonT(30) DEF Steady
<1> QED
  BY <1>3, <1>4, <1>5, <1>6, ZenonT(30)

\* A thread that another thread's step does not concern, or wakes.
LEMMA Bystander ==
  ASSUME NEW t \in Tids, LockOf(t), Place(t)' = Place(t), obj'[t] = obj[t], line'[t] = line[t],
         held'[t] = held[t], cond_args'[t] = cond_args[t], state'[t] = "BLOCKED" => state[t] = "BLOCKED"
  PROVE  LockOf(t)' /\ Steady(t) /\ (Signals(t)' <=> Signals(t)) /\ (Broadcasts(t)' <=> Broadcasts(t))
<1>1. SamePlace(t)
  BY ZenonT(30) DEF SamePlace, Locking
<1> QED
  BY <1>1, LeftAlone, ZenonT(30)

-----------------------------------------------------------------------------
(* driver(), main(), the functions of thread.c and the scheduler.          *)

\* They are not about condition variables.
LEMMA ProgramCond ==
  ASSUME ThreadIndInv, CondIndInv, ProgramTypeOK, ProgramInv, UNCHANGED <<mutexVars, cond_args>>,
         ProgramStep \/ (Preempt /\ UNCHANGED <<threadVars, programVars>>)
  PROVE  CondIndInv'
<1>1. ThreadIndInv' /\ ProgramFrame
  BY ProgramStepInv, ZenonT(30)
<1>2. MutexIndInv' /\ SchedInv /\ \A t \in Tids : WaiterInv(t)
  BY <1>1, ProgramMutex, ZenonT(30) DEF CondIndInv, CondInv, ThreadIndInv
<1>3. CASE SchedNext \/ Preempt
  BY <1>3, CondQuiet, ZenonT(30)
<1>4. CASE ~(SchedNext \/ Preempt)
  <2>1. /\ pc \in {"user", "create_ret", "main", "loop", "create_alloc", "exit_zombie", "join_find",
                   "join_refind", "join_collect"}
        /\ \/ frames' = frames
           \/ /\ pc = "user"
              /\ \E r \in {"user", "create_ret"} :
                   frames' = [frames EXCEPT ![uth_current] = <<[old |-> masked, ret |-> r]>> \o @]
    BY <1>4, ZenonT(30) DEF ProgramStep, LibraryStep, driver, driver_create, driver_store,
       driver_join, return, main, start_thread, create_alloc, create_fail, create_ret, exit_zombie,
       Zombie, join_find, join_found, join_register, join_refind, join_collect, main_create,
       uth_run, uth_run_returns, uth_create, uth_join, uth_exit, Enter, uth_preempt_off, Goto, Line,
       schedVars
  <2>2. ASSUME NEW t \in Tids PROVE WaiterInv(t)'
    <3>1. cond_args[t] # NoArgs => Place(t) \in CondLabels
      <4> SUFFICES ASSUME cond_args[t] # NoArgs, Place(t) \notin CondLabels PROVE FALSE
        OBVIOUS
      <4>1. Place(t) \in InnerUnlock /\ Place(t) = pc
        BY <1>2, ZenonT(30) DEF WaiterInv, Place
      <4> QED
        BY <2>1, <4>1, ZenonT(30) DEF InnerUnlock
    <3>2. /\ Place(t)' \in CondLabels <=> Place(t) \in CondLabels
          /\ Place(t) \in CondLabels => Place(t)' \notin InnerUnlock
      <4>1. CASE Apart(t)
        BY <4>1, ZenonT(30) DEF Apart, ThreadLabels, CallLabels, JoinLabels, ExitLabels,
           Preemptible, Unmasked, CondLabels
      <4>2. CASE Quiet(t)
        BY <2>1, <4>2, SwapLemma, ZenonT(30) DEF Quiet, CondLabels, InnerUnlock, Preemptible,
           Unmasked
      <4> QED
        BY <1>1, <4>1, <4>2, ZenonT(30) DEF ProgramFrame
    <3>3. \A i \in 1 .. Len(frames[t]) : frames[t][i].ret # "cond_block"
      BY <1>2, <3>1, ZenonT(30) DEF WaiterInv, CondLabels, InnerUnlock
    <3>4. \A i \in 1 .. Len(frames'[t]) : frames'[t][i].ret # "cond_block"
      <4>1. CASE frames'[t] = frames[t]
        BY <3>3, <4>1, ZenonT(30)
      <4>2. CASE frames'[t] # frames[t]
        <5>1. PICK r \in {"user", "create_ret"} :
                frames' = [frames EXCEPT ![uth_current] = <<[old |-> masked, ret |-> r]>> \o @]
          BY <2>1, <4>2, ZenonT(30)
        <5> DEFINE f == [old |-> masked, ret |-> r]
        <5>2. f.ret = r
          OBVIOUS
        <5> HIDE DEF f
        <5>3. t = uth_current /\ frames'[t] = <<f>> \o frames[t] /\ pc = "user"
          BY <1>2, <2>1, <4>2, <5>1, ZenonT(30) DEF SchedInv, SchedTypeOK, f
        <5>4. Place(t) = "user"
          BY <5>3, ThreadCode, <1>2, ZenonT(30) DEF Unmasked
        <5>5. frames[t] = <<>>
          BY <1>2, <5>4, ZenonT(30) DEF SchedInv, FrameInv, Preemptible, Unmasked
        <5>6. frames'[t] = <<f>>
          BY <5>3, <5>5
        <5> QED
          BY <5>2, <5>6
      <4> QED
        BY <4>1, <4>2, ZenonT(30)
    <3> QED
      BY <1>2, <3>1, <3>2, <3>4, ZenonT(30) DEF WaiterInv
  <2>3. pc' \notin {"cond_unlock", "signal_wake", "broadcast_wake"}
    BY <1>1, SwapLemma, ZenonT(30) DEF ProgramFrame, QuietTo, SchedLabels, ReturnLabels,
       ThreadLabels, CallLabels, JoinLabels, ExitLabels, Preemptible, Unmasked
  <2> QED
    BY <1>2, <2>2, <2>3, CondParts, ZenonT(30) DEF CondIndInv, CondTypeOK
<1> QED
  BY <1>3, <1>4, ZenonT(30)

\* They leave the counters and the calls of readers and writers alone.
LEMMA RWShared ==
  ASSUME RWIndInv, UNCHANGED <<syncVars, rwVars>>,
         ProgramStep \/ (Preempt /\ UNCHANGED <<threadVars, programVars>>)
  PROVE  RWIndInv'
<1>1. ThreadIndInv' /\ ProgramTypeOK' /\ ProgramInv' /\ ProgramFrame
  BY ProgramStepInv, ZenonT(30) DEF RWIndInv
<1>2. UNCHANGED <<mutexVars, cond_args, held, active_readers, active_writers, waiting_writers>>
  BY ZenonT(30) DEF syncVars, rwVars, mutexVars
<1>3. CondIndInv'
  BY <1>2, ProgramCond, ZenonT(30) DEF RWIndInv
<1>4. ASSUME NEW t \in Tids
      PROVE  LockOf(t)' /\ Steady(t) /\ (Signals(t)' <=> Signals(t)) /\ (Broadcasts(t)' <=> Broadcasts(t))
  <2>1. SamePlace(t)
    <3>1. CASE Quiet(t)
      BY <3>1, SwapLemma, SMTT(30) DEF Quiet, SamePlace, Locking, MutexLabels, Preemptible,
         Unmasked, ReturnLabels
    <3>2. CASE Apart(t)
      BY <3>2, ZenonT(30) DEF Apart, SamePlace, Locking, MutexLabels, ThreadLabels, CallLabels,
         JoinLabels, ExitLabels, Preemptible, Unmasked
    <3> QED
      BY <1>1, <3>1, <3>2, ZenonT(30) DEF ProgramFrame
  <2>2. line'[t] = line[t] \/ {line[t], line'[t]} \subseteq {"create", "store", "join", "return"}
    BY <1>1, ZenonT(30) DEF ProgramFrame, ProgramInv, RWIndInv
  <2> QED
    BY <1>2, <2>1, <2>2, LeftAlone, ZenonT(30) DEF RWIndInv, RWInv
<1>5. waiters' = waiters
  BY <1>1, ZenonT(30) DEF ProgramFrame
<1>6. CountInv' /\ TestInv' /\ WakeInv'
  BY <1>2, <1>4, <1>5, SteadyStep, ZenonT(30) DEF RWIndInv
<1> QED
  BY <1>1, <1>3, <1>4, <1>6, ZenonT(30) DEF RWIndInv, RWInv

-----------------------------------------------------------------------------
(* The steps of uth_mutex_lock and uth_mutex_unlock.                       *)

\* The steps inside uth_mutex_lock and uth_mutex_unlock preserve the inductive
\* invariant.
LEMMA RWMutex ==
  ASSUME RWIndInv, MutexStep, UNCHANGED <<threadVars, programVars, cond_args, rwVars>>
  PROVE  RWIndInv'
<1> USE DEF RWIndInv
<1>0. MutexIndInv /\ \A t \in Tids : LockOf(t) /\ WaiterInv(t)
  BY ZenonT(30) DEF CondIndInv, CondInv, RWInv
<1>1. PICK c \in Tids : c = uth_current
  BY <1>0, MutexMoves, ZenonT(30) DEF MovesTo
<1>2. /\ ThreadIndInv' /\ ProgramTypeOK' /\ ProgramInv'
      /\ Place(c) = pc /\ Place(c)' = pc' /\ obj'[c] = obj[c]
      /\ \A t \in Tids \ {c} : Place(t)' = Place(t) /\ obj'[t] = obj[t] /\ (state'[t] = "BLOCKED" => state[t] = "BLOCKED")
      /\ \A o \in Objs \ {obj[c]} : waiters'[o] = waiters[o]
  BY <1>0, <1>1, MutexMoves, ZenonT(30) DEF MovesTo
<1>3. CondIndInv'
  BY CondMutexStep, ZenonT(30)
<1>4. UNCHANGED <<line, cond_args, active_readers, active_writers, waiting_writers>> /\ held \in [Tids -> SUBSET Mutexes]
  BY <1>0, ZenonT(30) DEF programVars, rwVars, MutexIndInv, MutexTypeOK
<1>5. \/ pc = "lock_xchg" /\ pc' \in {"lock_block", "lock_own"} /\ held' = held
      \/ pc = "lock_block" /\ pc' = "lock_swap" /\ held' = held
      \/ pc = "lock_own" /\ pc' = "leave" /\ held' = [held EXCEPT ![c] = @ \cup {obj[c]}]
      \/ pc = "unlock_free" /\ pc' = "unlock_wake" /\ held' = [held EXCEPT ![c] = @ \ {obj[c]}]
      \/ pc = "unlock_wake" /\ pc' = "leave" /\ held' = held
  BY <1>1, ZenonT(30) DEF MutexStep, lock_xchg, lock_block, lock_own, unlock_free, unlock_wake,
     uth_block, uth_wake_one, Goto, Obj, mutexVars
<1>6. ASSUME NEW t \in Tids \ {c}
      PROVE  LockOf(t)' /\ Steady(t) /\ (Signals(t)' <=> Signals(t)) /\ (Broadcasts(t)' <=> Broadcasts(t))
  <2>1. held'[t] = held[t]
    BY <1>4, <1>5, ZenonT(30)
  <2> QED
    BY <1>0, <1>2, <1>4, <2>1, Bystander, ZenonT(30)
<1>7. /\ obj[c] = lock /\ LockOf(c) /\ WaiterInv(c) /\ lock \notin Conds
      /\ held'[c] = IF pc = "lock_own" THEN held[c] \cup {lock}
                    ELSE IF pc = "unlock_free" THEN held[c] \ {lock} ELSE held[c]
  BY <1>0, <1>1, <1>2, <1>4, <1>5, RWObjects, ZenonT(30) DEF LockOf, MutexLabels
<1>8. pc \in {"lock_xchg", "lock_block", "lock_own"} => cond_args[c] = NoArgs
  BY <1>2, <1>7, ZenonT(30) DEF WaiterInv, CondLabels, InnerUnlock
<1>9. LockOf(c)'
  <2>1. held'[c] = IF \/ Place(c)' \in {"unlock_free", "cond_unlock"}
                      \/ line'[c] \in CriticalLines /\ ~Locking(c)' /\ cond_args'[c] = NoArgs
                   THEN {lock} ELSE {}
    <3>1. CASE pc \in {"lock_xchg", "lock_block"}
      BY <1>2, <1>4, <1>5, <1>7, <3>1, ZenonT(30) DEF LockOf, Locking
    <3>2. CASE pc = "lock_own"
      <4>1. held[c] = {} /\ line[c] \in CriticalLines /\ held'[c] = {lock}
        BY <1>2, <1>7, <1>8, <3>2, ZenonT(30) DEF LockOf, Locking, CriticalLines
      <4> QED
        BY <1>2, <1>4, <1>5, <1>8, <3>2, <4>1, ZenonT(30) DEF Locking
    <3>3. CASE pc = "unlock_free"
      <4>1. held'[c] = {} /\ (cond_args[c] = NoArgs => line[c] \notin CriticalLines)
        BY <1>2, <1>7, <3>3, ZenonT(30) DEF LockOf, CriticalLines
      <4> QED
        BY <1>2, <1>4, <1>5, <3>3, <4>1, ZenonT(30) DEF Locking
    <3>4. CASE pc = "unlock_wake"
      BY <1>2, <1>4, <1>5, <1>7, <3>4, ZenonT(30) DEF LockOf, Locking
    <3> QED
      BY <1>5, <3>1, <3>2, <3>3, <3>4, ZenonT(30)
  <2>2. /\ Locking(c)' => line'[c] \in {"rl_test", "ru_leave", "wl_ask", "wl_test", "wu_leave"}
        /\ Place(c)' \notin {"unlock_free", "signal_wake", "broadcast_wake"}
        /\ obj'[c] = lock
    BY <1>2, <1>4, <1>5, <1>7, ZenonT(30) DEF LockOf, Locking
  <2> QED
    BY <1>4, <1>7, <2>1, <2>2, RWObjects, ZenonT(30) DEF LockOf, Awaited
<1>10. Steady(c) /\ (Signals(c)' <=> Signals(c)) /\ (Broadcasts(c)' <=> Broadcasts(c))
  <2>1. /\ Place(c) \notin {"signal_wake", "broadcast_wake", "cond_swap", "cond_relock"}
        /\ Place(c)' \notin {"signal_wake", "broadcast_wake", "cond_swap", "cond_relock"}
        /\ line'[c] = line[c] /\ cond_args'[c] = cond_args[c]
    BY <1>2, <1>4, <1>5, ZenonT(30)
  <2>2. obj'[c] # can_write
    BY <1>2, <1>7, RWObjects, ZenonT(30)
  <2> QED
    BY <2>1, <2>2, ZenonT(30) DEF Steady, Signals, Broadcasts, Readers, Writers, Asking,
       GoesToSleep, Testing
<1>11. waiters'[can_read] = waiters[can_read] /\ waiters'[can_write] = waiters[can_write]
  BY <1>2, <1>7, RWObjects, ZenonT(30)
<1>12. CountInv' /\ TestInv' /\ WakeInv'
  BY <1>4, <1>6, <1>10, <1>11, SteadyStep, ZenonT(30)
<1> QED
  BY <1>2, <1>3, <1>6, <1>9, <1>12, ZenonT(30) DEF RWInv

-----------------------------------------------------------------------------
(* The steps of uth_cond_wait, uth_cond_signal and uth_cond_broadcast.     *)

\* A step of one thread that changes neither the counters nor what is held.
LEMMA RWMoves ==
  ASSUME RWIndInv, ThreadIndInv', CondIndInv', ProgramTypeOK', ProgramInv', NEW c \in Tids,
         UNCHANGED <<held, active_readers, active_writers, waiting_writers>>,
         \A t \in Tids \ {c} :
           /\ Place(t)' = Place(t) /\ obj'[t] = obj[t] /\ (state'[t] = "BLOCKED" => state[t] = "BLOCKED")
           /\ line'[t] = line[t] /\ cond_args'[t] = cond_args[t],
         LockOf(c)', Steady(c),
         waiters'[can_write] # <<>> => waiters[can_write] # <<>> \/ somebody_in,
         waiters'[can_read] # <<>> => waiters[can_read] # <<>> \/ must_wait,
         waiters'[can_write] # <<>> /\ Signals(c) => \E u \in Tids : Signals(u)' \/ Testing(u)',
         waiters'[can_read] # <<>> /\ Broadcasts(c) => \E u \in Tids : Broadcasts(u)'
  PROVE  RWIndInv'
<1>1. ASSUME NEW t \in Tids \ {c}
      PROVE  LockOf(t)' /\ Steady(t) /\ (Signals(t)' <=> Signals(t)) /\ (Broadcasts(t)' <=> Broadcasts(t))
  BY Bystander, ZenonT(30) DEF RWIndInv, RWInv
<1>2. \A t \in Tids : LockOf(t)' /\ Steady(t)
  BY <1>1, ZenonT(30)
<1>3. /\ waiters'[can_write] # <<>> => \A t \in Tids : Signals(t) => \E u \in Tids : Signals(u)' \/ Testing(u)'
      /\ waiters'[can_read] # <<>> => \A t \in Tids : Broadcasts(t) => \E u \in Tids : Broadcasts(u)'
  BY <1>1, ZenonT(30)
<1>4. CountInv' /\ TestInv' /\ WakeInv'
  BY <1>2, <1>3, SteadyStep, ZenonT(30) DEF RWIndInv
<1> QED
  BY <1>2, <1>4, ZenonT(30) DEF RWIndInv, RWInv

\* The running thread in uth_cond_wait.
LEMMA InWait ==
  ASSUME RWIndInv, pc \in {"cond_unlock", "cond_block", "cond_relock"}
  PROVE  /\ uth_current \in Tids /\ Place(uth_current) = pc /\ state[uth_current] = "RUNNING"
         /\ LockOf(uth_current) /\ cond_args[uth_current] # NoArgs
         /\ line[uth_current] \in {"rl_test", "wl_test"} /\ Args = Awaited(line[uth_current])
         /\ Args.mutex = lock /\ Args.cond = IF line[uth_current] = "rl_test" THEN can_read ELSE can_write
         /\ held[uth_current] = IF pc = "cond_unlock" THEN {lock} ELSE {}
<1>1. uth_current \in Tids /\ Place(uth_current) = pc /\ state[uth_current] = "RUNNING"
  BY ThreadCode, ZenonT(30) DEF RWIndInv, ThreadIndInv, Sections
<1>2. LockOf(uth_current) /\ WaiterInv(uth_current)
  BY <1>1, ZenonT(30) DEF RWIndInv, RWInv, CondIndInv, CondInv
<1>3. cond_args[uth_current] # NoArgs
  BY <1>1, <1>2, ZenonT(30) DEF WaiterInv, CondLabels
<1>4. line[uth_current] \in {"rl_test", "wl_test"} /\ Args = Awaited(line[uth_current])
  BY <1>2, <1>3, ZenonT(30) DEF LockOf, Args
<1>5. Args.mutex = lock /\ Args.cond = IF line[uth_current] = "rl_test" THEN can_read ELSE can_write
  BY <1>4, ZenonT(30) DEF Awaited
<1>6. held[uth_current] = IF pc = "cond_unlock" THEN {lock} ELSE {}
  BY <1>1, <1>2, <1>3, ZenonT(30) DEF LockOf
<1> QED
  BY <1>1, <1>2, <1>3, <1>4, <1>5, <1>6, ZenonT(30)

\* uth_cond_wait begins to unlock the mutex, or to lock it again.
LEMMA RWNested ==
  ASSUME RWIndInv, cond_unlock \/ cond_relock, UNCHANGED <<threadVars, programVars, rwVars>>
  PROVE  RWIndInv'
<1>1. PICK c \in Tids : c = uth_current
  BY InWait, ZenonT(30) DEF cond_unlock, cond_relock, uth_mutex_unlock, uth_mutex_lock, Enter
<1>2. /\ pc \in {"cond_unlock", "cond_relock"}
      /\ Enter(pc, Args.mutex, IF pc = "cond_unlock" THEN "cond_block" ELSE "leave",
               IF pc = "cond_unlock" THEN "unlock_free" ELSE "lock_xchg")
      /\ IF pc = "cond_unlock" THEN cond_args' = cond_args ELSE cond_args' = [cond_args EXCEPT ![c] = NoArgs]
      /\ held' = held
  <2>1. CASE cond_unlock
    <3>1. pc = "cond_unlock"
      BY <2>1, ZenonT(30) DEF cond_unlock, uth_mutex_unlock, Enter
    <3> QED
      BY <2>1, <3>1, ZenonT(30) DEF cond_unlock, uth_mutex_unlock, mutexVars
  <2>2. CASE cond_relock
    <3>1. pc = "cond_relock"
      BY <2>2, ZenonT(30) DEF cond_relock, uth_mutex_lock, Enter
    <3> QED
      BY <1>1, <2>2, <3>1, ZenonT(30) DEF cond_relock, uth_mutex_lock, mutexVars
  <2> QED
    BY <2>1, <2>2, ZenonT(30)
<1>3. /\ Place(c) = pc /\ LockOf(c) /\ cond_args[c] # NoArgs /\ line[c] \in {"rl_test", "wl_test"}
      /\ Args.mutex = lock /\ held[c] = IF pc = "cond_unlock" THEN {lock} ELSE {}
  BY <1>1, <1>2, InWait, ZenonT(30)
<1> DEFINE l == IF pc = "cond_unlock" THEN "unlock_free" ELSE "lock_xchg"
           r == IF pc = "cond_unlock" THEN "cond_block" ELSE "leave"
<1>4. l \in {"lock_xchg", "unlock_free"} /\ r \in {"cond_block", "leave"} /\ Enter(pc, lock, r, l)
  BY <1>2, <1>3, ZenonT(30)
<1>5. /\ ThreadIndInv' /\ ProgramTypeOK' /\ ProgramInv' /\ MovesTo(l)
      /\ obj'[uth_current] = lock /\ UNCHANGED <<state, waiters>>
  <2> HIDE DEF l, r
  <2> QED
    BY <1>2, <1>4, RWObjects, NestedCall, ZenonT(30) DEF RWIndInv
<1>6. CondIndInv'
  BY CondUnlockInv, CondRelockInv, ZenonT(30) DEF RWIndInv
<1>7. /\ Place(c)' = l /\ obj'[c] = lock /\ UNCHANGED <<line, active_readers, active_writers, waiting_writers>>
      /\ \A t \in Tids \ {c} : Place(t)' = Place(t) /\ obj'[t] = obj[t]
  BY <1>1, <1>5, ZenonT(30) DEF MovesTo, programVars, rwVars
<1>8. /\ \A t \in Tids \ {c} : cond_args'[t] = cond_args[t]
      /\ cond_args'[c] = IF pc = "cond_unlock" THEN cond_args[c] ELSE NoArgs
  BY <1>2, ZenonT(30) DEF RWIndInv, CondIndInv, CondTypeOK
<1>9. LockOf(c)'
  <2>1. held'[c] = IF \/ Place(c)' \in {"unlock_free", "cond_unlock"}
                      \/ line'[c] \in CriticalLines /\ ~Locking(c)' /\ cond_args'[c] = NoArgs
                   THEN {lock} ELSE {}
    BY <1>2, <1>3, <1>7, ZenonT(30) DEF Locking
  <2>2. Place(c)' \in {"lock_xchg", "unlock_free"} /\ (Place(c)' = "unlock_free" => cond_args'[c] # NoArgs)
    BY <1>2, <1>3, <1>7, <1>8, ZenonT(30)
  <2>3. cond_args'[c] # NoArgs => cond_args'[c] = Awaited(line'[c])
    BY <1>3, <1>7, <1>8, ZenonT(30) DEF LockOf, Awaited
  <2> QED
    BY <1>3, <1>7, <2>1, <2>2, <2>3, RWObjects, ZenonT(30) DEF LockOf, Awaited
<1>10. Steady(c)
  <2>1. GoesToSleep(c)' => GoesToSleep(c)
    BY <1>2, <1>3, <1>8, ZenonT(30) DEF GoesToSleep
  <2>2. Testing(c)' <=> c \in Asking
    BY <1>7, RWObjects, ZenonT(30) DEF Testing, Asking
  <2> QED
    BY <1>7, <2>1, <2>2, ZenonT(30) DEF Steady, Readers, Writers, Asking, Testing
<1>11. ~Signals(c) /\ ~Broadcasts(c)
  BY <1>2, <1>3, ZenonT(30) DEF Signals, Broadcasts
<1> HIDE DEF l, r
<1> QED
  BY <1>2, <1>5, <1>6, <1>7, <1>8, <1>9, <1>10, <1>11, RWMoves, ZenonT(30)

\* uth_cond_wait goes to sleep: what the thread has tested is still so.
LEMMA RWSleeps ==
  ASSUME RWIndInv, cond_block, UNCHANGED <<threadVars, programVars, rwVars>>
  PROVE  RWIndInv'
<1>1. /\ pc = "cond_block" /\ uth_block(Args.cond, "cond_swap")
      /\ UNCHANGED <<held, cond_args, line, active_readers, active_writers, waiting_writers>>
  BY ZenonT(30) DEF cond_block, mutexVars, programVars, rwVars
<1>2. PICK c \in Tids : c = uth_current
  BY <1>1, InWait, ZenonT(30)
<1> DEFINE d == IF line[c] = "rl_test" THEN can_read ELSE can_write
<1>3. /\ Place(c) = "cond_block" /\ LockOf(c) /\ cond_args[c] # NoArgs /\ line[c] \in {"rl_test", "wl_test"}
      /\ cond_args[c] = Awaited(line[c]) /\ Args.cond = d /\ held[c] = {}
  BY <1>1, <1>2, InWait, ZenonT(30) DEF Args
<1>4. d \in Conds /\ d \in Objs /\ cond_args[c].cond = d
  BY <1>3, RWObjects DEF Awaited
<1>5. /\ ThreadIndInv' /\ ProgramTypeOK' /\ ProgramInv' /\ MovesTo("cond_swap")
      /\ obj'[uth_current] = d /\ state'[uth_current] = "BLOCKED" /\ \A p \in Objs \ {d} : waiters'[p] = waiters[p]
  <2>1. pc \in Sections
    BY <1>1, ZenonT(30) DEF Sections
  <2> HIDE DEF d
  <2> QED
    BY <1>1, <1>3, <1>4, <2>1, BlockMoves, ZenonT(30) DEF RWIndInv
<1>6. CondIndInv'
  BY CondBlockInv, ZenonT(30) DEF RWIndInv
<1>7. /\ Place(c)' = "cond_swap" /\ obj'[c] = d
      /\ \A t \in Tids \ {c} : Place(t)' = Place(t) /\ obj'[t] = obj[t] /\ (state'[t] = "BLOCKED" => state[t] = "BLOCKED")
  BY <1>2, <1>5, ZenonT(30) DEF MovesTo
<1>8. IF line[c] = "rl_test" THEN must_wait ELSE somebody_in
  BY <1>3, ZenonT(30) DEF GoesToSleep, RWIndInv, RWInv, TestInv
<1>9. LockOf(c)'
  <2>1. Place(c)' \notin MutexLabels /\ ~Locking(c)'
    BY <1>7, ZenonT(30) DEF Locking, MutexLabels
  <2>2. held'[c] = {}
    BY <1>1, <1>3, ZenonT(30)
  <2> QED
    BY <1>1, <1>3, <1>4, <1>7, <2>1, <2>2, ZenonT(30) DEF LockOf, Awaited
<1>10. Steady(c)
  <2>1. ~GoesToSleep(c)' /\ (Testing(c) => somebody_in)
    BY <1>7, <1>8, ZenonT(30) DEF GoesToSleep, Testing, Asking
  <2> QED
    BY <1>1, <2>1, ZenonT(30) DEF Steady, Readers, Writers, Asking
<1>11. ~Signals(c) /\ ~Broadcasts(c)
  BY <1>3, ZenonT(30) DEF Signals, Broadcasts
<1>12. /\ waiters'[can_write] # <<>> => waiters[can_write] # <<>> \/ somebody_in
       /\ waiters'[can_read] # <<>> => waiters[can_read] # <<>> \/ must_wait
  BY <1>5, <1>8, RWObjects, ZenonT(30)
<1> HIDE DEF d
<1> QED
  BY <1>1, <1>5, <1>6, <1>7, <1>9, <1>10, <1>11, <1>12, RWMoves, ZenonT(30)

\* A thread that sleeps on can_write is a writer that has asked.
LEMMA SleeperAsks ==
  ASSUME RWIndInv, NEW h \in Tids, state[h] = "BLOCKED", obj[h] = can_write
  PROVE  line[h] = "wl_test"
<1>1. Place(h) \in {"cond_swap", "cond_relock"} /\ cond_args[h].cond = can_write /\ LockOf(h)
  BY RWObjects, ZenonT(30) DEF RWIndInv, RWInv, LockOf
<1>2. cond_args[h] # NoArgs
  BY <1>1, ZenonT(30) DEF RWIndInv, CondIndInv, CondInv, WaiterInv, CondLabels
<1> QED
  BY <1>1, <1>2, RWObjects DEF LockOf, Awaited

\* The running thread wakes who sleeps on its condition variable.
LEMMA RWWakes ==
  ASSUME RWIndInv, signal_wake \/ uth_wake_all, UNCHANGED <<threadVars, programVars, rwVars>>
  PROVE  RWIndInv'
<1>1. /\ pc \in {"signal_wake", "broadcast_wake"}
      /\ uth_wake_one(Obj, IF pc = "signal_wake" \/ waiters[Obj] = <<>> THEN "leave" ELSE "broadcast_wake")
      /\ UNCHANGED <<mutexVars, held, cond_args, line, active_readers, active_writers, waiting_writers>>
  BY ZenonT(30) DEF signal_wake, uth_wake_all, mutexVars, programVars, rwVars
<1>2. PICK c \in Tids : c = uth_current /\ Place(c) = pc
  BY <1>1, ThreadCode, ZenonT(30) DEF RWIndInv, ThreadIndInv, Sections
<1> DEFINE d == obj[c]
           l == IF pc = "signal_wake" \/ waiters[d] = <<>> THEN "leave" ELSE "broadcast_wake"
<1>3. /\ LockOf(c) /\ cond_args[c] = NoArgs /\ uth_wake_one(d, l) /\ l \in {"leave", "broadcast_wake"}
      /\ l = "broadcast_wake" => pc = "broadcast_wake"
  BY <1>1, <1>2, ZenonT(30) DEF Obj, RWIndInv, RWInv, CondIndInv, CondInv, WaiterInv, CondLabels,
     InnerUnlock
<1>4. d = (IF pc = "signal_wake" THEN can_write ELSE can_read) /\ d \in Conds /\ d \in Objs
  BY <1>1, <1>2, <1>3, RWObjects, ZenonT(30) DEF LockOf
<1>5. CondIndInv'
  <2>1. uth_wake_one(Obj, l)
    BY <1>2, <1>3, ZenonT(30) DEF Obj
  <2> HIDE DEF l, d
  <2> QED
    BY <1>1, <1>3, <2>1, CondWakeInv, ZenonT(30) DEF RWIndInv
<1>6. /\ ThreadIndInv' /\ ProgramTypeOK' /\ ProgramInv' /\ MovesTo(l)
      /\ obj' = obj /\ state'[uth_current] = "RUNNING"
      /\ \A p \in Objs \ {d} : waiters'[p] = waiters[p]
      /\ waiters[d] = <<>> => UNCHANGED <<state, waiters>>
      /\ waiters[d] # <<>> => \E h \in Tids : /\ h # uth_current /\ obj[h] = d
                                              /\ state[h] = "BLOCKED" /\ state'[h] = "READY"
  <2>1. pc \in Sections /\ l \in Sections \ (CallLabels \cup ExitLabels)
    BY <1>1, ZenonT(30) DEF Sections, CallLabels, JoinLabels, ExitLabels
  <2> HIDE DEF d, l
  <2> QED
    BY <1>3, <1>4, <2>1, WakeMoves, ZenonT(30) DEF RWIndInv
<1>7. /\ Place(c)' = l /\ obj'[c] = d /\ state'[c] = "RUNNING"
      /\ \A t \in Tids \ {c} : Place(t)' = Place(t) /\ obj'[t] = obj[t] /\ (state'[t] = "BLOCKED" => state[t] = "BLOCKED")
  BY <1>2, <1>6, ZenonT(30) DEF MovesTo
<1>8. /\ line[c] \in {"ru_unlock", "wu_unlock"} /\ (pc = "broadcast_wake" => line[c] = "wu_unlock")
      /\ held[c] = {lock}
  BY <1>1, <1>2, <1>3, ZenonT(30) DEF LockOf, CriticalLines, Locking
<1>9. LockOf(c)'
  <2>1. Place(c)' \notin MutexLabels /\ ~Locking(c)' /\ Place(c)' \notin {"unlock_free", "cond_unlock", "signal_wake"}
    BY <1>7, ZenonT(30) DEF Locking, MutexLabels
  <2>2. held'[c] = {lock} /\ line'[c] = line[c] /\ cond_args'[c] = NoArgs /\ line[c] \in CriticalLines
    BY <1>1, <1>3, <1>8, ZenonT(30) DEF CriticalLines
  <2>3. Place(c)' = "broadcast_wake" => obj'[c] = can_read /\ line[c] = "wu_unlock"
    BY <1>3, <1>4, <1>7, <1>8, ZenonT(30)
  <2> QED
    BY <1>4, <1>7, <2>1, <2>2, <2>3, ZenonT(30) DEF LockOf
<1>10. Steady(c)
  <2>1. ~GoesToSleep(c)' /\ ~Testing(c) /\ line'[c] = line[c]
    BY <1>1, <1>3, <1>8, ZenonT(30) DEF GoesToSleep, Testing, Asking
  <2> QED
    BY <2>1, ZenonT(30) DEF Steady, Readers, Writers, Asking
<1>11. /\ waiters'[can_write] # <<>> => waiters[can_write] # <<>>
       /\ waiters'[can_read] # <<>> => waiters[can_read] # <<>>
  BY <1>6, RWObjects, ZenonT(30)
<1>12. ASSUME waiters'[can_write] # <<>>, Signals(c) PROVE \E u \in Tids : Testing(u)'
  <2>1. pc = "signal_wake" /\ d = can_write
    BY <1>1, <1>2, <1>4, <1>8, <1>12, ZenonT(30) DEF Signals
  <2>2. PICK h \in Tids : obj[h] = can_write /\ state[h] = "BLOCKED" /\ state'[h] = "READY"
    BY <1>6, <1>11, <1>12, <2>1, ZenonT(30)
  <2>3. line'[h] = "wl_test"
    BY <1>1, <2>2, SleeperAsks, ZenonT(30)
  <2>4. Testing(h)'
    BY <2>2, <2>3, ZenonT(30) DEF Testing, Asking
  <2> QED
    BY <2>4, ZenonT(30)
<1>13. ASSUME waiters'[can_read] # <<>>, Broadcasts(c) PROVE Broadcasts(c)'
  <2>1. pc = "broadcast_wake" /\ d = can_read
    BY <1>1, <1>2, <1>4, <1>8, <1>13, ZenonT(30) DEF Broadcasts
  <2>2. l = "broadcast_wake"
    BY <1>11, <1>13, <2>1, ZenonT(30)
  <2> QED
    BY <1>7, <2>2, ZenonT(30) DEF Broadcasts
<1> HIDE DEF d, l
<1> QED
  BY <1>1, <1>5, <1>6, <1>7, <1>9, <1>10, <1>11, <1>12, <1>13, RWMoves, ZenonT(30)

\* All of them.
LEMMA RWCond ==
  ASSUME RWIndInv, CondStep, UNCHANGED <<threadVars, programVars, rwVars>>
  PROVE  RWIndInv'
BY RWNested, RWSleeps, RWWakes, ZenonT(30) DEF CondStep

-----------------------------------------------------------------------------
(* The lines of reader() and writer() that call the library.               *)

\* A thread between its calls.
LEMMA UserHas ==
  ASSUME RWIndInv, NEW l, NEW next, Line(l, next), l \notin {"create", "store", "join", "return"}
  PROVE  /\ uth_current \in Tids \ {Driver} /\ Place(uth_current) = "user" /\ state[uth_current] = "RUNNING"
         /\ line[uth_current] = l /\ line'[uth_current] = next /\ count[uth_current] \in Int
         /\ LockOf(uth_current) /\ cond_args[uth_current] = NoArgs
         /\ held[uth_current] = IF l \in CriticalLines THEN {lock} ELSE {}
<1> DEFINE c == uth_current
<1>1. SchedInv /\ pc = "user" /\ line[c] = l /\ line' = [line EXCEPT ![c] = next]
  BY ZenonT(30) DEF RWIndInv, ThreadIndInv, Line, Me
<1>2. c \in Tids /\ Place(c) = "user" /\ state[c] = "RUNNING"
  BY <1>1, ThreadCode, ZenonT(30) DEF Unmasked
<1>3. c # Driver /\ line'[c] = next /\ count[c] \in Int
  BY <1>1, <1>2, ZenonT(30) DEF RWIndInv, ProgramInv, ProgramTypeOK
<1>4. LockOf(c) /\ WaiterInv(c)
  BY <1>2, ZenonT(30) DEF RWIndInv, RWInv, CondIndInv, CondInv
<1>5. cond_args[c] = NoArgs
  BY <1>2, <1>4, ZenonT(30) DEF WaiterInv, CondLabels, InnerUnlock
<1>6. held[c] = IF l \in CriticalLines THEN {lock} ELSE {}
  BY <1>1, <1>2, <1>4, <1>5, ZenonT(30) DEF LockOf, Locking
<1> QED
  BY <1>1, <1>2, <1>3, <1>4, <1>5, <1>6, ZenonT(30)

\* The calls, with the lines they are at.
Called(l, next, o, e) ==
  \/ e = "yield_push" /\ o = "none" /\ <<l, next>> \in {<<"read", "ru_lock">>, <<"hold", "wu_lock">>, <<"gap", "start">>}
  \/ /\ e = "lock_xchg" /\ o = lock
     /\ <<l, next>> \in {<<"rl_lock", "rl_test">>, <<"ru_lock", "ru_leave">>, <<"wl_lock", "wl_ask">>,
                         <<"wu_lock", "wu_leave">>}
  \/ /\ e = "unlock_free" /\ o = lock
     /\ <<l, next>> \in {<<"rl_unlock", "read">>, <<"ru_unlock", "gap">>, <<"wl_unlock", "load">>, <<"wu_unlock", "gap">>}
  \/ e = "signal_wake" /\ o = can_write /\ <<l, next>> \in {<<"ru_signal", "ru_unlock">>, <<"wu_signal", "wu_unlock">>}
  \/ e = "broadcast_wake" /\ o = can_read /\ <<l, next>> = <<"wu_broadcast", "wu_unlock">>
  \/ e = "cond_unlock" /\ o = "none" /\ <<l, next>> = <<"rl_test", "rl_test">> /\ must_wait
  \/ e = "cond_unlock" /\ o = "none" /\ <<l, next>> = <<"wl_test", "wl_test">> /\ somebody_in

\* The lines that call the library preserve the inductive invariant.
LEMMA RWCall ==
  ASSUME RWIndInv, NEW l, NEW next, NEW o, NEW e, Line(l, next), Enter("user", o, "user", e), Called(l, next, o, e),
         UNCHANGED <<threadVars, count, arg, tids, mutexVars, rwVars>>,
         IF e = "cond_unlock" THEN cond_args' = [cond_args EXCEPT ![uth_current] = Awaited(l)] ELSE cond_args' = cond_args
  PROVE  RWIndInv'
<1>1. /\ l \notin {"create", "store", "join", "return"} /\ next \notin {"create", "store", "join"}
      /\ o \in Objs \cup {"none"}
      /\ e \in {"yield_push", "lock_xchg", "unlock_free", "signal_wake", "broadcast_wake", "cond_unlock"}
  BY RWObjects, ZenonT(30) DEF Called
<1>2. PICK c \in Tids : c = uth_current
  BY <1>1, UserHas, ZenonT(30)
<1>3. /\ c # Driver /\ Place(c) = "user" /\ line[c] = l /\ line'[c] = next /\ count[c] \in Int
      /\ LockOf(c) /\ cond_args[c] = NoArgs /\ held[c] = IF l \in CriticalLines THEN {lock} ELSE {}
      /\ state[c] = "RUNNING"
  BY <1>1, <1>2, UserHas, ZenonT(30)
<1>4. /\ e \in Sections \ (CallLabels \cup ExitLabels)
      /\ e \in Sections \ {"lock_block", "lock_own", "unlock_wake"}
      /\ "user" \in Unmasked /\ "user" \in ReturnLabels
  BY <1>1, ZenonT(30) DEF Sections, CallLabels, JoinLabels, ExitLabels, Unmasked, ReturnLabels
<1>5. /\ ThreadIndInv' /\ ProgramTypeOK' /\ ProgramInv'
      /\ UNCHANGED <<uth_current, waiters, state>>
      /\ Place(c)' = e /\ obj'[c] = o
      /\ \A t \in Tids \ {c} : Place(t)' = Place(t) /\ obj'[t] = obj[t] /\ line'[t] = line[t]
  <2>1. count' = [count EXCEPT ![uth_current] = count[c]]
    BY <1>2, ZenonT(30) DEF RWIndInv, ProgramTypeOK
  <2>2. uth_current' = c /\ uth_current # Driver /\ UNCHANGED <<threadVars, arg, tids>>
    BY <1>2, <1>3, ZenonT(30) DEF Enter
  <2>3. /\ ThreadIndInv /\ ProgramTypeOK /\ ProgramInv
        /\ next \notin {"create", "store", "join"} /\ o \in Objs \cup {"none"} /\ count[c] \in Int
    BY <1>1, <1>3, ZenonT(30) DEF RWIndInv
  <2>4. /\ ThreadIndInv' /\ ProgramTypeOK' /\ ProgramInv'
        /\ UNCHANGED <<uth_current, waiters, state>>
        /\ Place(uth_current)' = e /\ obj'[uth_current] = o
        /\ \A t \in Tids \ {uth_current} : Place(t)' = Place(t) /\ obj'[t] = obj[t] /\ line'[t] = line[t]
    BY <1>4, <2>1, <2>2, <2>3, UserCall, ZenonT(30)
  <2> QED
    BY <1>2, <2>2, <2>4, ZenonT(30)
<1>6. UNCHANGED <<held, active_readers, active_writers, waiting_writers>>
  BY ZenonT(30) DEF mutexVars, rwVars
<1>7. CondIndInv'
  <2>1. CASE e = "cond_unlock"
    <3>1. l \in {"rl_test", "wl_test"} /\ o = "none" /\ lock \in held[uth_current]
      BY <1>2, <1>3, <2>1, ZenonT(30) DEF Called, CriticalLines
    <3>2. PICK d \in Conds : Awaited(l) = [cond |-> d, mutex |-> lock]
      BY RWObjects, ZenonT(30) DEF Awaited
    <3>3. uth_cond_wait(d, lock)
      BY <2>1, <3>1, <3>2, ZenonT(30) DEF uth_cond_wait
    <3> QED
      BY <3>1, <3>3, CondWaitInv, ZenonT(30) DEF RWIndInv
  <2>2. CASE e # "cond_unlock"
    <3>1. /\ e \in {"lock_xchg", "unlock_free"} => o \in Mutexes
          /\ e = "unlock_free" => o \in held[uth_current]
          /\ e \in {"signal_wake", "broadcast_wake"} => o \in Conds
      BY <1>2, <1>3, RWObjects, ZenonT(30) DEF Called, CriticalLines
    <3>2. MutexIndInv'
      BY <1>1, <1>4, <3>1, MutexEntry, ZenonT(30) DEF RWIndInv, CondIndInv
    <3> QED
      BY <1>1, <2>2, <3>1, <3>2, CondEntry, ZenonT(30) DEF RWIndInv
  <2> QED
    BY <2>1, <2>2, ZenonT(30)
<1>8. /\ \A t \in Tids \ {c} : cond_args'[t] = cond_args[t]
      /\ cond_args'[c] = IF e = "cond_unlock" THEN Awaited(l) ELSE NoArgs
  BY <1>2, <1>3, ZenonT(30) DEF RWIndInv, CondIndInv, CondTypeOK
<1>9. Awaited(l) # NoArgs
  BY RWObjects, ZenonT(30) DEF Awaited, NoArgs
<1>10. LockOf(c)'
  <2>1. held'[c] = IF l \in CriticalLines THEN {lock} ELSE {}
    BY <1>3, <1>6, ZenonT(30)
  <2>2. (l \in CriticalLines) <=> \/ Place(c)' \in {"unlock_free", "cond_unlock"}
                                  \/ line'[c] \in CriticalLines /\ ~Locking(c)' /\ cond_args'[c] = NoArgs
    BY <1>3, <1>5, <1>8, <1>9, ZenonT(30) DEF Called, CriticalLines, Locking
  <2>3. /\ Locking(c)' <=> e = "lock_xchg"
        /\ Place(c)' \in MutexLabels => e \in {"lock_xchg", "unlock_free"}
    BY <1>1, <1>5, ZenonT(30) DEF Locking, MutexLabels
  <2>4. /\ Place(c)' \in MutexLabels => obj'[c] = lock
        /\ Locking(c)' => line'[c] \in {"rl_test", "ru_leave", "wl_ask", "wl_test", "wu_leave"}
        /\ cond_args'[c] # NoArgs => line'[c] \in {"rl_test", "wl_test"} /\ line'[c] = l
        /\ Place(c)' = "unlock_free" => line'[c] \in {"read", "gap", "load"}
        /\ Place(c)' = "signal_wake" => obj'[c] = can_write /\ line'[c] \in {"ru_unlock", "wu_unlock"}
        /\ Place(c)' = "broadcast_wake" => obj'[c] = can_read /\ line'[c] = "wu_unlock"
    BY <1>3, <1>5, <1>8, <2>3, ZenonT(30) DEF Called
  <2>5. cond_args'[c] # NoArgs => cond_args'[c] = Awaited(line'[c])
    BY <1>8, <2>4, ZenonT(30)
  <2>6. state'[c] # "BLOCKED" /\ obj'[c] \in Mutexes \cup Conds \cup {"none"}
    BY <1>3, <1>5, RWObjects, ZenonT(30) DEF Called
  <2> QED
    BY <2>1, <2>2, <2>4, <2>5, <2>6, ZenonT(30) DEF LockOf, Awaited
<1>11. Steady(c) /\ (Signals(c) => Signals(c)') /\ (Broadcasts(c) => Broadcasts(c)')
  <2>1. /\ c \in Readers' <=> c \in Readers
        /\ c \in Writers' <=> c \in Writers
        /\ c \in Asking' <=> c \in Asking
    BY <1>3, ZenonT(30) DEF Called, Readers, Writers, Asking
  <2>2. /\ line'[c] \notin {"rl_enter", "wl_enter"}
        /\ GoesToSleep(c)' => IF line'[c] = "rl_test" THEN must_wait ELSE somebody_in
    BY <1>3, <1>8, ZenonT(30) DEF Called, GoesToSleep
  <2>3. Testing(c) => Testing(c)'
    BY <1>3, <1>5, <2>1, ZenonT(30) DEF Testing
  <2>4. (Signals(c) => Signals(c)') /\ (Broadcasts(c) => Broadcasts(c)')
    BY <1>3, <1>5, ZenonT(30) DEF Called, Signals, Broadcasts
  <2> QED
    BY <2>1, <2>2, <2>3, <2>4, ZenonT(30) DEF Steady
<1> QED
  BY <1>5, <1>6, <1>7, <1>8, <1>10, <1>11, RWMoves, ZenonT(30)

-----------------------------------------------------------------------------
(* The lines of reader() and writer() that make no call.                   *)

\* The library does not notice; the mutex is held before and after the line or
\* neither.
LEMMA RWLine ==
  ASSUME RWIndInv, NEW l, NEW next, Local(l, next), l \notin {"create", "store", "join", "return"},
         next \notin {"create", "store", "join"}, l \in CriticalLines <=> next \in CriticalLines,
         NEW c \in Tids, c = uth_current, NEW k \in Int, count' = [count EXCEPT ![c] = k], UNCHANGED syncVars
  PROVE  /\ ThreadIndInv' /\ CondIndInv' /\ ProgramTypeOK' /\ ProgramInv' /\ \A t \in Tids : LockOf(t)'
         /\ UNCHANGED <<waiters, state, obj, held, cond_args>> /\ state[c] = "RUNNING" /\ Place(c) = "user"
         /\ line[c] = l /\ line'[c] = next /\ cond_args[c] = NoArgs
         /\ held[c] = IF l \in CriticalLines THEN {lock} ELSE {}
         /\ \A t \in Tids : Place(t)' = Place(t)
         /\ \A t \in Tids \ {c} : line'[t] = line[t]
<1>1. Line(l, next)
  BY ZenonT(30) DEF Local
<1>2. /\ c # Driver /\ Place(c) = "user" /\ state[c] = "RUNNING" /\ line[c] = l /\ line'[c] = next
      /\ LockOf(c) /\ cond_args[c] = NoArgs /\ held[c] = IF l \in CriticalLines THEN {lock} ELSE {}
  BY <1>1, UserHas, ZenonT(30)
<1>3. /\ ThreadIndInv' /\ ProgramTypeOK' /\ ProgramInv' /\ UNCHANGED schedVars
      /\ \A t \in Tids : Place(t)' = Place(t)
      /\ \A t \in Tids \ {c} : line'[t] = line[t]
  <2>1. uth_current # Driver /\ count' = [count EXCEPT ![uth_current] = k]
    BY <1>2, ZenonT(30)
  <2>2. /\ ThreadIndInv' /\ ProgramTypeOK' /\ ProgramInv' /\ UNCHANGED <<schedVars, threadVars, arg>>
        /\ \A t \in Tids : Place(t)' = Place(t)
        /\ \A t \in Tids \ {uth_current} : line'[t] = line[t]
    BY <2>1, UserLine, ZenonT(30) DEF RWIndInv
  <2> QED
    BY <2>2, ZenonT(30)
<1>4. UNCHANGED <<waiters, state, obj, held, cond_args>>
  BY <1>3, ZenonT(30) DEF schedVars, syncVars, mutexVars
<1>5. CondIndInv'
  BY <1>3, CondNextInv, ZenonT(30) DEF RWIndInv, condSysVars, syncVars
<1>6. \A t \in Tids \ {c} : LockOf(t)'
  BY <1>3, <1>4, Bystander, ZenonT(30) DEF RWIndInv, RWInv
<1>7. LockOf(c)'
  <2>1. Place(c)' = "user" /\ ~Locking(c)' /\ Place(c)' \notin MutexLabels /\ cond_args'[c] = NoArgs
        /\ state'[c] = "RUNNING"
    BY <1>2, <1>3, <1>4, ZenonT(30) DEF Locking, MutexLabels
  <2>2. held'[c] = IF line'[c] \in CriticalLines THEN {lock} ELSE {}
    BY <1>2, <1>4, ZenonT(30)
  <2>3. obj'[c] \in Mutexes \cup Conds \cup {"none"}
    BY <1>2, <1>4, ZenonT(30) DEF LockOf
  <2> QED
    BY <2>1, <2>2, <2>3, ZenonT(30) DEF LockOf
<1> QED
  BY <1>2, <1>3, <1>4, <1>5, <1>6, <1>7, ZenonT(30)

\* The lines that leave the counters alone.
Uncounted(l, next) ==
  \/ <<l, next>> = <<"rl_test", "rl_enter">> /\ ~must_wait
  \/ <<l, next>> = <<"wl_test", "wl_enter">> /\ ~somebody_in
  \/ <<l, next>> \in {<<"load", "write">>, <<"write", "hold">>, <<"start", "rl_lock">>, <<"start", "wl_lock">>,
                      <<"start", "return">>}

\* Such a line preserves the inductive invariant.
LEMMA RWUncounted ==
  ASSUME RWIndInv, NEW l, NEW next, Local(l, next), Uncounted(l, next), UNCHANGED syncVars,
         UNCHANGED <<active_readers, active_writers, waiting_writers>>,
         NEW c \in Tids, c = uth_current, NEW k \in Int, count' = [count EXCEPT ![c] = k]
  PROVE  RWIndInv'
<1>1. /\ l \notin {"create", "store", "join", "return"} /\ next \notin {"create", "store", "join"}
      /\ l \in CriticalLines <=> next \in CriticalLines
  BY ZenonT(30) DEF Uncounted, CriticalLines
<1>2. /\ ThreadIndInv' /\ CondIndInv' /\ ProgramTypeOK' /\ ProgramInv' /\ \A t \in Tids : LockOf(t)'
      /\ UNCHANGED <<waiters, state, obj, held, cond_args>> /\ state[c] = "RUNNING" /\ Place(c) = "user"
      /\ line[c] = l /\ line'[c] = next /\ cond_args[c] = NoArgs
      /\ \A t \in Tids : Place(t)' = Place(t)
      /\ \A t \in Tids \ {c} : line'[t] = line[t]
  BY <1>1, RWLine, ZenonT(30)
<1>3. Steady(c) /\ ~Signals(c) /\ ~Broadcasts(c)
  <2>1. /\ c \in Readers' <=> c \in Readers
        /\ c \in Writers' <=> c \in Writers
        /\ c \in Asking' <=> c \in Asking
    BY <1>2, ZenonT(30) DEF Uncounted, Readers, Writers, Asking
  <2>2. ~Signals(c) /\ ~Broadcasts(c)
    BY <1>2, ZenonT(30) DEF Uncounted, Signals, Broadcasts
  <2>3. ~GoesToSleep(c)' /\ (Testing(c) => Testing(c)')
    BY <1>2, <2>1, ZenonT(30) DEF GoesToSleep, Testing
  <2>4. (line'[c] = "rl_enter" => ~must_wait) /\ (line'[c] = "wl_enter" => ~somebody_in)
    BY <1>2, ZenonT(30) DEF Uncounted
  <2> QED
    BY <2>1, <2>2, <2>3, <2>4, ZenonT(30) DEF Steady
<1> QED
  BY <1>2, <1>3, RWMoves, ZenonT(30)

-----------------------------------------------------------------------------
(* The lines that change the counters.                                     *)

\* A thread that holds the mutex in its own code is the only one between the
\* test of the counters and what it does about it.
LEMMA Alone ==
  ASSUME RWIndInv, NEW c \in Tids, c = uth_current, Place(c) = "user", lock \in held[c], NEW t \in Tids \ {c}
  PROVE  line[t] \notin {"rl_enter", "wl_enter"} /\ ~GoesToSleep(t)
<1>1. /\ LockOf(t) /\ WaiterInv(t) /\ t # uth_current /\ SchedInv
      /\ held \in [Tids -> SUBSET Mutexes] /\ MutualExclusion
  BY ZenonT(30) DEF RWIndInv, RWInv, CondIndInv, CondInv, ThreadIndInv, MutexIndInv, MutexTypeOK
<1>2. lock \notin held[t]
  BY <1>1, ZenonT(30) DEF MutualExclusion
<1>3. line[t] \notin {"rl_enter", "wl_enter"}
  BY <1>1, <1>2, ZenonT(30) DEF LockOf, Locking, CriticalLines
<1>4. Place(t) \in Resumable
  BY <1>1, ZenonT(30) DEF Place, SchedInv, SchedTypeOK
<1>5. Place(t) # "cond_block"
  BY <1>4, SwapLemma, ZenonT(30) DEF Resumable, Preemptible, Unmasked
<1>6. Place(t) # "cond_unlock"
  BY <1>1, <1>2, ZenonT(30) DEF LockOf
<1>7. ~GoesToSleep(t)
  BY <1>1, <1>5, <1>6, ZenonT(30) DEF GoesToSleep, WaiterInv, CondLabels
<1> QED
  BY <1>3, <1>7, ZenonT(30)

\* A set that has n elements, and the sets with one more and one less.
LEMMA CountedSize ==
  ASSUME NEW n, NEW S, Counts(n, S)
  PROVE  n \in Nat /\ (n = 0 <=> S = {}) /\ (n = 1 => \A x, y \in S : x = y)
BY DEF Counts, Range

\* The empty set has no element.
LEMMA CountedNone == Counts(0, {})
<1> DEFINE e == [i \in 1 .. 0 |-> 0]
<1>1. e \in [1 .. 0 -> {}] /\ DOMAIN e = {}
  OBVIOUS
<1>2. IsInjective(e) /\ Range(e) = {}
  BY <1>1, ZenonT(30) DEF IsInjective, Range
<1> QED
  BY <1>1, <1>2, ZenonT(30) DEF Counts

\* A new element adds one to the count.
LEMMA CountedAdd ==
  ASSUME NEW n, NEW S, Counts(n, S), NEW c, c \notin S
  PROVE  Counts(n + 1, S \cup {c})
<1>1. n \in Nat /\ n + 1 \in Nat
  BY DEF Counts
<1>2. PICK e \in [1 .. n -> S] : IsInjective(e) /\ Range(e) = S
  BY ZenonT(30) DEF Counts
<1> DEFINE f == [i \in 1 .. n + 1 |-> IF i = n + 1 THEN c ELSE e[i]]
<1>3. f \in [1 .. n + 1 -> S \cup {c}]
  BY <1>1
<1>4. IsInjective(f)
  BY <1>1, <1>2 DEF IsInjective
<1>5. Range(f) = S \cup {c}
  <2>1. f[n + 1] = c /\ n + 1 \in 1 .. n + 1 /\ \A i \in 1 .. n : f[i] = e[i] /\ i \in 1 .. n + 1
    BY <1>1
  <2>2. \A x \in S : \E i \in 1 .. n : e[i] = x
    BY <1>2, ZenonT(30) DEF Range
  <2> QED
    BY <1>3, <2>1, <2>2, ZenonT(30) DEF Range
<1> QED
  BY <1>1, <1>3, <1>4, <1>5, ZenonT(30) DEF Counts

\* Without one of its elements a set has one less.
LEMMA CountedRemove ==
  ASSUME NEW n, NEW S, Counts(n, S), NEW c \in S
  PROVE  n >= 1 /\ Counts(n - 1, S \ {c})
<1>1. n \in Nat
  BY ZenonT(30) DEF Counts
<1>2. PICK e \in [1 .. n -> S] : IsInjective(e) /\ Range(e) = S
  BY ZenonT(30) DEF Counts
<1>3. PICK k \in 1 .. n : e[k] = c
  BY <1>2, ZenonT(30) DEF Range
<1>4. n >= 1 /\ n - 1 \in Nat
  BY <1>1, <1>3
<1> DEFINE f == [i \in 1 .. n - 1 |-> IF i = k THEN e[n] ELSE e[i]]
<1>5. \A i, j \in 1 .. n : e[i] = e[j] => i = j
  BY <1>2, ZenonT(30) DEF IsInjective
<1>6. f \in [1 .. n - 1 -> S \ {c}]
  BY <1>1, <1>3, <1>4, <1>5
<1>7. IsInjective(f)
  BY <1>1, <1>3, <1>4, <1>5 DEF IsInjective
<1>8. ASSUME NEW x \in S \ {c} PROVE \E i \in 1 .. n - 1 : f[i] = x
  <2>1. PICK i \in 1 .. n : e[i] = x /\ i # k
    BY <1>2, <1>3, ZenonT(30) DEF Range
  <2>2. CASE i = n
    <3>1. k \in 1 .. n - 1 /\ f[k] = x
      BY <1>1, <1>3, <2>1, <2>2
    <3> QED
      BY <3>1, ZenonT(30)
  <2>3. CASE i # n
    <3>1. i \in 1 .. n - 1 /\ f[i] = x
      BY <1>1, <2>1, <2>3
    <3> QED
      BY <3>1, ZenonT(30)
  <2> QED
    BY <2>2, <2>3, ZenonT(30)
<1> HIDE DEF f
<1>9. Range(f) = S \ {c}
  BY <1>6, <1>8, ZenonT(30) DEF Range
<1> QED
  BY <1>4, <1>6, <1>7, <1>9, ZenonT(30) DEF Counts

\* What a step of one thread c does to the size of a set of threads.
LEMMA Recount ==
  ASSUME NEW S \in SUBSET Tids, NEW T \in SUBSET Tids, NEW c \in Tids, NEW n, Counts(n, S),
         \A t \in Tids \ {c} : t \in T <=> t \in S
  PROVE  /\ n \in Nat /\ (c \in S => n >= 1)
         /\ Counts(n + (IF c \in T THEN 1 ELSE 0) - (IF c \in S THEN 1 ELSE 0), T)
<1>1. n \in Nat /\ n + 1 - 0 = n + 1 /\ n + 0 - 1 = n - 1 /\ n + 0 - 0 = n /\ n + 1 - 1 = n
  BY CountedSize
<1>2. CASE c \in T /\ c \in S
  <2>1. T = S
    BY <1>2
  <2> QED
    BY <1>1, <1>2, <2>1, CountedRemove, ZenonT(30)
<1>3. CASE c \in T /\ c \notin S
  <2>1. T = S \cup {c}
    BY <1>3, ZenonT(30)
  <2> QED
    BY <1>1, <1>3, <2>1, CountedAdd, ZenonT(30)
<1>4. CASE c \notin T /\ c \in S
  <2>1. T = S \ {c}
    BY <1>4, ZenonT(30)
  <2> QED
    BY <1>1, <1>4, <2>1, CountedRemove, ZenonT(30)
<1>5. CASE c \notin T /\ c \notin S
  <2>1. T = S
    BY <1>5
  <2> QED
    BY <1>1, <1>5, <2>1, ZenonT(30)
<1> QED
  BY <1>2, <1>3, <1>4, <1>5, ZenonT(30)

\* The lines that count.
Counted(l, next) ==
  \/ /\ l = "rl_enter" /\ next = "rl_unlock"
     /\ active_readers' = active_readers + 1 /\ UNCHANGED <<active_writers, waiting_writers>>
  \/ /\ l = "ru_leave" /\ next = IF active_readers = 1 THEN "ru_signal" ELSE "ru_unlock"
     /\ active_readers' = active_readers - 1 /\ UNCHANGED <<active_writers, waiting_writers>>
  \/ /\ l = "wl_ask" /\ next = "wl_test"
     /\ waiting_writers' = waiting_writers + 1 /\ UNCHANGED <<active_readers, active_writers>>
  \/ /\ l = "wl_enter" /\ next = "wl_unlock"
     /\ waiting_writers' = waiting_writers - 1 /\ active_writers' = active_writers + 1 /\ UNCHANGED active_readers
  \/ /\ l = "wu_leave" /\ next = IF waiting_writers > 0 THEN "wu_signal" ELSE "wu_broadcast"
     /\ active_writers' = active_writers - 1 /\ UNCHANGED <<active_readers, waiting_writers>>

\* A writer that sleeps is counted.
LEMMA SleepersCounted ==
  ASSUME RWIndInv, waiters[can_write] # <<>>
  PROVE  waiting_writers > 0
<1>1. waiters[can_write] \in Seq(Tids) /\ IsInjective(waiters[can_write]) /\ can_write \in Objs /\ QueueDiscipline
  BY RWObjects, ZenonT(30) DEF RWIndInv, ThreadIndInv, SchedInv, SchedTypeOK, QueueDiscipline
<1>2. PICK h \in Tids : h \in Range(waiters[can_write])
  BY <1>1, PopLemma, ZenonT(30)
<1>3. state[h] = "BLOCKED" /\ obj[h] = can_write
  BY <1>1, <1>2, ZenonT(30) DEF QueueDiscipline
<1>4. h \in Asking
  BY <1>3, SleeperAsks, ZenonT(30) DEF Asking
<1>5. Counts(waiting_writers, Asking)
  BY ZenonT(30) DEF RWIndInv, RWInv, CountInv
<1>6. waiting_writers \in Nat /\ waiting_writers # 0
  BY <1>4, <1>5, CountedSize, ZenonT(30)
<1> QED
  BY <1>6

\* A line that changes a counter preserves the inductive invariant.
LEMMA RWCounted ==
  ASSUME RWIndInv, NEW l, NEW next, Local(l, next), Counted(l, next), UNCHANGED syncVars,
         NEW c \in Tids, c = uth_current, NEW k \in Int, count' = [count EXCEPT ![c] = k]
  PROVE  RWIndInv'
<1>1. /\ l \notin {"create", "store", "join", "return"} /\ next \notin {"create", "store", "join", "rl_enter", "wl_enter"}
      /\ l \in CriticalLines /\ next \in CriticalLines
  BY ZenonT(30) DEF Counted, CriticalLines
<1>2. /\ ThreadIndInv' /\ CondIndInv' /\ ProgramTypeOK' /\ ProgramInv' /\ \A t \in Tids : LockOf(t)'
      /\ UNCHANGED <<waiters, state, obj, held, cond_args>> /\ state[c] = "RUNNING" /\ Place(c) = "user"
      /\ line[c] = l /\ line'[c] = next /\ cond_args[c] = NoArgs /\ held[c] = {lock}
      /\ \A t \in Tids : Place(t)' = Place(t)
      /\ \A t \in Tids \ {c} : line'[t] = line[t]
  <2>1. /\ l \notin {"create", "store", "join", "return"} /\ next \notin {"create", "store", "join"}
        /\ l \in CriticalLines <=> next \in CriticalLines
    BY <1>1, ZenonT(30)
  <2>2. /\ ThreadIndInv' /\ CondIndInv' /\ ProgramTypeOK' /\ ProgramInv' /\ \A t \in Tids : LockOf(t)'
        /\ UNCHANGED <<waiters, state, obj, held, cond_args>> /\ state[c] = "RUNNING" /\ Place(c) = "user"
        /\ line[c] = l /\ line'[c] = next /\ cond_args[c] = NoArgs
        /\ held[c] = IF l \in CriticalLines THEN {lock} ELSE {}
        /\ \A t \in Tids : Place(t)' = Place(t)
        /\ \A t \in Tids \ {c} : line'[t] = line[t]
    BY <2>1, RWLine, ZenonT(30)
  <2> QED
    BY <1>1, <2>2, ZenonT(30)
<1>3. TestInv'
  <2>1. \A t \in Tids \ {c} : line[t] \notin {"rl_enter", "wl_enter"} /\ ~GoesToSleep(t)
    BY <1>2, Alone, ZenonT(30)
  <2>2. \A t \in Tids : line'[t] \notin {"rl_enter", "wl_enter"} /\ ~GoesToSleep(t)'
    BY <1>1, <1>2, <2>1, ZenonT(30) DEF GoesToSleep
  <2> QED
    BY <2>2, ZenonT(30) DEF TestInv
<1>4. /\ Counts(active_readers, Readers) /\ Counts(active_writers, Writers) /\ Counts(waiting_writers, Asking)
      /\ active_writers <= 1 /\ (active_writers = 0 \/ active_readers = 0)
      /\ l = "rl_enter" => ~must_wait
      /\ l = "wl_enter" => ~somebody_in
  BY <1>2, ZenonT(30) DEF RWIndInv, RWInv, CountInv, TestInv
<1>5. /\ active_readers \in Nat /\ (c \in Readers => active_readers >= 1)
      /\ Counts(active_readers + (IF c \in Readers' THEN 1 ELSE 0) - (IF c \in Readers THEN 1 ELSE 0), Readers')
  <2>1. Readers \in SUBSET Tids /\ Readers' \in SUBSET Tids /\ \A t \in Tids \ {c} : t \in Readers' <=> t \in Readers
    BY <1>2, ZenonT(30) DEF Readers
  <2> QED
    BY <1>4, <2>1, Recount
<1>6. /\ active_writers \in Nat /\ (c \in Writers => active_writers >= 1)
      /\ Counts(active_writers + (IF c \in Writers' THEN 1 ELSE 0) - (IF c \in Writers THEN 1 ELSE 0), Writers')
  <2>1. Writers \in SUBSET Tids /\ Writers' \in SUBSET Tids /\ \A t \in Tids \ {c} : t \in Writers' <=> t \in Writers
    BY <1>2, ZenonT(30) DEF Writers
  <2> QED
    BY <1>4, <2>1, Recount
<1>7. /\ waiting_writers \in Nat /\ (c \in Asking => waiting_writers >= 1)
      /\ Counts(waiting_writers + (IF c \in Asking' THEN 1 ELSE 0) - (IF c \in Asking THEN 1 ELSE 0), Asking')
  <2>1. Asking \in SUBSET Tids /\ Asking' \in SUBSET Tids /\ \A t \in Tids \ {c} : t \in Asking' <=> t \in Asking
    BY <1>2, ZenonT(30) DEF Asking
  <2> QED
    BY <1>4, <2>1, Recount
<1>8. /\ c \in Readers <=> l = "ru_leave"
      /\ c \in Readers' <=> next = "rl_unlock"
      /\ c \in Writers <=> l = "wu_leave"
      /\ c \in Writers' <=> next = "wl_unlock"
      /\ c \in Asking <=> l = "wl_enter"
      /\ c \in Asking' <=> next = "wl_test"
  BY <1>2, ZenonT(30) DEF Counted, Readers, Writers, Asking
<1>9. CountInv'
  <2> DEFINE r == active_readers + (IF next = "rl_unlock" THEN 1 ELSE 0) - (IF l = "ru_leave" THEN 1 ELSE 0)
             w == active_writers + (IF next = "wl_unlock" THEN 1 ELSE 0) - (IF l = "wu_leave" THEN 1 ELSE 0)
             a == waiting_writers + (IF next = "wl_test" THEN 1 ELSE 0) - (IF l = "wl_enter" THEN 1 ELSE 0)
  <2>1. Counts(r, Readers') /\ Counts(w, Writers') /\ Counts(a, Asking')
    BY <1>5, <1>6, <1>7, <1>8, ZenonT(30)
  <2>2. l = "wu_leave" => active_writers = 1 /\ active_readers = 0
    BY <1>4, <1>5, <1>6, <1>8, SMTT(30)
  <2>3. /\ l = "rl_enter" => active_writers = 0
        /\ l = "wl_enter" => active_writers = 0 /\ active_readers = 0
    BY <1>4, <1>5, <1>6 DEF must_wait, somebody_in
  <2>4. l = "ru_leave" => active_writers = 0
    BY <1>4, <1>5, <1>8
  <2>5. active_readers' = r /\ active_writers' = w /\ waiting_writers' = a
    BY <1>5, <1>6, <1>7 DEF Counted
  <2>6. active_writers' <= 1 /\ (active_writers' = 0 \/ active_readers' = 0)
    BY <1>4, <1>5, <1>6, <2>2, <2>3, <2>4, SMTT(30) DEF Counted
  <2> HIDE DEF r, w, a
  <2> QED
    BY <2>1, <2>5, <2>6, ZenonT(30) DEF CountInv
<1>10. \A t \in Tids \ {c} : (Signals(t)' <=> Signals(t)) /\ (Broadcasts(t)' <=> Broadcasts(t)) /\ (Testing(t)' <=> Testing(t))
  BY <1>2, ZenonT(30) DEF Signals, Broadcasts, Testing, Asking
<1>11. ~Signals(c) /\ ~Broadcasts(c)
  BY <1>2, ZenonT(30) DEF Signals, Broadcasts, Counted
<1>12. ASSUME waiters'[can_write] # <<>> PROVE somebody_in' \/ \E t \in Tids : Signals(t)' \/ Testing(t)'
  <2>1. waiting_writers > 0
    BY <1>2, <1>12, SleepersCounted, ZenonT(30)
  <2>2. CASE l \in {"rl_enter", "wl_enter"} \/ (l = "ru_leave" /\ active_readers # 1)
    BY <1>5, <1>6, <1>8, <2>2, SMTT(30) DEF Counted, somebody_in
  <2>3. CASE (l = "ru_leave" /\ active_readers = 1) \/ l = "wu_leave"
    <3>1. line'[c] \in {"ru_signal", "wu_signal"}
      BY <1>2, <2>1, <2>3, ZenonT(30) DEF Counted
    <3> QED
      BY <3>1, ZenonT(30) DEF Signals
  <2>4. CASE l = "wl_ask"
    <3>1. Testing(c)'
      BY <1>2, <1>8, <2>4, ZenonT(30) DEF Counted, Testing
    <3> QED
      BY <3>1, ZenonT(30)
  <2> QED
    BY <2>2, <2>3, <2>4, ZenonT(30) DEF Counted
<1>13. ASSUME waiters'[can_read] # <<>> PROVE must_wait' \/ \E t \in Tids : Broadcasts(t)'
  <2>1. CASE l \in {"rl_enter", "ru_leave"}
    <3>1. must_wait' <=> must_wait
      BY <2>1, ZenonT(30) DEF Counted, must_wait
    <3>2. must_wait \/ \E t \in Tids : Broadcasts(t)
      BY <1>2, <1>13, ZenonT(30) DEF RWIndInv, RWInv, WakeInv
    <3> QED
      BY <1>10, <1>11, <3>1, <3>2, ZenonT(30)
  <2>2. CASE l \in {"wl_ask", "wl_enter"} \/ (l = "wu_leave" /\ waiting_writers > 0)
    BY <1>4, <1>6, <1>7, <2>2 DEF Counted, must_wait
  <2>3. CASE l = "wu_leave" /\ ~(waiting_writers > 0)
    <3>1. line'[c] = "wu_broadcast"
      BY <1>2, <2>3, ZenonT(30) DEF Counted
    <3> QED
      BY <3>1, ZenonT(30) DEF Broadcasts
  <2> QED
    BY <2>1, <2>2, <2>3, ZenonT(30) DEF Counted
<1>14. WakeInv'
  BY <1>12, <1>13, ZenonT(30) DEF WakeInv
<1> QED
  BY <1>2, <1>3, <1>9, <1>14, ZenonT(30) DEF RWIndInv, RWInv

-----------------------------------------------------------------------------
(* All lines of reader() and writer().                                     *)

\* Every line of reader() and writer() preserves the inductive invariant.
LEMMA RWThreads ==
  ASSUME RWIndInv, iterate \/ reader \/ writer
  PROVE  RWIndInv'
<1>1. ASSUME NEW l, NEW next, acquire(l, next), Called(l, next, lock, "lock_xchg") PROVE RWIndInv'
  <2>1. /\ Line(l, next) /\ Enter("user", lock, "user", "lock_xchg") /\ cond_args' = cond_args
        /\ UNCHANGED <<threadVars, count, arg, tids, mutexVars, rwVars>>
    BY <1>1, ZenonT(30) DEF acquire, uth_mutex_lock
  <2> QED
    BY <1>1, <2>1, RWCall, ZenonT(30)
<1>2. ASSUME NEW l, NEW next, release(l, next), Called(l, next, lock, "unlock_free") PROVE RWIndInv'
  <2>1. /\ Line(l, next) /\ Enter("user", lock, "user", "unlock_free") /\ cond_args' = cond_args
        /\ UNCHANGED <<threadVars, count, arg, tids, mutexVars, rwVars>>
    BY <1>2, ZenonT(30) DEF release, uth_mutex_unlock
  <2> QED
    BY <1>2, <2>1, RWCall, ZenonT(30)
<1>3. ASSUME NEW l, NEW next, pause(l, next), Called(l, next, "none", "yield_push") PROVE RWIndInv'
  <2>1. /\ Line(l, next) /\ Enter("user", "none", "user", "yield_push") /\ cond_args' = cond_args
        /\ UNCHANGED <<threadVars, count, arg, tids, mutexVars, rwVars>>
    BY <1>3, ZenonT(30) DEF pause, yield, uth_yield, syncVars
  <2> QED
    BY <1>3, <2>1, RWCall, ZenonT(30)
<1>4. ASSUME NEW l, NEW next, on_cond(l, next, uth_cond_signal(can_write)), Called(l, next, can_write, "signal_wake")
      PROVE  RWIndInv'
  <2>1. /\ Line(l, next) /\ Enter("user", can_write, "user", "signal_wake") /\ cond_args' = cond_args
        /\ UNCHANGED <<threadVars, count, arg, tids, mutexVars, rwVars>>
    BY <1>4, ZenonT(30) DEF on_cond, uth_cond_signal
  <2> QED
    BY <1>4, <2>1, RWCall, ZenonT(30)
<1>5. CASE on_cond("wu_broadcast", "wu_unlock", uth_cond_broadcast(can_read))
  <2>1. /\ Line("wu_broadcast", "wu_unlock") /\ Enter("user", can_read, "user", "broadcast_wake")
        /\ cond_args' = cond_args /\ UNCHANGED <<threadVars, count, arg, tids, mutexVars, rwVars>>
    BY <1>5, ZenonT(30) DEF on_cond, uth_cond_broadcast
  <2>2. Called("wu_broadcast", "wu_unlock", can_read, "broadcast_wake")
    BY ZenonT(30) DEF Called
  <2> QED
    BY <2>1, <2>2, RWCall, ZenonT(30)
<1>6. ASSUME NEW l, NEW d, on_cond(l, l, uth_cond_wait(d, lock)), Called(l, l, "none", "cond_unlock"),
             Awaited(l) = [cond |-> d, mutex |-> lock]
      PROVE  RWIndInv'
  <2>1. /\ Line(l, l) /\ Enter("user", "none", "user", "cond_unlock")
        /\ cond_args' = [cond_args EXCEPT ![uth_current] = Awaited(l)]
        /\ UNCHANGED <<threadVars, count, arg, tids, mutexVars, rwVars>>
    BY <1>6, ZenonT(30) DEF on_cond, uth_cond_wait
  <2> QED
    BY <1>6, <2>1, RWCall, ZenonT(30)
<1>7. ASSUME NEW l, NEW next, Compute(l, next), l \notin {"create", "store", "join", "return"},
             (Uncounted(l, next) /\ UNCHANGED <<active_readers, active_writers, waiting_writers>>) \/ Counted(l, next)
      PROVE  RWIndInv'
  <2>1. Local(l, next) /\ UNCHANGED syncVars /\ Line(l, next) /\ count' = count
    BY <1>7, ZenonT(30) DEF Compute, Local
  <2>2. PICK c \in Tids : c = uth_current /\ count[c] \in Int
    BY <1>7, <2>1, UserHas, ZenonT(30)
  <2>3. PICK k \in Int : count' = [count EXCEPT ![c] = k]
    BY <2>1, <2>2, ZenonT(30) DEF RWIndInv, ProgramTypeOK
  <2>4. Local(l, next) /\ UNCHANGED syncVars /\ c = uth_current
    BY <2>1, <2>2, ZenonT(30)
  <2>5. CASE Counted(l, next)
    BY <2>3, <2>4, <2>5, RWCounted, ZenonT(30)
  <2>6. CASE Uncounted(l, next) /\ UNCHANGED <<active_readers, active_writers, waiting_writers>>
    BY <2>3, <2>4, <2>6, RWUncounted, ZenonT(30)
  <2> QED
    BY <1>7, <2>5, <2>6, ZenonT(30)
<1>8. CASE iterate
  <2>1. PICK next \in {"rl_lock", "wl_lock", "return"} :
          Local("start", next) /\ count' = [count EXCEPT ![uth_current] = @ + 1]
    BY <1>8, ZenonT(30) DEF iterate, for, Me
  <2>2. UNCHANGED syncVars /\ UNCHANGED <<active_readers, active_writers, waiting_writers>> /\ Line("start", next)
    BY <1>8, <2>1, ZenonT(30) DEF iterate, rwVars, Local
  <2>3. PICK c \in Tids : c = uth_current /\ count[c] \in Int
    BY <2>2, UserHas, ZenonT(30)
  <2>4. PICK k \in Int : count' = [count EXCEPT ![c] = k]
    <3>1. count[c] + 1 \in Int /\ count' = [count EXCEPT ![c] = count[c] + 1]
      BY <2>1, <2>3
    <3> QED
      BY <3>1, ZenonT(30)
  <2>5. Uncounted("start", next)
    BY ZenonT(30) DEF Uncounted
  <2> QED
    BY <2>1, <2>2, <2>3, <2>4, <2>5, RWUncounted, ZenonT(30)
<1>9. CASE reader
  <2>1. CASE read_lock
    <3>1. CASE acquire("rl_lock", "rl_test")
      BY <1>1, <3>1, ZenonT(30) DEF Called
    <3>2. CASE must_wait /\ on_cond("rl_test", "rl_test", uth_cond_wait(can_read, lock))
      <4>1. Awaited("rl_test") = [cond |-> can_read, mutex |-> lock] /\ Called("rl_test", "rl_test", "none", "cond_unlock")
        BY <3>2, ZenonT(30) DEF Awaited, Called
      <4> QED
        BY <1>6, <3>2, <4>1, ZenonT(30)
    <3>3. CASE ~must_wait /\ Compute("rl_test", "rl_enter") /\ UNCHANGED rwVars
      <4>1. Uncounted("rl_test", "rl_enter") /\ UNCHANGED <<active_readers, active_writers, waiting_writers>>
        BY <3>3, ZenonT(30) DEF Uncounted, rwVars
      <4> QED
        BY <1>7, <3>3, <4>1, ZenonT(30)
    <3>4. ASSUME Compute("rl_enter", "rl_unlock"), active_readers' = active_readers + 1,
                 UNCHANGED <<active_writers, waiting_writers>>
          PROVE  RWIndInv'
      <4>1. Counted("rl_enter", "rl_unlock")
        BY <3>4, ZenonT(30) DEF Counted
      <4> QED
        BY <1>7, <3>4, <4>1, ZenonT(30)
    <3>5. CASE release("rl_unlock", "read")
      BY <1>2, <3>5, ZenonT(30) DEF Called
    <3> QED
      BY <2>1, <3>1, <3>2, <3>3, <3>4, <3>5, ZenonT(30) DEF read_lock
  <2>2. CASE read_unlock
    <3>1. CASE acquire("ru_lock", "ru_leave")
      BY <1>1, <3>1, ZenonT(30) DEF Called
    <3>2. ASSUME NEW next, next = IF active_readers = 1 THEN "ru_signal" ELSE "ru_unlock", Compute("ru_leave", next),
                 active_readers' = active_readers - 1, UNCHANGED <<active_writers, waiting_writers>>
          PROVE  RWIndInv'
      <4>1. Counted("ru_leave", next)
        BY <3>2, ZenonT(30) DEF Counted
      <4> QED
        BY <1>7, <3>2, <4>1, ZenonT(30)
    <3>3. CASE on_cond("ru_signal", "ru_unlock", uth_cond_signal(can_write))
      BY <1>4, <3>3, ZenonT(30) DEF Called
    <3>4. CASE release("ru_unlock", "gap")
      BY <1>2, <3>4, ZenonT(30) DEF Called
    <3> QED
      BY <2>2, <3>1, <3>2, <3>3, <3>4, ZenonT(30) DEF read_unlock
  <2>3. CASE pause("read", "ru_lock") \/ pause("gap", "start")
    BY <1>3, <2>3, ZenonT(30) DEF Called
  <2> QED
    BY <1>9, <2>1, <2>2, <2>3, ZenonT(30) DEF reader
<1>10. CASE writer
  <2>1. CASE write_lock
    <3>1. CASE acquire("wl_lock", "wl_ask")
      BY <1>1, <3>1, ZenonT(30) DEF Called
    <3>2. ASSUME Compute("wl_ask", "wl_test"), waiting_writers' = waiting_writers + 1,
                 UNCHANGED <<active_readers, active_writers>>
          PROVE  RWIndInv'
      <4>1. Counted("wl_ask", "wl_test")
        BY <3>2, ZenonT(30) DEF Counted
      <4> QED
        BY <1>7, <3>2, <4>1, ZenonT(30)
    <3>3. CASE somebody_in /\ on_cond("wl_test", "wl_test", uth_cond_wait(can_write, lock))
      <4>1. Awaited("wl_test") = [cond |-> can_write, mutex |-> lock] /\ Called("wl_test", "wl_test", "none", "cond_unlock")
        BY <3>3, ZenonT(30) DEF Awaited, Called
      <4> QED
        BY <1>6, <3>3, <4>1, ZenonT(30)
    <3>4. CASE ~somebody_in /\ Compute("wl_test", "wl_enter") /\ UNCHANGED rwVars
      <4>1. Uncounted("wl_test", "wl_enter") /\ UNCHANGED <<active_readers, active_writers, waiting_writers>>
        BY <3>4, ZenonT(30) DEF Uncounted, rwVars
      <4> QED
        BY <1>7, <3>4, <4>1, ZenonT(30)
    <3>5. ASSUME Compute("wl_enter", "wl_unlock"), waiting_writers' = waiting_writers - 1,
                 active_writers' = active_writers + 1, UNCHANGED active_readers
          PROVE  RWIndInv'
      <4>1. Counted("wl_enter", "wl_unlock")
        BY <3>5, ZenonT(30) DEF Counted
      <4> QED
        BY <1>7, <3>5, <4>1, ZenonT(30)
    <3>6. CASE release("wl_unlock", "load")
      BY <1>2, <3>6, ZenonT(30) DEF Called
    <3> QED
      BY <2>1, <3>1, <3>2, <3>3, <3>4, <3>5, <3>6, ZenonT(30) DEF write_lock
  <2>2. CASE increment
    <3>1. /\ Compute("load", "write") \/ Compute("write", "hold")
          /\ UNCHANGED <<active_readers, active_writers, waiting_writers>>
      BY <2>2, ZenonT(30) DEF increment
    <3>2. Uncounted("load", "write") /\ Uncounted("write", "hold")
      BY ZenonT(30) DEF Uncounted
    <3> QED
      BY <1>7, <3>1, <3>2, ZenonT(30)
  <2>3. CASE pause("hold", "wu_lock")
    BY <1>3, <2>3, ZenonT(30) DEF Called
  <2>4. CASE write_unlock
    <3>1. CASE acquire("wu_lock", "wu_leave")
      BY <1>1, <3>1, ZenonT(30) DEF Called
    <3>2. ASSUME NEW next, next = wake_next, Compute("wu_leave", next),
                 active_writers' = active_writers - 1, UNCHANGED <<active_readers, waiting_writers>>
          PROVE  RWIndInv'
      <4>1. Counted("wu_leave", next)
        BY <3>2, ZenonT(30) DEF Counted, wake_next
      <4> QED
        BY <1>7, <3>2, <4>1, ZenonT(30)
    <3>3. CASE on_cond("wu_signal", "wu_unlock", uth_cond_signal(can_write))
      BY <1>4, <3>3, ZenonT(30) DEF Called
    <3>4. CASE on_cond("wu_broadcast", "wu_unlock", uth_cond_broadcast(can_read))
      BY <1>5, <3>4, ZenonT(30)
    <3>5. CASE release("wu_unlock", "gap")
      BY <1>2, <3>5, ZenonT(30) DEF Called
    <3> QED
      BY <2>4, <3>1, <3>2, <3>3, <3>4, <3>5, ZenonT(30) DEF write_unlock
  <2> QED
    BY <1>10, <2>1, <2>2, <2>3, <2>4, ZenonT(30) DEF writer
<1> QED
  BY <1>8, <1>9, <1>10, ZenonT(30)
=============================================================================
