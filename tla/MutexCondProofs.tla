-------------------------- MODULE MutexCondProofs --------------------------
(***************************************************************************)
(* The mutex is correct for any number of threads and mutexes, with and    *)
(* without preemption: MutexIndInv of module Mutex is inductive.           *)
(* uth_cond_wait releases the mutex and goes to sleep atomically, and the  *)
(* mutex stays correct under its nested calls, for any number of condition *)
(* variables: CondIndInv of module CondVar is inductive.                   *)
(*                                                                         *)
(* The last part is what the programs that use mutexes share: where a step *)
(* of the mutex or of a condition variable leaves each thread, and that    *)
(* the steps of the thread library and of driver() leave the mutex alone.  *)
(***************************************************************************)
EXTENDS CondVar, ThreadsProofs

-----------------------------------------------------------------------------
(* The mutex.                                                              *)

\* The initial state satisfies the inductive invariant.
LEMMA MutexInitInv == MutexInit => MutexIndInv
<1> SUFFICES ASSUME MutexInit PROVE MutexIndInv
  OBVIOUS
<1> USE SchedulerAssumption, MutexAssumption
<1>1. SchedInv
  BY SchedInitInv, ZenonT(30) DEF MutexInit
<1>2. /\ locked = [m \in Mutexes |-> FALSE] /\ owner = [m \in Mutexes |-> NULL]
      /\ held = [t \in Tids |-> {}] /\ pc = "loop" /\ waiters = [o \in Objs |-> <<>>]
      /\ \A t \in Tids : state[t] = "READY" /\ ctx[t] = NewContext
  BY ZenonT(30) DEF MutexInit, uth_mutex_init, SchedInit
<1>3. \A t \in Tids : Place(t) = "user"
  BY <1>2 DEF Place, OnCpu, SchedLabels, NewContext
<1>4. MutexTypeOK
  BY <1>1, <1>2, ZenonT(30) DEF MutexTypeOK, SchedInv
<1>5. MutualExclusion /\ NoLostWakeup
  BY <1>2, ZenonT(30) DEF MutualExclusion, NoLostWakeup
<1>6. MutexInv
  BY <1>2, <1>3, ZenonT(30) DEF MutexInv, MutexLabels, CallInv
<1> QED
  BY <1>1, <1>4, <1>5, <1>6, ZenonT(30) DEF MutexIndInv

\* A step that is no step of a mutex call leaves the mutexes correct, if it
\* puts nobody to sleep on a mutex and keeps those who try at the exchange.
LEMMA OtherStep ==
  ASSUME MutexIndInv, SchedInv',
         \A m \in Mutexes : waiters'[m] = waiters[m],
         UNCHANGED mutexVars,
         pc \notin {"lock_own", "unlock_wake"},
         pc' \notin {"lock_block", "lock_swap", "lock_own"},
         pc' = "unlock_free" => obj'[uth_current'] \in held[uth_current'],
         \A t \in Tids : Place(t)' \in MutexLabels => obj'[t] \in Mutexes,
         \A t \in Tids : state'[t] = "BLOCKED" /\ obj'[t] \in Mutexes =>
           Place(t)' \in {"lock_swap", "lock_xchg"},
         \A t \in Tids : \A m \in Mutexes : Trying(t, m) => Trying(t, m)'
  PROVE  MutexIndInv'
<1> USE SchedulerAssumption, MutexAssumption DEF MutexIndInv, mutexVars
<1>1. MutexTypeOK'
  BY ZenonT(30) DEF MutexTypeOK, SchedInv
<1>2. MutualExclusion'
  BY ZenonT(30) DEF MutualExclusion
<1>3. NoLostWakeup'
  BY ZenonT(30) DEF NoLostWakeup
<1>4. MutexInv'
  <2>1. \A m \in Mutexes : locked'[m] => \E t \in Tids : m \in held'[t]
    BY ZenonT(30) DEF MutexInv
  <2>2. \A m \in Mutexes : owner'[m] # NULL => m \in held'[owner'[m]]
    BY ZenonT(30) DEF MutexInv
  <2>3. CallInv'
    BY ZenonT(30) DEF CallInv
  <2> QED
    BY <2>1, <2>2, <2>3, ZenonT(30) DEF MutexInv
<1> QED
  BY <1>1, <1>2, <1>3, <1>4, ZenonT(30)

\* The steps the processor takes by itself, and preemption.
LEMMA MutexQuiet ==
  ASSUME MutexIndInv, SchedNext \/ Preempt, UNCHANGED mutexVars
  PROVE  MutexIndInv'
<1> USE SchedulerAssumption, MutexAssumption
<1>1. /\ SchedInv' /\ UNCHANGED waiters /\ pc \in QuietFrom /\ pc' \in QuietTo
      /\ \A t \in Tids : Quiet(t)
  BY QuietSteps, ZenonT(30) DEF MutexIndInv
<1>2. /\ pc \notin {"lock_own", "unlock_wake"}
      /\ pc' \notin {"lock_block", "lock_swap", "lock_own", "unlock_free"}
  BY <1>1, SwapLemma, ZenonT(30) DEF QuietFrom, QuietTo, SchedLabels, Unmasked, ReturnLabels
<1>3. ASSUME NEW t \in Tids
      PROVE  /\ \/ obj'[t] = obj[t] /\ Place(t)' = Place(t)
                \/ obj'[t] = obj[t] /\ Place(t) = "lock_swap" /\ Place(t)' = "lock_xchg"
                \/ Place(t) \notin MutexLabels /\ Place(t)' \notin MutexLabels
                     /\ (obj'[t] = obj[t] \/ obj'[t] = "none")
             /\ state'[t] = "BLOCKED" => state[t] = "BLOCKED"
             /\ state[t] \in {"READY", "RUNNING"} => state'[t] \in {"READY", "RUNNING"}
  BY <1>1, <1>3, SwapLemma DEF Quiet, MutexLabels, Preemptible, Unmasked, ReturnLabels
<1>4. \A t \in Tids : Place(t)' \in MutexLabels => obj'[t] \in Mutexes
  BY <1>3, ZenonT(30) DEF MutexIndInv, MutexInv, MutexLabels
<1>5. \A t \in Tids : state'[t] = "BLOCKED" /\ obj'[t] \in Mutexes =>
        Place(t)' \in {"lock_swap", "lock_xchg"}
  BY <1>3, ZenonT(30) DEF MutexIndInv, MutexInv, MutexLabels
<1>6. \A t \in Tids : \A m \in Mutexes : Trying(t, m) => Trying(t, m)'
  BY <1>3, ZenonT(30) DEF Trying, MutexLabels
<1> QED
  BY <1>1, <1>2, <1>4, <1>5, <1>6, OtherStep, ZenonT(30)

\* A call of the API, also from inside uth_cond_wait.
LEMMA MutexEntry ==
  ASSUME MutexIndInv,
         NEW from \in Unmasked \cup {"cond_unlock", "cond_relock"},
         NEW o \in Objs \cup {"none"},
         NEW ret \in ReturnLabels, ret \in Unmasked <=> from \in Unmasked,
         NEW l \in Sections \ {"lock_block", "lock_own", "unlock_wake"},
         Enter(from, o, ret, l),
         l \in {"lock_xchg", "unlock_free"} => o \in Mutexes,
         l = "unlock_free" => o \in held[uth_current],
         UNCHANGED mutexVars
  PROVE  MutexIndInv'
<1> USE SchedulerAssumption, MutexAssumption
<1> DEFINE c == uth_current
<1>1. SchedInv /\ from \in Unmasked \cup Sections
  BY ZenonT(30) DEF MutexIndInv, Sections
<1>2. SchedInv'
  BY <1>1, EnterStep, ZenonT(30)
<1>3. /\ pc = from /\ pc' = l /\ obj' = [obj EXCEPT ![c] = o]
      /\ UNCHANGED <<uth_current, rq, state, ctx, waiters>>
  BY ZenonT(30) DEF Enter, uth_preempt_off
<1>4. l \notin SchedLabels /\ l # "lock_swap" /\ from \notin {"lock_own", "unlock_wake", "lock_xchg"}
  BY ZenonT(30) DEF SchedLabels, Sections, Unmasked
<1>5. /\ c \in Tids /\ state[c] = "RUNNING" /\ Place(c) = from
      /\ \A t \in Tids : Place(t)' = IF t = c THEN l ELSE Place(t)
  BY <1>1, <1>3, <1>4, ThreadCode, ZenonT(30)
<1>6. \A t \in Tids : obj'[t] = IF t = c THEN o ELSE obj[t]
  BY <1>1, <1>3, ZenonT(30) DEF SchedInv, SchedTypeOK
<1>7. \A t \in Tids : Place(t)' \in MutexLabels => obj'[t] \in Mutexes
  BY <1>4, <1>5, <1>6, ZenonT(30) DEF MutexIndInv, MutexInv, MutexLabels
<1>8. \A t \in Tids : state'[t] = "BLOCKED" /\ obj'[t] \in Mutexes =>
        Place(t)' \in {"lock_swap", "lock_xchg"}
  BY <1>3, <1>5, <1>6, ZenonT(30) DEF MutexIndInv, MutexInv
<1>9. \A t \in Tids : \A m \in Mutexes : Trying(t, m) => Trying(t, m)'
  BY <1>3, <1>4, <1>5, <1>6, ZenonT(30) DEF Trying
<1> QED
  BY <1>2, <1>3, <1>4, <1>5, <1>6, <1>7, <1>8, <1>9, OtherStep, ZenonT(30)

\* A step of a client.
LEMMA ClientInv ==
  ASSUME MutexIndInv, MutexClient
  PROVE  MutexIndInv'
<1> USE SchedulerAssumption, MutexAssumption
<1>1. /\ pc = "user" /\ "user" \in Unmasked \cap ReturnLabels
      /\ {"yield_push", "lock_xchg", "unlock_free"} \subseteq
           Sections \ {"lock_block", "lock_own", "unlock_wake"}
  BY ZenonT(30) DEF MutexClient, ReturnLabels, Unmasked, Sections
<1>2. ASSUME NEW m \in Mutexes, uth_mutex_lock(m, "user", "user")
      PROVE  MutexIndInv'
  BY <1>1, <1>2, MutexEntry, ZenonT(30) DEF uth_mutex_lock
<1>3. ASSUME NEW m \in held[uth_current], uth_mutex_unlock(m, "user", "user")
      PROVE  MutexIndInv'
  <2>1. uth_current \in Tids
    BY <1>1, ZenonT(30) DEF MutexIndInv, SchedInv, CpuInv
  <2>2. m \in Mutexes
    BY <2>1, ZenonT(30) DEF MutexIndInv, MutexTypeOK
  <2> QED
    BY <1>1, <1>3, <2>2, MutexEntry, ZenonT(30) DEF uth_mutex_unlock
<1>4. CASE uth_yield("user", "user") /\ UNCHANGED mutexVars
  BY <1>1, <1>4, MutexEntry, ZenonT(30) DEF uth_yield
<1> QED
  BY <1>2, <1>3, <1>4, ZenonT(30) DEF MutexClient

\* Where the threads are while the processor goes from one label of a call
\* to the next.
LEMMA CallPlaces ==
  ASSUME MutexIndInv, pc \in MutexLabels \ {"lock_swap"}, pc' \notin SchedLabels,
         UNCHANGED <<uth_current, ctx>>
  PROVE  /\ uth_current \in Tids /\ state[uth_current] = "RUNNING"
         /\ Place(uth_current) = pc /\ obj[uth_current] \in Mutexes
         /\ \A t \in Tids : Place(t)' = IF t = uth_current THEN pc' ELSE Place(t)
<1>1. SchedInv /\ pc \in Sections
  BY ZenonT(30) DEF MutexIndInv, MutexLabels, Sections
<1>2. /\ uth_current \in Tids /\ state[uth_current] = "RUNNING"
      /\ Place(uth_current) = pc
      /\ \A t \in Tids : Place(t)' = IF t = uth_current THEN pc' ELSE Place(t)
  BY <1>1, ThreadCode, ZenonT(30)
<1>3. obj[uth_current] \in Mutexes
  BY <1>2, ZenonT(30) DEF MutexIndInv, MutexInv
<1> QED
  BY <1>2, <1>3, ZenonT(30)

\* The atomic exchange.
LEMMA LockXchgInv ==
  ASSUME MutexIndInv, lock_xchg
  PROVE  MutexIndInv'
<1> USE SchedulerAssumption, MutexAssumption
<1> DEFINE c == uth_current
           m == obj[c]
<1>1. /\ pc = "lock_xchg" /\ locked' = [locked EXCEPT ![m] = TRUE]
      /\ pc' = IF locked[m] THEN "lock_block" ELSE "lock_own"
      /\ UNCHANGED <<uth_current, rq, state, ctx, waiters, obj, frames, masked, owner, held>>
  BY ZenonT(30) DEF lock_xchg, Goto, Obj
<1>2. SchedInv'
  <2>1. SchedInv /\ pc \in Sections /\ pc' \in Sections /\ Goto(pc')
    BY <1>1, ZenonT(30) DEF MutexIndInv, Sections, Goto
  <2> QED
    BY <2>1, SectionStep, ZenonT(30)
<1>3. /\ c \in Tids /\ state[c] = "RUNNING" /\ Place(c) = pc /\ m \in Mutexes
      /\ \A t \in Tids : Place(t)' = IF t = c THEN pc' ELSE Place(t)
  BY <1>1, CallPlaces, ZenonT(30) DEF MutexLabels, SchedLabels
<1> USE DEF MutexIndInv
<1>4. MutexTypeOK'
  BY <1>1, <1>2, ZenonT(30) DEF MutexTypeOK, SchedInv
<1>5. \A k \in Mutexes : locked'[k] = (k = m \/ locked[k])
  BY <1>1, <1>3, ZenonT(30) DEF MutexTypeOK
<1>6. MutualExclusion'
  BY <1>1, <1>5, ZenonT(30) DEF MutualExclusion, MutexTypeOK
<1>7. CASE locked[m]
  <2>1. pc' = "lock_block" /\ \E t \in Tids : m \in held[t]
    BY <1>1, <1>3, <1>7, ZenonT(30) DEF MutexInv
  <2>2. NoLostWakeup'
    BY <1>1, <1>3, <2>1, SMTT(30) DEF NoLostWakeup, Trying
  <2>3. MutexInv'
    BY <1>1, <1>3, <1>5, <2>1, ZenonT(30) DEF MutexInv, CallInv, MutexLabels
  <2> QED
    BY <1>2, <1>4, <1>6, <2>2, <2>3, ZenonT(30)
<1>8. CASE ~locked[m]
  <2>1. pc' = "lock_own" /\ \A t \in Tids : m \notin held[t]
    BY <1>1, <1>8, ZenonT(30) DEF MutualExclusion
  <2>2. NoLostWakeup'
    BY <1>1, <1>3, <2>1, SMTT(30) DEF NoLostWakeup, Trying
  <2>3. MutexInv'
    BY <1>1, <1>3, <1>5, <2>1, ZenonT(30) DEF MutexInv, CallInv, MutexLabels
  <2> QED
    BY <1>2, <1>4, <1>6, <2>2, <2>3, ZenonT(30)
<1> QED
  BY <1>7, <1>8, ZenonT(30)

\* A thread that found the flag set goes to sleep.
LEMMA LockBlockInv ==
  ASSUME MutexIndInv, lock_block
  PROVE  MutexIndInv'
<1> USE SchedulerAssumption, MutexAssumption
<1> DEFINE c == uth_current
           m == obj[c]
<1>1. /\ pc = "lock_block" /\ pc' = "lock_swap" /\ uth_block(m, "lock_swap")
      /\ state' = [state EXCEPT ![c] = "BLOCKED"]
      /\ waiters' = [waiters EXCEPT ![m] = Append(@, c)]
      /\ obj' = [obj EXCEPT ![c] = m]
      /\ UNCHANGED <<uth_current, rq, ctx, frames, masked, locked, owner, held>>
  BY ZenonT(30) DEF lock_block, uth_block, Obj, mutexVars
<1>2. /\ c \in Tids /\ state[c] = "RUNNING" /\ Place(c) = pc /\ m \in Mutexes
      /\ \A t \in Tids : Place(t)' = IF t = c THEN pc' ELSE Place(t)
  BY <1>1, CallPlaces, ZenonT(30) DEF MutexLabels, SchedLabels
<1>3. SchedInv'
  BY <1>1, <1>2, SwapLemma, BlockStep, ZenonT(30) DEF MutexIndInv, Sections
<1>4. UNCHANGED obj
  BY <1>1, <1>2, ZenonT(30) DEF MutexIndInv, SchedInv, SchedTypeOK
<1> USE DEF MutexIndInv
<1>5. MutexTypeOK'
  BY <1>1, <1>3, ZenonT(30) DEF MutexTypeOK, SchedInv
<1>6. MutualExclusion'
  BY <1>1, ZenonT(30) DEF MutualExclusion
<1>7. locked[m] /\ \E t \in Tids : m \in held[t]
  BY <1>1, <1>2, ZenonT(30) DEF MutexInv, CallInv
<1>8. \A t \in Tids : state'[t] = IF t = c THEN "BLOCKED" ELSE state[t]
  BY <1>1, ZenonT(30) DEF SchedInv, SchedTypeOK
<1>9. NoLostWakeup'
  <2> SUFFICES ASSUME NEW k \in Mutexes, waiters'[k] # <<>>, \A t \in Tids : k \notin held[t]
               PROVE  \E t \in Tids : Trying(t, k)'
    BY <1>1, <1>4, ZenonT(30) DEF NoLostWakeup
  <2>1. k # m /\ waiters[k] # <<>>
    BY <1>1, <1>7, ZenonT(30) DEF SchedInv, SchedTypeOK
  <2>2. PICK t \in Tids : Trying(t, k)
    BY <1>1, <2>1, ZenonT(30) DEF NoLostWakeup
  <2> QED
    BY <1>1, <1>2, <1>4, <1>8, <2>2, ZenonT(30) DEF Trying
<1>10. MutexInv'
  BY <1>1, <1>2, <1>4, <1>7, <1>8, SMTT(30) DEF MutexInv, CallInv, MutexLabels
<1> QED
  BY <1>3, <1>5, <1>6, <1>9, <1>10, ZenonT(30)

\* The thread that took the flag becomes the owner.
LEMMA LockOwnInv ==
  ASSUME MutexIndInv, lock_own
  PROVE  MutexIndInv'
<1> USE SchedulerAssumption, MutexAssumption
<1> DEFINE c == uth_current
           m == obj[c]
<1>1. /\ pc = "lock_own" /\ pc' = "leave"
      /\ owner' = [owner EXCEPT ![m] = c]
      /\ held' = [held EXCEPT ![c] = @ \cup {m}]
      /\ UNCHANGED <<uth_current, rq, state, ctx, waiters, obj, frames, masked, locked>>
  BY ZenonT(30) DEF lock_own, Goto, Obj
<1>2. /\ c \in Tids /\ state[c] = "RUNNING" /\ Place(c) = pc /\ m \in Mutexes
      /\ \A t \in Tids : Place(t)' = IF t = c THEN pc' ELSE Place(t)
  BY <1>1, CallPlaces, ZenonT(30) DEF MutexLabels, SchedLabels
<1>3. SchedInv'
  <2>1. SchedInv /\ pc \in Sections /\ pc' \in Sections /\ Goto(pc')
    BY <1>1, ZenonT(30) DEF MutexIndInv, Sections, Goto
  <2> QED
    BY <2>1, SectionStep, ZenonT(30)
<1> USE DEF MutexIndInv
<1>4. MutexTypeOK'
  BY <1>1, <1>2, <1>3, ZenonT(30) DEF MutexTypeOK, SchedInv
<1>5. locked[m] /\ \A t \in Tids : m \notin held[t]
  BY <1>1, ZenonT(30) DEF MutexInv, CallInv
<1>6. /\ \A t \in Tids : held'[t] = IF t = c THEN held[t] \cup {m} ELSE held[t]
      /\ \A k \in Mutexes : owner'[k] = IF k = m THEN c ELSE owner[k]
  BY <1>1, <1>2, ZenonT(30) DEF MutexTypeOK
<1>7. MutualExclusion'
  BY <1>1, <1>2, <1>5, <1>6 DEF MutualExclusion, MutexTypeOK
<1>8. NoLostWakeup'
  <2> SUFFICES ASSUME NEW k \in Mutexes, waiters[k] # <<>>, \A t \in Tids : k \notin held'[t]
               PROVE  \E t \in Tids : Trying(t, k)'
    BY <1>1, ZenonT(30) DEF NoLostWakeup
  <2>1. k # m /\ \A t \in Tids : k \notin held[t]
    BY <1>2, <1>6, ZenonT(30)
  <2>2. PICK t \in Tids : Trying(t, k)
    BY <1>1, <2>1, ZenonT(30) DEF NoLostWakeup
  <2> QED
    BY <1>1, <1>2, <2>2, ZenonT(30) DEF Trying
<1>9. MutexInv'
  BY <1>1, <1>2, <1>6, SMTT(30) DEF MutexInv, CallInv, MutexLabels
<1> QED
  BY <1>3, <1>4, <1>7, <1>8, <1>9, ZenonT(30)

\* The owner clears the flag ...
LEMMA UnlockFreeInv ==
  ASSUME MutexIndInv, unlock_free
  PROVE  MutexIndInv'
<1> USE SchedulerAssumption, MutexAssumption
<1> DEFINE c == uth_current
           m == obj[c]
<1>1. /\ pc = "unlock_free" /\ pc' = "unlock_wake"
      /\ owner' = [owner EXCEPT ![m] = NULL]
      /\ locked' = [locked EXCEPT ![m] = FALSE]
      /\ held' = [held EXCEPT ![c] = @ \ {m}]
      /\ UNCHANGED <<uth_current, rq, state, ctx, waiters, obj, frames, masked>>
  BY ZenonT(30) DEF unlock_free, Goto, Obj
<1>2. /\ c \in Tids /\ state[c] = "RUNNING" /\ Place(c) = pc /\ m \in Mutexes
      /\ \A t \in Tids : Place(t)' = IF t = c THEN pc' ELSE Place(t)
  BY <1>1, CallPlaces, ZenonT(30) DEF MutexLabels, SchedLabels
<1>3. SchedInv'
  <2>1. SchedInv /\ pc \in Sections /\ pc' \in Sections /\ Goto(pc')
    BY <1>1, ZenonT(30) DEF MutexIndInv, Sections, Goto
  <2> QED
    BY <2>1, SectionStep, ZenonT(30)
<1> USE DEF MutexIndInv
<1>4. MutexTypeOK'
  BY <1>1, <1>2, <1>3, ZenonT(30) DEF MutexTypeOK, SchedInv
<1>5. m \in held[c] /\ \A t \in Tids : m \in held[t] => t = c
  BY <1>1, <1>2, SMTT(30) DEF MutexInv, CallInv, MutualExclusion
<1>6. /\ \A t \in Tids : held'[t] = IF t = c THEN held[t] \ {m} ELSE held[t]
      /\ \A k \in Mutexes \ {m} : owner'[k] = owner[k] /\ locked'[k] = locked[k]
      /\ ~locked'[m]
  BY <1>1, <1>2, ZenonT(30) DEF MutexTypeOK
<1>7. \A k \in Mutexes \ {m} : \A t \in Tids : k \in held[t] <=> k \in held'[t]
  BY <1>6, ZenonT(30)
<1>8. \A t \in Tids : m \notin held'[t]
  BY <1>5, <1>6, ZenonT(30)
<1>9. MutualExclusion'
  <2> SUFFICES ASSUME NEW t \in Tids, NEW k \in held'[t]
               PROVE  locked'[k] /\ owner'[k] = t
    BY ZenonT(30) DEF MutualExclusion
  <2>1. k \in Mutexes \ {m}
    BY <1>4, <1>8, ZenonT(30) DEF MutexTypeOK
  <2> QED
    BY <1>6, <1>7, <2>1, ZenonT(30) DEF MutualExclusion
<1>10. NoLostWakeup'
  <2> SUFFICES ASSUME NEW k \in Mutexes \ {m}, waiters[k] # <<>>, \A t \in Tids : k \notin held'[t]
               PROVE  \E t \in Tids : Trying(t, k)'
    BY <1>1, ZenonT(30) DEF NoLostWakeup
  <2>1. PICK t \in Tids : Trying(t, k)
    BY <1>1, <1>7, ZenonT(30) DEF NoLostWakeup
  <2> QED
    BY <1>1, <1>2, <2>1, ZenonT(30) DEF Trying
<1>11. MutexInv'
  <2>1. \A t \in Tids : Place(t)' \in MutexLabels => obj'[t] \in Mutexes
    BY <1>1, <1>2, ZenonT(30) DEF MutexInv
  <2>2. \A t \in Tids : state'[t] = "BLOCKED" /\ obj'[t] \in Mutexes =>
          Place(t)' \in {"lock_swap", "lock_xchg"}
    BY <1>1, <1>2, ZenonT(30) DEF MutexInv
  <2>3. \A k \in Mutexes : locked'[k] => \E t \in Tids : k \in held'[t]
    BY <1>1, <1>6, <1>7, ZenonT(30) DEF MutexInv
  <2>4. \A k \in Mutexes : owner'[k] # NULL => k \in held'[owner'[k]]
    <3> SUFFICES ASSUME NEW k \in Mutexes, owner'[k] # NULL PROVE k \in held'[owner'[k]]
      OBVIOUS
    <3>1. k # m /\ owner'[k] = owner[k]
      BY <1>1, <1>6, ZenonT(30) DEF MutexTypeOK
    <3> QED
      BY <1>7, <3>1, ZenonT(30) DEF MutexInv, MutexTypeOK
  <2> QED
    BY <1>1, <2>1, <2>2, <2>3, <2>4, ZenonT(30) DEF MutexInv, CallInv
<1> QED
  BY <1>3, <1>4, <1>9, <1>10, <1>11, ZenonT(30)

\* ... and wakes the first sleeper, which will try the exchange.
LEMMA UnlockWakeInv ==
  ASSUME MutexIndInv, unlock_wake
  PROVE  MutexIndInv'
<1> USE SchedulerAssumption, MutexAssumption
<1> DEFINE c == uth_current
           m == obj[c]
<1>1. /\ pc = "unlock_wake" /\ pc' = "leave" /\ uth_wake_one(m, "leave")
      /\ UNCHANGED <<uth_current, ctx, obj, frames, masked, locked, owner, held>>
  BY ZenonT(30) DEF unlock_wake, uth_wake_one, Goto, Obj, mutexVars
<1>2. /\ c \in Tids /\ state[c] = "RUNNING" /\ Place(c) = pc /\ m \in Mutexes
      /\ \A t \in Tids : Place(t)' = IF t = c THEN pc' ELSE Place(t)
  BY <1>1, CallPlaces, ZenonT(30) DEF MutexLabels, SchedLabels
<1>3. SchedInv'
  BY <1>1, <1>2, WakeStep, ZenonT(30) DEF MutexIndInv, Sections
<1> USE DEF MutexIndInv
<1>4. MutexTypeOK'
  BY <1>1, <1>3, ZenonT(30) DEF MutexTypeOK, SchedInv
<1>5. MutualExclusion'
  BY <1>1, ZenonT(30) DEF MutualExclusion
<1>6. /\ \A t \in Tids : state'[t] = state[t] \/ state'[t] = "READY"
      /\ \A k \in Mutexes \ {m} : waiters'[k] = waiters[k]
  BY <1>1, <1>2, ZenonT(30) DEF uth_wake_one, Goto, uth_enqueue, SchedInv, SchedTypeOK
<1>7. ASSUME NEW k \in Mutexes, k = m, waiters[k] # <<>>
      PROVE  \E t \in Tids : Trying(t, k)'
  <2>1. PICK h \in Tids : h = Head(waiters[k]) /\ h \in Range(waiters[k])
    BY <1>7, PopLemma, ZenonT(30) DEF SchedInv, SchedTypeOK, QueueDiscipline
  <2>2. state[h] = "BLOCKED" /\ obj[h] = k /\ h # c
    BY <1>2, <2>1, ZenonT(30) DEF SchedInv, QueueDiscipline
  <2>3. state'[h] = "READY"
    BY <1>1, <1>7, <2>1, ZenonT(30) DEF uth_wake_one, Goto, uth_enqueue, SchedInv, SchedTypeOK
  <2>4. Place(h) = "lock_xchg"
    <3>1. Place(h) = ctx[h].pc /\ ctx[h].pc \in Resumable
      BY <2>1, <2>2, ZenonT(30) DEF Place, SchedInv, SchedTypeOK
    <3> QED
      BY <2>1, <2>2, <3>1, SwapLemma, SMTT(30) DEF MutexInv
  <2> QED
    BY <1>1, <1>2, <2>1, <2>2, <2>3, <2>4, ZenonT(30) DEF Trying
<1>8. NoLostWakeup'
  <2> SUFFICES ASSUME NEW k \in Mutexes, waiters'[k] # <<>>, \A t \in Tids : k \notin held[t]
               PROVE  \E t \in Tids : Trying(t, k)'
    BY <1>1, ZenonT(30) DEF NoLostWakeup
  <2>1. CASE k = m
    <3>1. waiters[k] # <<>>
      BY <1>1, <2>1, ZenonT(30) DEF uth_wake_one, Goto
    <3> QED
      BY <1>7, <2>1, <3>1, ZenonT(30)
  <2>2. CASE k # m
    <3>1. PICK t \in Tids : Trying(t, k)
      BY <1>1, <1>6, <2>2, ZenonT(30) DEF NoLostWakeup
    <3> QED
      BY <1>1, <1>2, <1>6, <3>1, ZenonT(30) DEF Trying
  <2> QED
    BY <2>1, <2>2, ZenonT(30)
<1>9. MutexInv'
  <2>1. \A t \in Tids : state'[t] = "BLOCKED" /\ obj'[t] \in Mutexes =>
          Place(t)' \in {"lock_swap", "lock_xchg"}
    BY <1>1, <1>2, <1>6, ZenonT(30) DEF MutexInv
  <2> QED
    BY <1>1, <1>2, <2>1, ZenonT(30) DEF MutexInv, CallInv, MutexLabels
<1> QED
  BY <1>3, <1>4, <1>5, <1>8, <1>9, ZenonT(30)

-----------------------------------------------------------------------------
\* Every step of the program preserves the inductive invariant.
LEMMA MutexNextInv == MutexIndInv /\ [MutexNext]_mutexSysVars => MutexIndInv'
<1> SUFFICES ASSUME MutexIndInv, [MutexNext]_mutexSysVars PROVE MutexIndInv'
  OBVIOUS
<1>1. CASE (SchedNext \/ Preempt) /\ UNCHANGED mutexVars
  BY <1>1, MutexQuiet, ZenonT(30)
<1>2. CASE MutexStep
  BY <1>2, LockXchgInv, LockBlockInv, LockOwnInv, UnlockFreeInv, UnlockWakeInv, ZenonT(30) DEF
     MutexStep
<1>3. CASE MutexClient
  BY <1>3, ClientInv, ZenonT(30)
<1>4. CASE UNCHANGED mutexSysVars
  <2>1. UNCHANGED schedVars /\ UNCHANGED mutexVars
    BY <1>4, ZenonT(30) DEF mutexSysVars
  <2>2. SchedInv'
    BY <2>1, SchedStutter, ZenonT(30) DEF MutexIndInv
  <2>3. MutexTypeOK' /\ MutualExclusion'
    BY <2>1, <2>2, ZenonT(30) DEF mutexVars, MutexIndInv, MutexTypeOK, MutualExclusion, SchedInv
  <2>4. \A t \in Tids : Place(t)' = Place(t)
    BY <2>1, ZenonT(30) DEF schedVars, Place, OnCpu
  <2>5. NoLostWakeup' /\ MutexInv'
    BY <2>1, <2>4, SMTT(30) DEF schedVars, mutexVars, MutexIndInv, NoLostWakeup, Trying, MutexInv,
       CallInv
  <2> QED
    BY <2>2, <2>3, <2>5, ZenonT(30) DEF MutexIndInv
<1> QED
  BY <1>1, <1>2, <1>3, <1>4, ZenonT(30) DEF MutexNext, MutexCpuStep

\* Every step of the program is a step of the abstract lock, or none: only
\* lock_own and unlock_free touch the owner field.
LEMMA MutexLockStep == MutexIndInv /\ [MutexNext]_mutexSysVars => [MutexLock!Next]_owner
<1> SUFFICES ASSUME MutexIndInv, [MutexNext]_mutexSysVars, owner' # owner
             PROVE  MutexLock!Next
  BY ZenonT(30)
<1> DEFINE c == uth_current
           m == obj[c]
<1>1. lock_own \/ unlock_free
  BY ZenonT(30) DEF MutexNext, MutexCpuStep, MutexStep, MutexClient, mutexSysVars, mutexVars,
     lock_xchg, lock_block, unlock_wake, uth_mutex_lock, uth_mutex_unlock
<1>2. c \in Tids /\ m \in Mutexes
  <2>1. pc \in MutexLabels \ {"lock_swap"} /\ pc' \notin SchedLabels /\ UNCHANGED <<uth_current, ctx>>
    BY <1>1, ZenonT(30) DEF lock_own, unlock_free, Goto, MutexLabels, SchedLabels
  <2> QED
    BY <2>1, CallPlaces, ZenonT(30)
<1>3. CASE lock_own
  <2>1. owner' = [owner EXCEPT ![m] = c] /\ \A t \in Tids : m \notin held[t]
    BY <1>3, ZenonT(30) DEF lock_own, Obj, MutexIndInv, MutexInv, CallInv
  <2>2. owner[m] = NULL
    BY <1>2, <2>1, ZenonT(30) DEF MutexIndInv, MutexInv, MutexTypeOK
  <2> QED
    BY <1>2, <2>1, <2>2, ZenonT(30) DEF MutexLock!Next, MutexLock!Acquire
<1>4. CASE unlock_free
  <2>1. owner' = [owner EXCEPT ![m] = NULL] /\ m \in held[c]
    BY <1>4, ZenonT(30) DEF unlock_free, Obj, MutexIndInv, MutexInv, CallInv
  <2>2. owner[m] = c
    BY <1>2, <2>1, ZenonT(30) DEF MutexIndInv, MutualExclusion
  <2> QED
    BY <1>2, <2>1, <2>2, ZenonT(30) DEF MutexLock!Next, MutexLock!Release
<1> QED
  BY <1>1, <1>3, <1>4, ZenonT(30)

\* MutexIndInv holds in every reachable state.
THEOREM MutexCorrect == MutexSpec => []MutexIndInv
BY MutexInitInv, MutexNextInv, PTL DEF MutexSpec

\* The mutex implements the abstract lock: its owner is the holder.
THEOREM MutexRefines == MutexSpec => ImplementsLock
<1>1. MutexInit => MutexLock!Init
  BY ZenonT(30) DEF MutexInit, uth_mutex_init, MutexLock!Init
<1> QED
  BY <1>1, MutexLockStep, MutexCorrect, PTL DEF MutexSpec, ImplementsLock, MutexLock!Spec

\* The data structures keep their types.
THEOREM MutexTypes == MutexSpec => []MutexTypeOK
<1>1. MutexIndInv => MutexTypeOK
  BY ZenonT(30) DEF MutexIndInv
<1> QED
  BY <1>1, MutexCorrect, PTL

\* uth_mutex_lock gives a mutex to one thread at a time, and the assert of
\* uth_mutex_unlock never fires.
THEOREM MutexExcludes == MutexSpec => []MutualExclusion
<1>1. MutexIndInv => MutualExclusion
  BY ZenonT(30) DEF MutexIndInv
<1> QED
  BY <1>1, MutexCorrect, PTL

\* A thread never sleeps on a mutex that nobody is going to hand over.
THEOREM MutexWakes == MutexSpec => []NoLostWakeup
<1>1. MutexIndInv => NoLostWakeup
  BY ZenonT(30) DEF MutexIndInv
<1> QED
  BY <1>1, MutexCorrect, PTL

\* No TCB is on two queues or on one queue twice, and queues and states agree.
THEOREM MutexQueues == MutexSpec => []QueueDiscipline
<1>1. MutexIndInv => QueueDiscipline
  BY ZenonT(30) DEF MutexIndInv, SchedInv
<1> QED
  BY <1>1, MutexCorrect, PTL

\* SIGALRM is blocked exactly in the sections that need it.
THEOREM MutexMasks == MutexSpec => []MaskDiscipline
<1>1. MutexIndInv => MaskDiscipline
  BY ZenonT(30) DEF MutexIndInv, SchedInv
<1> QED
  BY <1>1, MutexCorrect, PTL

-----------------------------------------------------------------------------
(* Condition variables.                                                    *)

\* The initial state satisfies the inductive invariant.
LEMMA CondInitInv == CondInit => CondIndInv
<1> SUFFICES ASSUME CondInit PROVE CondIndInv
  OBVIOUS
<1> USE SchedulerAssumption, MutexAssumption, CondAssumption
<1>1. MutexIndInv
  BY MutexInitInv, ZenonT(30) DEF CondInit
<1>2. /\ pc = "loop" /\ frames = [t \in Tids |-> <<>>] /\ ctx = [t \in Tids |-> NewContext]
      /\ cond_args = [t \in Tids |-> NoArgs]
  BY ZenonT(30) DEF CondInit, MutexInit, SchedInit
<1>3. CondTypeOK
  BY <1>1, <1>2, ZenonT(30) DEF CondTypeOK, MutexIndInv, NoArgs
<1>4. \A t \in Tids : Place(t) = "user" /\ frames[t] = <<>> /\ cond_args[t] = NoArgs
  BY <1>2, ZenonT(30) DEF Place, OnCpu, SchedLabels, NewContext
<1>5. \A t \in Tids : WaiterInv(t)
  BY <1>4, Len(<<>>) = 0 DEF WaiterInv, CondLabels
<1> QED
  BY <1>1, <1>2, <1>3, <1>5, ZenonT(30) DEF CondIndInv, CondInv

\* A step in the code of one thread does not disturb the others.
LEMMA WaitersKept ==
  ASSUME CondIndInv, pc \in Unmasked \cup Sections, pc' \notin SchedLabels,
         UNCHANGED <<uth_current, ctx>>,
         \A t \in Tids \ {uth_current} : frames'[t] = frames[t] /\ cond_args'[t] = cond_args[t]
  PROVE  /\ uth_current \in Tids /\ state[uth_current] = "RUNNING"
         /\ Place(uth_current) = pc /\ Place(uth_current)' = pc' /\ OnCpu'
         /\ WaiterInv(uth_current)
         /\ \A t \in Tids \ {uth_current} : WaiterInv(t)'
<1>1. SchedInv /\ \A t \in Tids : WaiterInv(t)
  BY ZenonT(30) DEF CondIndInv, MutexIndInv, CondInv
<1>2. /\ uth_current \in Tids /\ state[uth_current] = "RUNNING" /\ Place(uth_current) = pc
      /\ \A t \in Tids : Place(t)' = IF t = uth_current THEN pc' ELSE Place(t)
  BY <1>1, ThreadCode, ZenonT(30)
<1>3. OnCpu'
  BY ZenonT(30) DEF OnCpu
<1>4. ASSUME NEW t \in Tids \ {uth_current} PROVE WaiterInv(t)'
  <2>1. Place(t)' = Place(t) /\ frames'[t] = frames[t] /\ cond_args'[t] = cond_args[t]
    BY <1>2, ZenonT(30)
  <2>2. cond_args[t] # NoArgs => Place(t) \notin InnerUnlock
    BY <1>1, ZenonT(30) DEF WaiterInv
  <2> QED
    BY <1>1, <2>1, <2>2, ZenonT(30) DEF WaiterInv
<1> QED
  BY <1>1, <1>2, <1>3, <1>4, ZenonT(30)

\* The invariant from its parts.
LEMMA CondParts ==
  ASSUME MutexIndInv',
         cond_args' \in [Tids -> [cond : Conds \cup {"none"}, mutex : Mutexes \cup {"none"}]],
         \A t \in Tids : WaiterInv(t)',
         pc' = "cond_unlock" => cond_args'[uth_current'].mutex \in held'[uth_current'],
         pc' \in {"signal_wake", "broadcast_wake"} => obj'[uth_current'] \in Conds
  PROVE  CondIndInv'
BY ZenonT(30) DEF CondIndInv, CondTypeOK, CondInv, Args, Obj, MutexIndInv

\* The steps the processor takes by itself, and preemption.  When the inner
\* unlock ends, uth_preempt_restore leads back to cond_block.
LEMMA CondQuiet ==
  ASSUME CondIndInv, SchedNext \/ Preempt, UNCHANGED <<mutexVars, cond_args>>
  PROVE  CondIndInv'
<1> USE SchedulerAssumption, MutexAssumption, CondAssumption
<1>1. MutexIndInv /\ MutexIndInv' /\ SchedInv /\ \A t \in Tids : WaiterInv(t)
  BY MutexQuiet, ZenonT(30) DEF CondIndInv, MutexIndInv, CondInv
<1>2. /\ pc \in QuietFrom /\ pc' \in QuietTo /\ \A t \in Tids : Quiet(t)
  BY <1>1, QuietSteps, ZenonT(30)
<1>3. pc' \notin {"cond_unlock", "signal_wake", "broadcast_wake"}
  BY <1>2, SwapLemma, ZenonT(30) DEF QuietTo, SchedLabels, ReturnLabels, Unmasked
<1>4. ASSUME NEW t \in Tids PROVE WaiterInv(t)'
  <2>1. CASE pc = "leave" /\ t = uth_current
    <3>1. uth_preempt_restore
      BY <1>1, <2>1, SwapLemma, ZenonT(30) DEF SchedNext, Dispatch, LoadRegisters, Spin, SwapOut,
         uth_yield_push, Preempt, uth_preempt_handler, SchedInv, MaskDiscipline, OnCpu, SchedLabels,
         Unmasked
    <3>2. /\ frames'[t] = Tail(frames[t]) /\ Place(t)' = Head(frames[t]).ret
          /\ Place(t) = "leave" /\ Place(t)' \in ReturnLabels
      <4>1. /\ frames' = [frames EXCEPT ![uth_current] = Tail(@)]
            /\ pc' = Head(frames[uth_current]).ret /\ pc' \in ReturnLabels
            /\ UNCHANGED <<uth_current, ctx>>
        BY <1>1, <3>1, RestoreQuiet, ZenonT(30) DEF uth_preempt_restore, Return
      <4>2. pc \in Sections /\ pc' \notin SchedLabels
        BY <2>1, <4>1, ZenonT(30) DEF Sections, ReturnLabels, SchedLabels, Unmasked
      <4>3. Place(t) = pc /\ Place(t)' = pc'
        BY <1>1, <2>1, <4>1, <4>2, ThreadCode, ZenonT(30)
      <4> QED
        BY <1>1, <2>1, <4>1, <4>3, ZenonT(30) DEF SchedInv, SchedTypeOK
    <3>3. /\ frames[t] \in Seq([old : BOOLEAN, ret : ReturnLabels])
          /\ frames[t] # <<>>
      BY <1>1, <3>2, ZenonT(30) DEF SchedInv, SchedTypeOK, FrameInv, Preemptible, Unmasked
    <3>4. /\ Head(frames[t]) = frames[t][1] /\ Len(frames[t]) \in Nat /\ Len(frames[t]) >= 1
          /\ Len(Tail(frames[t])) = Len(frames[t]) - 1
          /\ \A i \in 1 .. Len(Tail(frames[t])) : Tail(frames[t])[i] = frames[t][i + 1]
      BY <3>3, TailLemma
    <3>5. \A i \in 1 .. Len(frames'[t]) : frames'[t][i].ret # "cond_block"
      <4> SUFFICES ASSUME NEW i \in 1 .. Len(Tail(frames[t])), frames[t][i + 1].ret = "cond_block"
                   PROVE  FALSE
        BY <3>2, <3>4, ZenonT(30)
      <4>1. i + 1 \in 1 .. Len(frames[t]) /\ i + 1 # 1
        BY <3>4
      <4> QED
        BY <1>1, <4>1, ZenonT(30) DEF WaiterInv
    <3>6. CASE cond_args[t] # NoArgs
      BY <1>1, <3>2, <3>4, <3>5, <3>6, ZenonT(30) DEF WaiterInv, CondLabels, InnerUnlock
    <3>7. CASE cond_args[t] = NoArgs
      <4>1. 1 \in 1 .. Len(frames[t])
        BY <3>4
      <4>2. Place(t)' # "cond_block"
        BY <1>1, <3>2, <3>4, <3>7, <4>1, ZenonT(30) DEF WaiterInv
      <4> QED
        BY <3>2, <3>5, <3>7, <4>2, ZenonT(30) DEF WaiterInv, ReturnLabels, CondLabels, Unmasked
    <3> QED
      BY <3>6, <3>7, ZenonT(30)
  <2>2. CASE ~(pc = "leave" /\ t = uth_current)
    <3>1. cond_args[t] # NoArgs => Place(t) \notin InnerUnlock
      <4> SUFFICES ASSUME cond_args[t] # NoArgs, Place(t) \in InnerUnlock PROVE FALSE
        OBVIOUS
      <4>1. t = uth_current /\ OnCpu /\ Place(t) = pc
        BY <1>1, ZenonT(30) DEF WaiterInv, Place
      <4> QED
        BY <1>2, <2>2, <4>1, SwapLemma, ZenonT(30) DEF QuietFrom, SchedLabels, Unmasked, InnerUnlock
    <3>2. /\ obj'[t] = obj[t] /\ frames'[t] = frames[t]
          /\ \/ Place(t)' = Place(t)
             \/ Place(t) \in DOMAIN SwapTo /\ Place(t)' = SwapTo[Place(t)]
             \/ Place(t) = "yield_push" /\ Place(t)' = "yield_swap"
             \/ Place(t) \in Preemptible /\ Place(t)' = "swapcontext"
      BY <1>2, <2>2, ZenonT(30) DEF Quiet
    <3>3. /\ Place(t)' \in CondLabels <=> Place(t) \in CondLabels
          /\ Place(t) \in CondLabels => Place(t)' \notin InnerUnlock
      BY <3>2, SwapLemma, ZenonT(30) DEF CondLabels, InnerUnlock, Preemptible, Unmasked
    <3>4. \A i \in 1 .. Len(frames[t]) : frames[t][i].ret # "cond_block"
      BY <1>1, <3>1, ZenonT(30) DEF WaiterInv
    <3> QED
      BY <1>1, <3>1, <3>2, <3>3, <3>4, ZenonT(30) DEF WaiterInv
  <2> QED
    BY <2>1, <2>2, ZenonT(30)
<1> QED
  BY <1>1, <1>3, <1>4, CondParts, ZenonT(30) DEF CondIndInv, CondTypeOK

\* The steps inside uth_mutex_lock and uth_mutex_unlock.
LEMMA CondMutexStep ==
  ASSUME CondIndInv, MutexStep, UNCHANGED cond_args
  PROVE  CondIndInv'
<1> DEFINE c == uth_current
<1>1. MutexIndInv'
  BY LockXchgInv, LockBlockInv, LockOwnInv, UnlockFreeInv, UnlockWakeInv, ZenonT(30) DEF MutexStep,
     CondIndInv
<1>2. /\ UNCHANGED <<uth_current, ctx, frames>>
      /\ \/ /\ pc \in {"lock_xchg", "lock_block", "lock_own"}
            /\ pc' \in {"lock_block", "lock_own", "lock_swap", "leave"}
         \/ /\ pc \in {"unlock_free", "unlock_wake"}
            /\ pc' \in {"unlock_wake", "leave"}
  BY ZenonT(30) DEF MutexStep, lock_xchg, lock_block, lock_own, unlock_free, unlock_wake, Goto,
     uth_block, uth_wake_one
<1>3. pc \in Sections /\ pc' \notin SchedLabels
  BY <1>2, ZenonT(30) DEF Sections, SchedLabels
<1>4. /\ c \in Tids /\ Place(c) = pc /\ Place(c)' = pc' /\ OnCpu' /\ WaiterInv(c)
      /\ \A t \in Tids \ {c} : WaiterInv(t)'
  BY <1>2, <1>3, WaitersKept, ZenonT(30)
<1>5. WaiterInv(c)'
  BY <1>2, <1>4, ZenonT(30) DEF WaiterInv, CondLabels, InnerUnlock
<1> QED
  BY <1>1, <1>2, <1>4, <1>5, CondParts, ZenonT(30) DEF CondIndInv, CondTypeOK

\* A call of the API from the code of a thread, other than uth_cond_wait.
LEMMA CondEntry ==
  ASSUME CondIndInv, NEW o, NEW l \in {"yield_push", "lock_xchg", "unlock_free",
                                       "signal_wake", "broadcast_wake"},
         Enter("user", o, "user", l), MutexIndInv', UNCHANGED <<mutexVars, cond_args>>,
         l \in {"signal_wake", "broadcast_wake"} => o \in Conds
  PROVE  CondIndInv'
<1> DEFINE c == uth_current
           q == frames[c]
           f == [old |-> masked, ret |-> "user"]
<1>1. /\ pc = "user" /\ pc' = l /\ frames' = [frames EXCEPT ![c] = <<f>> \o q]
      /\ obj' = [obj EXCEPT ![c] = o] /\ UNCHANGED <<uth_current, ctx>>
  BY ZenonT(30) DEF Enter, uth_preempt_off
<1>2. pc \in Unmasked /\ pc' \notin SchedLabels /\ SchedInv
  BY <1>1, ZenonT(30) DEF Unmasked, SchedLabels, CondIndInv, MutexIndInv
<1>3. \A t \in Tids \ {c} : frames'[t] = frames[t] /\ cond_args'[t] = cond_args[t]
  BY <1>1, <1>2, ZenonT(30) DEF SchedInv, SchedTypeOK
<1>4. /\ c \in Tids /\ Place(c) = pc /\ Place(c)' = pc' /\ OnCpu' /\ WaiterInv(c)
      /\ \A t \in Tids \ {c} : WaiterInv(t)'
  BY <1>1, <1>2, <1>3, WaitersKept, ZenonT(30)
<1>5. cond_args[c] = NoArgs /\ q = <<>>
  BY <1>1, <1>2, <1>4, ZenonT(30) DEF WaiterInv, CondLabels, InnerUnlock, SchedInv, FrameInv,
     Preemptible
<1>6. frames'[c] = <<f>> /\ Len(<<f>>) = 1 /\ <<f>>[1] = f
  <2> HIDE DEF f
  <2> QED
    BY <1>1, <1>2, <1>4, <1>5, <<f>> \o <<>> = <<f>>, ZenonT(30) DEF SchedInv, SchedTypeOK
<1>7. \A i \in 1 .. Len(frames'[c]) : frames'[c][i].ret # "cond_block"
  BY <1>6, SMTT(30)
<1>8. WaiterInv(c)'
  BY <1>1, <1>4, <1>5, <1>7, ZenonT(30) DEF WaiterInv, CondLabels
<1>9. obj'[c] = o
  BY <1>1, <1>2, <1>4, ZenonT(30) DEF SchedInv, SchedTypeOK
<1> QED
  BY <1>1, <1>4, <1>8, <1>9, CondParts, ZenonT(30) DEF CondIndInv, CondTypeOK

\* uth_cond_wait is called with a mutex that the caller holds.
LEMMA CondWaitInv ==
  ASSUME CondIndInv, NEW d \in Conds, NEW m \in held[uth_current], uth_cond_wait(d, m)
  PROVE  CondIndInv'
<1> USE SchedulerAssumption, MutexAssumption, CondAssumption
<1> DEFINE c == uth_current
           f == [old |-> masked, ret |-> "user"]
           a == [cond |-> d, mutex |-> m]
<1>1. /\ Enter("user", "none", "user", "cond_unlock") /\ pc = "user" /\ pc' = "cond_unlock"
      /\ frames' = [frames EXCEPT ![c] = <<f>> \o frames[c]]
      /\ cond_args' = [cond_args EXCEPT ![c] = a]
      /\ UNCHANGED <<uth_current, ctx, locked, owner, held>>
  BY ZenonT(30) DEF uth_cond_wait, Enter, uth_preempt_off, mutexVars
<1>2. pc \in Unmasked /\ pc' \notin SchedLabels /\ SchedInv /\ CondTypeOK /\ c \in Tids
  BY <1>1, ZenonT(30) DEF Unmasked, SchedLabels, CondIndInv, MutexIndInv, SchedInv, CpuInv
<1>3. m \in Mutexes /\ a # NoArgs /\ a \in [cond : Conds, mutex : Mutexes] /\ a.mutex = m
  BY <1>2, ZenonT(30) DEF CondIndInv, MutexIndInv, MutexTypeOK, NoArgs
<1> HIDE DEF a
<1>4. \A t \in Tids \ {c} : frames'[t] = frames[t] /\ cond_args'[t] = cond_args[t]
  BY <1>1, <1>2, ZenonT(30) DEF SchedInv, SchedTypeOK, CondTypeOK
<1>5. /\ c \in Tids /\ Place(c) = pc /\ Place(c)' = pc' /\ OnCpu' /\ WaiterInv(c)
      /\ \A t \in Tids \ {c} : WaiterInv(t)'
  BY <1>1, <1>2, <1>4, WaitersKept, ZenonT(30)
<1>6. frames[c] = <<>>
  BY <1>1, <1>2, <1>5, ZenonT(30) DEF SchedInv, FrameInv, Preemptible
<1>7. frames'[c] = <<f>> /\ Len(<<f>>) = 1 /\ <<f>>[1] = f
  <2> HIDE DEF f
  <2> QED
    BY <1>1, <1>2, <1>5, <1>6, <<f>> \o <<>> = <<f>>, ZenonT(30) DEF SchedInv, SchedTypeOK
<1>8. \A i \in 1 .. Len(frames'[c]) : frames'[c][i].ret # "cond_block"
  BY <1>7
<1>9. cond_args'[c] = a
  BY <1>1, <1>2, ZenonT(30) DEF CondTypeOK
<1>10. WaiterInv(c)'
  BY <1>1, <1>3, <1>5, <1>8, <1>9, ZenonT(30) DEF WaiterInv, CondLabels, InnerUnlock
<1>11. MutexIndInv'
  BY <1>1, MutexEntry, ZenonT(30) DEF CondIndInv, Unmasked, ReturnLabels, Sections, mutexVars
<1>12. cond_args' \in [Tids -> [cond : Conds \cup {"none"}, mutex : Mutexes \cup {"none"}]]
  BY <1>1, <1>2, <1>3, ZenonT(30) DEF CondTypeOK
<1> QED
  BY <1>1, <1>3, <1>5, <1>9, <1>10, <1>11, <1>12, CondParts, ZenonT(30)

\* The inner unlock is entered: its frame returns to cond_block.
LEMMA CondUnlockInv ==
  ASSUME CondIndInv, cond_unlock
  PROVE  CondIndInv'
<1> USE SchedulerAssumption, MutexAssumption, CondAssumption
<1> DEFINE c == uth_current
           q == frames[c]
           f == [old |-> masked, ret |-> "cond_block"]
           r == <<f>> \o q
           F == [old : BOOLEAN, ret : ReturnLabels]
<1>1. /\ Enter("cond_unlock", Args.mutex, "cond_block", "unlock_free")
      /\ pc = "cond_unlock" /\ pc' = "unlock_free" /\ frames' = [frames EXCEPT ![c] = r]
      /\ UNCHANGED <<uth_current, ctx, cond_args>> /\ UNCHANGED mutexVars
  BY ZenonT(30) DEF cond_unlock, uth_mutex_unlock, Enter, uth_preempt_off
<1>2. pc \in Sections /\ pc' \notin SchedLabels /\ SchedInv /\ c \in Tids
  BY <1>1, ZenonT(30) DEF Sections, SchedLabels, CondIndInv, MutexIndInv, SchedInv, CpuInv
<1>3. \A t \in Tids \ {c} : frames'[t] = frames[t] /\ cond_args'[t] = cond_args[t]
  BY <1>1, <1>2, ZenonT(30) DEF SchedInv, SchedTypeOK
<1>4. /\ Place(c) = pc /\ Place(c)' = pc' /\ OnCpu' /\ WaiterInv(c)
      /\ \A t \in Tids \ {c} : WaiterInv(t)'
  BY <1>1, <1>2, <1>3, WaitersKept, ZenonT(30)
<1>5. cond_args[c] # NoArgs /\ cond_args[c] \in [cond : Conds, mutex : Mutexes]
  BY <1>1, <1>4, ZenonT(30) DEF WaiterInv, CondLabels
<1>6. q \in Seq(F) /\ f \in F /\ f.ret = "cond_block" /\ frames'[c] = r
  BY <1>1, <1>2, ZenonT(30) DEF SchedInv, SchedTypeOK, ReturnLabels
<1>7. /\ Len(q) \in Nat /\ Len(r) = Len(q) + 1 /\ r[1] = f
      /\ \A i \in 2 .. Len(q) + 1 : r[i] = q[i - 1]
  <2> HIDE DEF q, f, F
  <2> QED
    BY <1>6, FrameLemma
<1>8. \A i \in 1 .. Len(q) : q[i].ret # "cond_block"
  BY <1>1, <1>4, ZenonT(30) DEF WaiterInv, InnerUnlock
<1>9. \A i \in 1 .. Len(r) : r[i].ret = "cond_block" => i = 1
  <2> SUFFICES ASSUME NEW i \in 1 .. Len(r), i # 1 PROVE r[i].ret # "cond_block"
    OBVIOUS
  <2>1. i - 1 \in 1 .. Len(q) /\ r[i] = q[i - 1]
    <3> HIDE DEF q, r
    <3> QED BY <1>7
  <2> QED
    BY <2>1, <1>8, ZenonT(30)
<1> HIDE DEF r, f
<1>10. WaiterInv(c)'
  BY <1>1, <1>4, <1>5, <1>6, <1>7, <1>9, SMTT(30) DEF WaiterInv, CondLabels, InnerUnlock
<1>11. Args.mutex \in Mutexes /\ Args.mutex \in held[c]
  BY <1>1, <1>5, ZenonT(30) DEF CondIndInv, CondInv, Args
<1>12. MutexIndInv'
  <2>1. /\ "cond_block" \in ReturnLabels /\ "cond_block" \notin Unmasked
        /\ "cond_unlock" \notin Unmasked
        /\ "unlock_free" \in Sections \ {"lock_block", "lock_own", "unlock_wake"}
    BY ZenonT(30) DEF ReturnLabels, Unmasked, Sections
  <2> QED
    BY <1>1, <1>11, <2>1, MutexEntry, ZenonT(30) DEF CondIndInv
<1> QED
  BY <1>1, <1>4, <1>10, <1>12, CondParts, ZenonT(30) DEF CondIndInv, CondTypeOK

\* The waiter goes to sleep on the queue of the condition variable.
LEMMA CondBlockInv ==
  ASSUME CondIndInv, cond_block
  PROVE  CondIndInv'
<1> USE SchedulerAssumption, MutexAssumption, CondAssumption
<1> DEFINE c == uth_current
           d == Args.cond
<1>1. /\ uth_block(d, "cond_swap") /\ pc = "cond_block" /\ pc' = "cond_swap"
      /\ state' = [state EXCEPT ![c] = "BLOCKED"] /\ obj' = [obj EXCEPT ![c] = d]
      /\ waiters' = [waiters EXCEPT ![d] = Append(@, c)]
      /\ UNCHANGED <<uth_current, ctx, frames, cond_args>> /\ UNCHANGED mutexVars
  BY ZenonT(30) DEF cond_block, uth_block
<1>2. pc \in Sections /\ pc' \notin SchedLabels /\ SchedInv /\ SchedTypeOK /\ c \in Tids
  BY <1>1, ZenonT(30) DEF Sections, SchedLabels, CondIndInv, MutexIndInv, SchedInv, CpuInv
<1>3. /\ Place(c) = pc /\ Place(c)' = pc' /\ OnCpu' /\ WaiterInv(c)
      /\ \A t \in Tids \ {c} : WaiterInv(t)'
  BY <1>1, <1>2, WaitersKept, ZenonT(30)
<1>4. cond_args[c] # NoArgs /\ cond_args[c] \in [cond : Conds, mutex : Mutexes]
  BY <1>1, <1>3, ZenonT(30) DEF WaiterInv, CondLabels
<1>5. WaiterInv(c)'
  BY <1>1, <1>3, <1>4, ZenonT(30) DEF WaiterInv, CondLabels, InnerUnlock
<1>6. d \in Objs \ Mutexes
  BY <1>4, ZenonT(30) DEF Args
<1> HIDE DEF d
<1>7. SchedInv'
  BY <1>1, <1>2, <1>6, SwapLemma, BlockStep, ZenonT(30)
<1>8. /\ \A t \in Tids : state'[t] = IF t = c THEN "BLOCKED" ELSE state[t]
      /\ \A t \in Tids : obj'[t] = IF t = c THEN d ELSE obj[t]
      /\ \A m \in Mutexes : waiters'[m] = waiters[m]
      /\ \A t \in Tids : Place(t)' = IF t = c THEN pc' ELSE Place(t)
  BY <1>1, <1>2, <1>6, ThreadCode, ZenonT(30) DEF SchedTypeOK
<1>9. MutexIndInv'
  <2>1. \A t \in Tids : Place(t)' \in MutexLabels => obj'[t] \in Mutexes
    BY <1>1, <1>8, ZenonT(30) DEF CondIndInv, MutexIndInv, MutexInv, MutexLabels
  <2>2. \A t \in Tids : state'[t] = "BLOCKED" /\ obj'[t] \in Mutexes =>
          Place(t)' \in {"lock_swap", "lock_xchg"}
    BY <1>6, <1>8, SMTT(30) DEF CondIndInv, MutexIndInv, MutexInv
  <2>3. \A t \in Tids : \A m \in Mutexes : Trying(t, m) => Trying(t, m)'
    BY <1>1, <1>3, <1>8, ZenonT(30) DEF Trying
  <2> QED
    BY <1>1, <1>7, <1>8, <2>1, <2>2, <2>3, OtherStep, ZenonT(30) DEF CondIndInv
<1> QED
  BY <1>1, <1>3, <1>5, <1>9, CondParts, ZenonT(30) DEF CondIndInv, CondTypeOK

\* The woken waiter locks the mutex again.
LEMMA CondRelockInv ==
  ASSUME CondIndInv, cond_relock
  PROVE  CondIndInv'
<1> USE SchedulerAssumption, MutexAssumption, CondAssumption
<1> DEFINE c == uth_current
           q == frames[c]
           f == [old |-> masked, ret |-> "leave"]
           r == <<f>> \o q
           F == [old : BOOLEAN, ret : ReturnLabels]
<1>1. /\ Enter("cond_relock", Args.mutex, "leave", "lock_xchg")
      /\ pc = "cond_relock" /\ pc' = "lock_xchg" /\ frames' = [frames EXCEPT ![c] = r]
      /\ cond_args' = [cond_args EXCEPT ![c] = NoArgs]
      /\ UNCHANGED <<uth_current, ctx>> /\ UNCHANGED mutexVars
  BY ZenonT(30) DEF cond_relock, uth_mutex_lock, Enter, uth_preempt_off
<1>2. pc \in Sections /\ pc' \notin SchedLabels /\ SchedInv /\ CondTypeOK /\ c \in Tids
  BY <1>1, ZenonT(30) DEF Sections, SchedLabels, CondIndInv, MutexIndInv, SchedInv, CpuInv
<1>3. \A t \in Tids \ {c} : frames'[t] = frames[t] /\ cond_args'[t] = cond_args[t]
  BY <1>1, <1>2, ZenonT(30) DEF SchedInv, SchedTypeOK, CondTypeOK
<1>4. /\ Place(c) = pc /\ Place(c)' = pc' /\ OnCpu' /\ WaiterInv(c)
      /\ \A t \in Tids \ {c} : WaiterInv(t)'
  BY <1>1, <1>2, <1>3, WaitersKept, ZenonT(30)
<1>5. cond_args[c] # NoArgs /\ cond_args[c] \in [cond : Conds, mutex : Mutexes]
  BY <1>1, <1>4, ZenonT(30) DEF WaiterInv, CondLabels
<1>6. q \in Seq(F) /\ f \in F /\ f.ret = "leave" /\ frames'[c] = r /\ cond_args'[c] = NoArgs
  BY <1>1, <1>2, ZenonT(30) DEF SchedInv, SchedTypeOK, ReturnLabels, CondTypeOK
<1>7. /\ Len(q) \in Nat /\ Len(r) = Len(q) + 1 /\ r[1] = f
      /\ \A i \in 2 .. Len(q) + 1 : r[i] = q[i - 1]
  <2> HIDE DEF q, f, F
  <2> QED
    BY <1>6, FrameLemma
<1>8. \A i \in 1 .. Len(q) : q[i].ret # "cond_block"
  BY <1>1, <1>4, ZenonT(30) DEF WaiterInv, InnerUnlock
<1>9. \A i \in 1 .. Len(r) : r[i].ret # "cond_block"
  <2> TAKE i \in 1 .. Len(r)
  <2>1. CASE i = 1
    BY <2>1, <1>6, <1>7, ZenonT(30)
  <2>2. CASE i # 1
    <3>1. i - 1 \in 1 .. Len(q) /\ r[i] = q[i - 1]
      <4> HIDE DEF q, r
      <4> QED BY <2>2, <1>7, SMTT(30)
    <3> QED
      BY <3>1, <1>8, ZenonT(30)
  <2> QED
    BY <2>1, <2>2, ZenonT(30)
<1> HIDE DEF r, f
<1>10. WaiterInv(c)'
  BY <1>1, <1>4, <1>6, <1>9, SMTT(30) DEF WaiterInv, CondLabels
<1>11. Args.mutex \in Mutexes
  BY <1>5, ZenonT(30) DEF Args
<1>12. MutexIndInv'
  <2>1. /\ "leave" \in ReturnLabels /\ "leave" \notin Unmasked
        /\ "cond_relock" \notin Unmasked
        /\ "lock_xchg" \in Sections \ {"lock_block", "lock_own", "unlock_wake"}
    BY ZenonT(30) DEF ReturnLabels, Unmasked, Sections
  <2> QED
    BY <1>1, <1>11, <2>1, MutexEntry, ZenonT(30) DEF CondIndInv
<1>13. cond_args' \in [Tids -> [cond : Conds \cup {"none"}, mutex : Mutexes \cup {"none"}]]
  BY <1>1, <1>2, ZenonT(30) DEF CondTypeOK, NoArgs
<1> QED
  BY <1>1, <1>4, <1>10, <1>12, <1>13, CondParts, ZenonT(30)

\* uth_cond_signal, and a round of uth_cond_broadcast, wake threads that sleep
\* on a condition variable; nothing changes for the mutexes.
LEMMA CondWakeInv ==
  ASSUME CondIndInv, pc \in {"signal_wake", "broadcast_wake"},
         NEW l \in {"leave", "broadcast_wake"}, l = "broadcast_wake" => pc = "broadcast_wake",
         uth_wake_one(Obj, l), UNCHANGED <<mutexVars, cond_args>>
  PROVE  CondIndInv'
<1> USE SchedulerAssumption, MutexAssumption, CondAssumption
<1> DEFINE c == uth_current
           d == obj[c]
<1>1. /\ pc' = l /\ uth_wake_one(d, l) /\ UNCHANGED <<uth_current, ctx, frames, obj>>
  BY ZenonT(30) DEF uth_wake_one, Goto, Obj
<1>2. pc \in Sections /\ l \in Sections /\ pc' \notin SchedLabels /\ SchedInv /\ d \in Conds
  BY <1>1, ZenonT(30) DEF Sections, SchedLabels, CondIndInv, MutexIndInv, CondInv, Obj
<1>3. /\ c \in Tids /\ Place(c) = pc /\ Place(c)' = pc' /\ OnCpu' /\ WaiterInv(c)
      /\ \A t \in Tids \ {c} : WaiterInv(t)'
  BY <1>1, <1>2, WaitersKept, ZenonT(30)
<1>4. \A t \in Tids : Place(t)' = IF t = c THEN pc' ELSE Place(t)
  BY <1>1, <1>2, ThreadCode, ZenonT(30)
<1>5. cond_args[c] = NoArgs
  BY <1>3, ZenonT(30) DEF WaiterInv, CondLabels, InnerUnlock
<1>6. WaiterInv(c)'
  BY <1>1, <1>3, <1>5, ZenonT(30) DEF WaiterInv, CondLabels, InnerUnlock
<1>7. SchedInv'
  BY <1>1, <1>2, WakeStep, ZenonT(30)
<1> HIDE DEF d
<1>8. /\ \A t \in Tids : state'[t] = state[t] \/ state'[t] = "READY"
      /\ \A m \in Mutexes : waiters'[m] = waiters[m]
  BY <1>1, <1>2, SMTT(30) DEF uth_wake_one, Goto, uth_enqueue, SchedInv, SchedTypeOK
<1>9. MutexIndInv'
  <2>1. \A t \in Tids : Place(t)' \in MutexLabels => obj'[t] \in Mutexes
    BY <1>1, <1>4, ZenonT(30) DEF CondIndInv, MutexIndInv, MutexInv, MutexLabels
  <2>2. \A t \in Tids : state'[t] = "BLOCKED" /\ obj'[t] \in Mutexes =>
          Place(t)' \in {"lock_swap", "lock_xchg"}
    BY <1>1, <1>3, <1>4, <1>8, ZenonT(30) DEF CondIndInv, MutexIndInv, MutexInv
  <2>3. \A t \in Tids : \A m \in Mutexes : Trying(t, m) => Trying(t, m)'
    BY <1>1, <1>3, <1>4, <1>8, ZenonT(30) DEF Trying
  <2> QED
    BY <1>1, <1>7, <1>8, <2>1, <2>2, <2>3, OtherStep, ZenonT(30) DEF CondIndInv
<1> QED
  BY <1>1, <1>2, <1>3, <1>6, <1>9, CondParts, ZenonT(30) DEF CondIndInv, CondTypeOK, d

\* A step of a client.
LEMMA CondClientInv ==
  ASSUME CondIndInv, CondClient
  PROVE  CondIndInv'
<1> USE SchedulerAssumption, MutexAssumption, CondAssumption
<1>1. CASE MutexClient /\ UNCHANGED cond_args
  <2>1. MutexIndInv'
    BY <1>1, ClientInv, ZenonT(30) DEF CondIndInv
  <2>2. \E o : \E l \in {"yield_push", "lock_xchg", "unlock_free"} :
          Enter("user", o, "user", l) /\ UNCHANGED mutexVars
    BY <1>1, ZenonT(30) DEF MutexClient, uth_mutex_lock, uth_mutex_unlock, uth_yield
  <2> QED
    BY <1>1, <2>1, <2>2, CondEntry, ZenonT(30)
<1>2. ASSUME NEW d \in Conds, NEW m \in held[uth_current], uth_cond_wait(d, m)
      PROVE  CondIndInv'
  BY <1>2, CondWaitInv, ZenonT(30)
<1>3. ASSUME NEW d \in Conds, uth_cond_signal(d) \/ uth_cond_broadcast(d)
      PROVE  CondIndInv'
  <2>1. PICK l \in {"signal_wake", "broadcast_wake"} :
          Enter("user", d, "user", l) /\ UNCHANGED mutexVars /\ UNCHANGED cond_args
    BY <1>3, ZenonT(30) DEF uth_cond_signal, uth_cond_broadcast
  <2>2. MutexIndInv'
    BY <2>1, MutexEntry, ZenonT(30) DEF CondIndInv, Unmasked, ReturnLabels, Sections
  <2> QED
    BY <2>1, <2>2, CondEntry, ZenonT(30)
<1> QED
  BY <1>1, <1>2, <1>3, ZenonT(30) DEF CondClient

\* Every step of the program preserves the inductive invariant.
LEMMA CondNextInv == CondIndInv /\ [CondNext]_condSysVars => CondIndInv'
<1> SUFFICES ASSUME CondIndInv, [CondNext]_condSysVars PROVE CondIndInv'
  OBVIOUS
<1>1. CASE (SchedNext \/ Preempt) /\ UNCHANGED <<mutexVars, cond_args>>
  BY <1>1, CondQuiet, ZenonT(30)
<1>2. CASE MutexStep /\ UNCHANGED cond_args
  BY <1>2, CondMutexStep, ZenonT(30)
<1>3. CASE signal_wake \/ uth_wake_all
  <2>1. \E l \in {"leave", "broadcast_wake"} :
          /\ pc \in {"signal_wake", "broadcast_wake"}
          /\ l = "broadcast_wake" => pc = "broadcast_wake"
          /\ uth_wake_one(Obj, l) /\ UNCHANGED <<mutexVars, cond_args>>
    BY <1>3, ZenonT(30) DEF signal_wake, uth_wake_all
  <2> QED
    BY <2>1, CondWakeInv, ZenonT(30)
<1>4. CASE CondStep
  BY <1>3, <1>4, CondUnlockInv, CondBlockInv, CondRelockInv, ZenonT(30) DEF CondStep
<1>5. CASE CondClient
  BY <1>5, CondClientInv, ZenonT(30)
<1>6. CASE UNCHANGED condSysVars
  <2>1. UNCHANGED schedVars /\ UNCHANGED mutexVars /\ UNCHANGED cond_args
    BY <1>6, ZenonT(30) DEF condSysVars
  <2>2. MutexIndInv'
    BY <2>1, MutexNextInv, ZenonT(30) DEF CondIndInv, mutexSysVars
  <2>3. \A t \in Tids : WaiterInv(t)'
    BY <2>1, ZenonT(30) DEF schedVars, CondIndInv, CondInv, WaiterInv, Place, OnCpu
  <2> QED
    BY <2>1, <2>2, <2>3, CondParts, ZenonT(30) DEF schedVars, mutexVars, CondIndInv, CondTypeOK,
       CondInv, Args, Obj
<1> QED
  BY <1>1, <1>2, <1>4, <1>5, <1>6, ZenonT(30) DEF CondNext, CondCpuStep

-----------------------------------------------------------------------------
\* CondIndInv holds in every reachable state of a program that uses mutexes
\* and condition variables.
THEOREM CondCorrect == CondSpec => []CondIndInv
BY CondInitInv, CondNextInv, PTL DEF CondSpec

\* No other thread runs between the unlock in uth_cond_wait and the moment
\* the caller is on the wait queue.
THEOREM CondWaitAtomic == CondSpec => []WaitIsAtomic
<1>1. ASSUME CondIndInv PROVE WaitIsAtomic
  <2> SUFFICES ASSUME NEW t \in Tids, Exposed(t) PROVE uth_current = t /\ OnCpu
    BY ZenonT(30) DEF WaitIsAtomic
  <2>1. WaiterInv(t) /\ ctx[t].pc \in Resumable
    BY <1>1, ZenonT(30) DEF CondIndInv, CondInv, MutexIndInv, SchedInv, SchedTypeOK
  <2>2. CASE Place(t) \in InnerUnlock
    BY <2>1, <2>2, ZenonT(30) DEF WaiterInv, Exposed
  <2>3. CASE Place(t) = "cond_block"
    BY <2>1, <2>3, SwapLemma, ZenonT(30) DEF Place
  <2> QED
    BY <2>2, <2>3, ZenonT(30) DEF Exposed, InnerUnlock
<1> QED
  BY <1>1, CondCorrect, PTL

\* The mutex keeps its promises when uth_cond_wait unlocks and locks it.
THEOREM CondKeepsMutex == CondSpec => [](MutualExclusion /\ NoLostWakeup)
<1>1. CondIndInv => MutualExclusion /\ NoLostWakeup
  BY ZenonT(30) DEF CondIndInv, MutexIndInv
<1> QED
  BY <1>1, CondCorrect, PTL

\* The nested calls keep SIGALRM masked until the outermost one returns.
THEOREM CondMasks == CondSpec => []MaskDiscipline
<1>1. CondIndInv => MaskDiscipline
  BY ZenonT(30) DEF CondIndInv, MutexIndInv, SchedInv
<1> QED
  BY <1>1, CondCorrect, PTL

\* The steps of the mutex that change its owner are steps of the abstract lock
\* also when uth_cond_wait makes them.
THEOREM CondRefines == CondSpec => ImplementsLock
<1>1. CondInit => MutexLock!Init
  BY ZenonT(30) DEF CondInit, MutexInit, uth_mutex_init, MutexLock!Init
<1>2. CondIndInv /\ [CondNext]_condSysVars => [MutexLock!Next]_owner
  <2> SUFFICES ASSUME CondIndInv, [CondNext]_condSysVars, owner' # owner PROVE MutexLock!Next
    BY ZenonT(30)
  <2>1. MutexStep
    BY ZenonT(30) DEF CondNext, CondCpuStep, CondStep, CondClient, MutexClient, condSysVars,
       mutexVars, cond_unlock, cond_block, cond_relock, signal_wake, uth_wake_all, uth_mutex_lock,
       uth_mutex_unlock, uth_cond_wait, uth_cond_signal, uth_cond_broadcast
  <2> QED
    BY <2>1, MutexLockStep, ZenonT(30) DEF CondIndInv, MutexNext, MutexCpuStep
<1> QED
  BY <1>1, <1>2, CondCorrect, PTL DEF CondSpec, ImplementsLock, MutexLock!Spec

-----------------------------------------------------------------------------
(* Programs that use mutexes.                                              *)

\* The steps of driver(), main(), the functions of thread.c and the scheduler
\* are not about mutexes.
LEMMA ProgramMutex ==
  ASSUME MutexIndInv, SchedInv', ProgramFrame, UNCHANGED mutexVars
  PROVE  MutexIndInv'
<1>1. /\ pc \notin {"lock_own", "unlock_wake"}
      /\ pc' \notin {"lock_block", "lock_swap", "lock_own", "unlock_free"}
  BY SwapLemma, ZenonT(30) DEF ProgramFrame, QuietFrom, QuietTo, ThreadLabels, CallLabels,
     JoinLabels, ExitLabels, SchedLabels, Preemptible, Unmasked, ReturnLabels
<1>2. ASSUME NEW t \in Tids
      PROVE  \/ /\ obj'[t] = obj[t]
                /\ Place(t)' = Place(t) \/ (Place(t) = "lock_swap" /\ Place(t)' = "lock_xchg")
                /\ state'[t] = state[t] \/ {state[t], state'[t]} \subseteq {"READY", "RUNNING"}
             \/ /\ Place(t) \notin MutexLabels /\ Place(t)' \notin MutexLabels
                /\ obj'[t] = obj[t] \/ obj'[t] = "none"
                /\ \/ state'[t] = state[t] \/ {state[t], state'[t]} \subseteq {"READY", "RUNNING"}
                   \/ state'[t] = "BLOCKED" => obj'[t] = "none"
  <2>1. CASE Quiet(t)
    BY <2>1, SwapLemma, ZenonT(30) DEF Quiet, MutexLabels, Preemptible, Unmasked, ReturnLabels
  <2>2. CASE Apart(t)
    BY <2>2, ZenonT(30) DEF Apart, MutexLabels, ThreadLabels, CallLabels, JoinLabels, ExitLabels,
       Preemptible, Unmasked
  <2> QED
    BY <2>1, <2>2, ZenonT(30) DEF ProgramFrame
<1>3. "none" \notin Mutexes
  BY SchedulerAssumption, MutexAssumption, ZenonT(30)
<1>4. \A t \in Tids : Place(t)' \in MutexLabels => obj'[t] \in Mutexes
  BY <1>2, ZenonT(30) DEF MutexIndInv, MutexInv, MutexLabels
<1>5. \A t \in Tids : state'[t] = "BLOCKED" /\ obj'[t] \in Mutexes => Place(t)' \in {"lock_swap", "lock_xchg"}
  BY <1>2, <1>3, ZenonT(30) DEF MutexIndInv, MutexInv, MutexLabels
<1>6. \A t \in Tids : \A m \in Mutexes : Trying(t, m) => Trying(t, m)'
  BY <1>2, ZenonT(30) DEF Trying, MutexLabels
<1>7. \A m \in Mutexes : waiters'[m] = waiters[m]
  BY ZenonT(30) DEF ProgramFrame
<1> QED
  BY <1>1, <1>4, <1>5, <1>6, <1>7, OtherStep, ZenonT(30)

\* The running thread goes to label l and the others stay where they are; only
\* the running thread may fall asleep.
MovesTo(l) ==
  /\ uth_current \in Tids /\ state[uth_current] = "RUNNING"
  /\ uth_current' = uth_current /\ Place(uth_current) = pc /\ Place(uth_current)' = l
  /\ \A t \in Tids \ {uth_current} :
       Place(t)' = Place(t) /\ obj'[t] = obj[t] /\ (state'[t] = "BLOCKED" => state[t] = "BLOCKED")

\* A step inside a call on a mutex, a condition variable or a semaphore.
LEMMA SyncMoves ==
  ASSUME ThreadIndInv, ProgramTypeOK, ProgramInv, UNCHANGED <<threadVars, programVars>>, SchedInv',
         pc \in Sections, NEW l, pc' = l, l \notin SchedLabels \cup CallLabels \cup ExitLabels,
         UNCHANGED <<uth_current, ctx, frames>>,
         \A t \in Tids \ {uth_current} :
           /\ obj'[t] = obj[t]
           /\ \/ state'[t] = state[t]
              \/ state[t] = "BLOCKED" /\ state'[t] = "READY" /\ obj[t] # "none",
         \/ state'[uth_current] = "RUNNING"
         \/ state'[uth_current] = "BLOCKED" /\ obj'[uth_current] # "none"
  PROVE  ThreadIndInv' /\ ProgramTypeOK' /\ ProgramInv' /\ MovesTo(l)
<1>1. /\ uth_current \in Tids /\ state[uth_current] = "RUNNING" /\ Place(uth_current) = pc
      /\ \A t \in Tids : Place(t)' = IF t = uth_current THEN pc' ELSE Place(t)
  BY ThreadCode, ZenonT(30) DEF ThreadIndInv
<1>2. ThreadIndInv'
  BY SyncStep, ZenonT(30) DEF CallLabels
<1>3. ProgramTypeOK' /\ ProgramInv'
  <2>1. \A t \in Tids : state'[t] = "NONE" => state[t] = "NONE"
    BY <1>1, ZenonT(30)
  <2> QED
    BY <1>1, <2>1, SyncProgram, ZenonT(30)
<1>4. MovesTo(l)
  BY <1>1, ZenonT(30) DEF MovesTo
<1> QED
  BY <1>2, <1>3, <1>4, ZenonT(30)

\* The running thread goes on.
LEMMA GotoMoves ==
  ASSUME ThreadIndInv, ProgramTypeOK, ProgramInv, UNCHANGED <<threadVars, programVars>>,
         pc \in Sections, NEW l \in Sections \ (CallLabels \cup ExitLabels), Goto(l)
  PROVE  ThreadIndInv' /\ ProgramTypeOK' /\ ProgramInv' /\ MovesTo(l)
<1>1. SchedInv' /\ SchedInv /\ l \notin SchedLabels
  BY SectionStep, ZenonT(30) DEF ThreadIndInv, Sections, SchedLabels
<1>2. pc' = l /\ UNCHANGED <<uth_current, ctx, frames, state, obj>>
  BY ZenonT(30) DEF Goto
<1>3. state[uth_current] = "RUNNING"
  BY <1>1, ThreadCode, ZenonT(30)
<1> QED
  BY <1>1, <1>2, <1>3, SyncMoves, ZenonT(30)

\* uth_cond_wait calls uth_mutex_unlock and uth_mutex_lock.
LEMMA NestedCall ==
  ASSUME ThreadIndInv, ProgramTypeOK, ProgramInv, UNCHANGED <<threadVars, programVars>>,
         NEW from \in {"cond_unlock", "cond_relock"}, NEW o \in Objs, NEW ret \in {"cond_block", "leave"},
         NEW l \in {"lock_xchg", "unlock_free"}, Enter(from, o, ret, l)
  PROVE  /\ ThreadIndInv' /\ ProgramTypeOK' /\ ProgramInv' /\ MovesTo(l)
         /\ obj'[uth_current] = o /\ UNCHANGED <<state, waiters>>
<1>1. /\ from \in Sections /\ from \notin Unmasked /\ ret \in ReturnLabels /\ ret \notin Unmasked /\ l \in Sections
      /\ l \notin SchedLabels \cup CallLabels \cup ExitLabels
  BY ZenonT(30) DEF Sections, Unmasked, ReturnLabels, SchedLabels, CallLabels, JoinLabels,
     ExitLabels
<1>2. SchedInv /\ SchedInv'
  BY <1>1, EnterStep, ZenonT(30) DEF ThreadIndInv
<1>3. /\ pc = from /\ pc' = l /\ obj' = [obj EXCEPT ![uth_current] = o]
      /\ \E f : frames' = [frames EXCEPT ![uth_current] = f]
      /\ UNCHANGED <<uth_current, state, ctx, waiters>>
  BY ZenonT(30) DEF Enter, uth_preempt_off
<1>4. /\ uth_current \in Tids /\ state[uth_current] = "RUNNING" /\ Place(uth_current) = pc
      /\ \A t \in Tids : Place(t)' = IF t = uth_current THEN pc' ELSE Place(t)
  BY <1>1, <1>2, <1>3, ThreadCode, ZenonT(30)
<1>5. /\ obj'[uth_current] = o
      /\ \A t \in Tids \ {uth_current} : frames'[t] = frames[t] /\ obj'[t] = obj[t]
  BY <1>2, <1>3, <1>4, ZenonT(30) DEF SchedInv, SchedTypeOK
<1>6. ThreadIndInv'
  BY <1>1, <1>2, <1>3, <1>4, <1>5, SyncStep, ZenonT(30) DEF CallLabels
<1>7. ProgramTypeOK' /\ ProgramInv'
  BY <1>1, <1>3, <1>4, SyncProgram, ZenonT(30)
<1>8. MovesTo(l)
  BY <1>3, <1>4, <1>5, ZenonT(30) DEF MovesTo
<1> QED
  BY <1>3, <1>5, <1>6, <1>7, <1>8, ZenonT(30)

\* The running thread goes to sleep on object o.
LEMMA BlockMoves ==
  ASSUME ThreadIndInv, ProgramTypeOK, ProgramInv, UNCHANGED <<threadVars, programVars>>,
         pc \in Sections, NEW o \in Objs, NEW l \in {"lock_swap", "sem_swap", "cond_swap"}, uth_block(o, l)
  PROVE  /\ ThreadIndInv' /\ ProgramTypeOK' /\ ProgramInv' /\ MovesTo(l)
         /\ obj'[uth_current] = o /\ state'[uth_current] = "BLOCKED"
         /\ \A p \in Objs \ {o} : waiters'[p] = waiters[p]
<1>1. SchedInv /\ SchedInv'
  BY BlockStep, SwapLemma, ZenonT(30) DEF ThreadIndInv
<1>2. /\ pc' = l /\ UNCHANGED <<uth_current, ctx, frames>>
      /\ state' = [state EXCEPT ![uth_current] = "BLOCKED"] /\ obj' = [obj EXCEPT ![uth_current] = o]
      /\ waiters' = [waiters EXCEPT ![o] = Append(@, uth_current)]
  BY ZenonT(30) DEF uth_block
<1>3. uth_current \in Tids /\ o # "none" /\ l \notin SchedLabels \cup CallLabels \cup ExitLabels
  BY <1>1, ThreadCode, SchedulerAssumption, ZenonT(30) DEF SchedLabels, CallLabels, JoinLabels,
     ExitLabels
<1>4. /\ obj'[uth_current] = o /\ state'[uth_current] = "BLOCKED"
      /\ \A t \in Tids \ {uth_current} : obj'[t] = obj[t] /\ state'[t] = state[t]
      /\ \A p \in Objs \ {o} : waiters'[p] = waiters[p]
  BY <1>1, <1>2, <1>3, ZenonT(30) DEF SchedInv, SchedTypeOK
<1> QED
  BY <1>1, <1>2, <1>3, <1>4, SyncMoves, ZenonT(30)

\* The running thread wakes the first thread that sleeps on object o.
LEMMA WakeMoves ==
  ASSUME ThreadIndInv, ProgramTypeOK, ProgramInv, UNCHANGED <<threadVars, programVars>>,
         pc \in Sections, NEW o \in Objs, NEW l \in Sections \ (CallLabels \cup ExitLabels),
         uth_wake_one(o, l)
  PROVE  /\ ThreadIndInv' /\ ProgramTypeOK' /\ ProgramInv' /\ MovesTo(l)
         /\ obj' = obj /\ state'[uth_current] = "RUNNING"
         /\ \A p \in Objs \ {o} : waiters'[p] = waiters[p]
         /\ waiters[o] = <<>> => UNCHANGED <<state, waiters>>
         /\ waiters[o] # <<>> => \E h \in Tids : /\ h # uth_current /\ obj[h] = o
                                                 /\ state[h] = "BLOCKED" /\ state'[h] = "READY"
<1>1. SchedInv /\ SchedInv' /\ l \notin SchedLabels
  BY WakeStep, ZenonT(30) DEF ThreadIndInv, Sections, SchedLabels
<1>2. pc' = l /\ UNCHANGED <<uth_current, ctx, frames, obj>>
  BY ZenonT(30) DEF uth_wake_one, Goto
<1>3. uth_current \in Tids /\ state[uth_current] = "RUNNING"
  BY <1>1, ThreadCode, ZenonT(30)
<1>4. CASE waiters[o] = <<>>
  <2>1. UNCHANGED <<state, waiters>>
    BY <1>4, ZenonT(30) DEF uth_wake_one, Goto
  <2> QED
    BY <1>1, <1>2, <1>3, <1>4, <2>1, SyncMoves, ZenonT(30)
<1>5. CASE waiters[o] # <<>>
  <2> DEFINE h == Head(waiters[o])
  <2>1. state' = [state EXCEPT ![h] = "READY"] /\ waiters' = [waiters EXCEPT ![o] = Tail(@)]
    BY <1>5, ZenonT(30) DEF uth_wake_one, uth_enqueue, Goto
  <2>2. waiters[o] \in Seq(Tids) /\ IsInjective(waiters[o])
    BY <1>1 DEF SchedInv, SchedTypeOK, QueueDiscipline
  <2>3. h \in Tids /\ h \in Range(waiters[o])
    BY <1>5, <2>2, PopLemma, ZenonT(30)
  <2>4. state[h] = "BLOCKED" /\ obj[h] = o /\ o # "none"
    BY <1>1, <2>3, SchedulerAssumption, SMTT(30) DEF SchedInv, QueueDiscipline
  <2> HIDE DEF h
  <2>5. /\ h # uth_current /\ state'[h] = "READY" /\ state'[uth_current] = "RUNNING"
        /\ \A t \in Tids \ {h} : state'[t] = state[t]
        /\ \A p \in Objs \ {o} : waiters'[p] = waiters[p]
    BY <1>1, <1>3, <2>1, <2>3, <2>4, ZenonT(30) DEF SchedInv, SchedTypeOK
  <2>6. ThreadIndInv' /\ ProgramTypeOK' /\ ProgramInv' /\ MovesTo(l)
    BY <1>1, <1>2, <2>4, <2>5, SyncMoves, ZenonT(30)
  <2> QED
    BY <1>2, <1>5, <2>3, <2>4, <2>5, <2>6, ZenonT(30)
<1> QED
  BY <1>4, <1>5, ZenonT(30)

\* A step of uth_mutex_lock or uth_mutex_unlock: the running thread may fall
\* asleep on its mutex or wake a thread that sleeps on it.
LEMMA MutexMoves ==
  ASSUME ThreadIndInv, MutexIndInv, ProgramTypeOK, ProgramInv, MutexStep,
         UNCHANGED <<threadVars, programVars>>
  PROVE  /\ ThreadIndInv' /\ MutexIndInv' /\ ProgramTypeOK' /\ ProgramInv' /\ MovesTo(pc')
         /\ obj'[uth_current] = obj[uth_current] /\ obj[uth_current] \in Mutexes
         /\ \A o \in Objs \ {obj[uth_current]} : waiters'[o] = waiters[o]
<1> DEFINE m == obj[uth_current]
<1>1. MutexIndInv'
  BY LockXchgInv, LockBlockInv, LockOwnInv, UnlockFreeInv, UnlockWakeInv, ZenonT(30) DEF MutexStep
<1>2. /\ pc \in {"lock_xchg", "lock_block", "lock_own", "unlock_free", "unlock_wake"}
      /\ \/ \E l \in {"lock_block", "lock_own", "leave", "unlock_wake"} : Goto(l)
         \/ uth_block(m, "lock_swap")
         \/ uth_wake_one(m, "leave")
  BY ZenonT(30) DEF MutexStep, lock_xchg, lock_block, lock_own, unlock_free, unlock_wake, Obj
<1>3. /\ pc \in Sections
      /\ {"lock_block", "lock_own", "leave", "unlock_wake"} \subseteq Sections \ (CallLabels \cup ExitLabels)
  BY <1>2, ZenonT(30) DEF Sections, CallLabels, JoinLabels, ExitLabels
<1>4. uth_current \in Tids /\ Place(uth_current) = pc
  BY <1>3, ThreadCode, ZenonT(30) DEF ThreadIndInv
<1>5. m \in Mutexes /\ m \in Objs
  BY <1>2, <1>4, MutexAssumption, ZenonT(30) DEF MutexIndInv, MutexInv, MutexLabels
<1>6. ASSUME NEW l \in {"lock_block", "lock_own", "leave", "unlock_wake"}, Goto(l)
      PROVE  /\ ThreadIndInv' /\ ProgramTypeOK' /\ ProgramInv' /\ MovesTo(l)
             /\ pc' = l /\ UNCHANGED <<obj, waiters>>
  BY <1>3, <1>6, GotoMoves, ZenonT(30) DEF Goto
<1>7. CASE uth_block(m, "lock_swap")
  <2>1. pc' = "lock_swap"
    BY <1>7, ZenonT(30) DEF uth_block
  <2> QED
    BY <1>1, <1>3, <1>5, <1>7, <2>1, BlockMoves, ZenonT(30)
<1>8. CASE uth_wake_one(m, "leave")
  <2>1. pc' = "leave"
    BY <1>8, ZenonT(30) DEF uth_wake_one, Goto
  <2> QED
    BY <1>1, <1>3, <1>5, <1>8, <2>1, WakeMoves, ZenonT(30)
<1> QED
  BY <1>1, <1>2, <1>5, <1>6, <1>7, <1>8, ZenonT(30)
=============================================================================
